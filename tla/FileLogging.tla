----------------------------- MODULE FileLogging -----------------------------
(***************************************************************************)
(* File logging inside one process: FileLogController                      *)
(* (celery_cnc/core/logging/adapters/file.py) and configure_process_logging *)
(* (celery_cnc/logging/setup.py).  Both attach TimedRotatingFileHandlers to *)
(* loggers of the process-wide logging registry: the controller one handler *)
(* per logger name, cached in _handlers; configure_process_logging one per *)
(* log file on the root logger, found again by _find_handler.              *)
(*                                                                         *)
(* A file is a (directory, name) pair (log_file_path); a handler writes     *)
(* the records that pass its level to its file.  FileHandler.baseFilename  *)
(* is os.path.abspath of the path, while _find_handler compares it with    *)
(* Path.resolve(), which follows symbolic links: the two agree unless the  *)
(* log directory's path goes through a link (LinkedDirs).  Formatting,     *)
(* rotation and flushing do not change which records reach which file and  *)
(* are left out.                                                           *)
(***************************************************************************)
EXTENDS Naturals, Sequences, FiniteSets, SequencesExt

CONSTANTS
  Names,        \* logger names passed to get_logger and used to log
  Components,   \* component names passed to configure_process_logging
  Dirs,         \* log directories a configuration may name
  LinkedDirs,   \* those whose path goes through a symbolic link
  Levels,       \* levels a configuration or a record may have
  MaxHandlers,  \* bound on the handler objects created
  MaxRecords    \* bound on the records logged

ASSUME LinkedDirs \subseteq Dirs /\ "root" \notin Names

NOTSET == 0
WARNING == 30
INFO == 20
Files == Dirs \X (Names \cup Components)
NoFile == <<"none", "none">>
NoSetup == [file |-> NoFile, level |-> NOTSET]

VARIABLES
  configured,  \* FileLogController._configured
  cfgDir,      \* FileLogController._config.log_dir
  cfgLevel,    \* FileLogController._log_level
  cache,       \* FileLogController._handlers: logger name -> handler id, 0 if none
  hfile,       \* file of each handler created so far (baseFilename)
  hlevel,      \* level of each handler created so far
  closed,      \* handlers closed by shutdown() and not reopened since
  loggers,     \* the registry: "root" and each name -> [level, handlers (a list)]
  files,       \* each file: the ids of the records written to it, in order
  lastSetup,   \* file and level of the latest configure_process_logging call
  logged,      \* history: each record with the files its configuration owes it
  fresh        \* names fetched through get_logger since the last configure()

vars == <<configured, cfgDir, cfgLevel, cache, hfile, hlevel, closed, loggers,
          files, lastSetup, logged, fresh>>

Created == DOMAIN hfile

(* Creating a TimedRotatingFileHandler on file f at level lv. *)
NewHandler(f, lv) ==
  LET id == Len(hfile) + 1
  IN [id |-> id, hfile |-> Append(hfile, f), hlevel |-> Append(hlevel, lv)]

(* _attach_handlers' last step: the handler is added to the logger unless  *)
(* it is already one of its handlers.                                      *)
AttachHandler(ls, l, h) ==
  IF h \in ToSet(ls[l].handlers) THEN ls
  ELSE [ls EXCEPT ![l].handlers = Append(@, h)]

(* Logger.getEffectiveLevel for a logger whose parent is the root. *)
EffectiveLevel(l) ==
  IF l # "root" /\ loggers[l].level # NOTSET THEN loggers[l].level
  ELSE loggers["root"].level

-----------------------------------------------------------------------------
Init ==
  /\ configured = FALSE
  /\ cfgDir = CHOOSE d \in Dirs : TRUE
  /\ cfgLevel = INFO
  /\ cache = [n \in Names |-> 0]
  /\ hfile = <<>> /\ hlevel = <<>>
  /\ closed = {}
  /\ loggers = [l \in Names \cup {"root"} |->
                  [level |-> IF l = "root" THEN WARNING ELSE NOTSET, handlers |-> <<>>]]
  /\ files = [f \in Files |-> <<>>]
  /\ lastSetup = NoSetup
  /\ logged = {}
  /\ fresh = {}

(* configure(config): takes the directory and the level of the new         *)
(* configuration; the handlers already in _handlers are left as they are.  *)
Configure(d, lv) ==
  /\ configured' = TRUE
  /\ cfgDir' = d
  /\ cfgLevel' = lv
  /\ fresh' = {}
  /\ UNCHANGED <<cache, hfile, hlevel, closed, loggers, files, lastSetup, logged>>

(* get_logger(name): raises unless configured, sets the logger's level to  *)
(* the configured level, then _attach_handlers: takes the handler cached   *)
(* for the name, or creates one on the configured directory at the         *)
(* configured level and caches it, and adds it to the logger.              *)
GetLogger(n) ==
  LET cached == cache[n] # 0
      h == IF cached THEN [id |-> cache[n], hfile |-> hfile, hlevel |-> hlevel]
           ELSE NewHandler(<<cfgDir, n>>, cfgLevel)
      withLevel == [loggers EXCEPT ![n].level = cfgLevel]
  IN /\ configured
     /\ cached \/ Len(hfile) < MaxHandlers
     /\ cache' = [cache EXCEPT ![n] = h.id]
     /\ hfile' = h.hfile /\ hlevel' = h.hlevel
     /\ loggers' = AttachHandler(withLevel, n, h.id)
     /\ fresh' = fresh \cup {n}
     /\ UNCHANGED <<configured, cfgDir, cfgLevel, closed, files, lastSetup, logged>>

(* shutdown(): flushes and closes every cached handler.  They stay cached  *)
(* and attached, and FileHandler.emit reopens a closed file.               *)
Shutdown ==
  /\ closed' = {cache[n] : n \in {m \in Names : cache[m] # 0}}
  /\ UNCHANGED <<configured, cfgDir, cfgLevel, cache, hfile, hlevel, loggers, files,
                 lastSetup, logged, fresh>>

(* _find_handler that never finds the handler already on the file. *)
FindHandlerNever(l, f) == 0
(* _find_handler(root, log_file): the first handler of the logger whose    *)
(* baseFilename (abspath) equals str(log_file.resolve()); 0 if none.       *)
FindHandler(l, f) ==
  LET hs == SelectSeq(loggers[l].handlers,
                      LAMBDA h : hfile[h] = f /\ f[1] \notin LinkedDirs)
  IN IF hs = <<>> THEN 0 ELSE Head(hs)

(* configure_process_logging setting the level only on a handler it       *)
(* creates, not on the one _find_handler returns.                          *)
ConfigureProcessLoggingLevelOnCreate(d, c, lv) ==
  LET f == <<d, c>>
      found == FindHandler("root", f)
      h == IF found # 0 THEN [id |-> found, hfile |-> hfile, hlevel |-> hlevel]
           ELSE NewHandler(f, lv)
      rootLevel == [loggers EXCEPT !["root"].level = lv]
  IN /\ found # 0 \/ Len(hfile) < MaxHandlers
     /\ hfile' = h.hfile
     /\ hlevel' = h.hlevel
     /\ loggers' = IF found # 0 THEN rootLevel
                   ELSE [rootLevel EXCEPT !["root"].handlers = Append(@, h.id)]
     /\ lastSetup' = [file |-> f, level |-> lv]
     /\ UNCHANGED <<configured, cfgDir, cfgLevel, cache, closed, files, logged, fresh>>

(* configure_process_logging(config, component=c): sets the root level,    *)
(* finds the root handler for the component's file or creates and adds     *)
(* one, and sets that handler's level to the configured level.             *)
ConfigureProcessLogging(d, c, lv) ==
  LET f == <<d, c>>
      found == FindHandler("root", f)
      h == IF found # 0 THEN [id |-> found, hfile |-> hfile, hlevel |-> hlevel]
           ELSE NewHandler(f, lv)
      rootLevel == [loggers EXCEPT !["root"].level = lv]
  IN /\ found # 0 \/ Len(hfile) < MaxHandlers
     /\ hfile' = h.hfile
     /\ hlevel' = [h.hlevel EXCEPT ![h.id] = lv]
     /\ loggers' = IF found # 0 THEN rootLevel
                   ELSE [rootLevel EXCEPT !["root"].handlers = Append(@, h.id)]
     /\ lastSetup' = [file |-> f, level |-> lv]
     /\ UNCHANGED <<configured, cfgDir, cfgLevel, cache, closed, files, logged, fresh>>

(* The application logs a record at level lv on logger n (Logger.log):     *)
(* dropped below the logger's effective level, otherwise handled by the    *)
(* logger's handlers and then, as it propagates, by the root's, each one   *)
(* that the record's level passes appending it to its file.                *)
Log(n, lv) ==
  LET id == Cardinality(logged) + 1
      passes == lv >= EffectiveLevel(n)
      writers == SelectSeq(loggers[n].handlers \o loggers["root"].handlers,
                           LAMBDA h : lv >= hlevel[h])
      writes(f) == Len(SelectSeq(writers, LAMBDA h : hfile[h] = f))
  IN /\ Cardinality(logged) < MaxRecords
     /\ files' = IF passes
                 THEN [f \in Files |-> files[f] \o [i \in 1..writes(f) |-> id]]
                 ELSE files
     /\ closed' = IF passes THEN closed \ ToSet(writers) ELSE closed
     /\ logged' = logged \cup
          {[id |-> id,
            ctlFile |-> IF n \in fresh /\ lv >= cfgLevel THEN <<cfgDir, n>> ELSE NoFile,
            setupFile |-> IF loggers[n].level = NOTSET THEN lastSetup.file ELSE NoFile,
            setupPasses |-> lv >= lastSetup.level]}
     /\ UNCHANGED <<configured, cfgDir, cfgLevel, cache, hfile, hlevel, loggers,
                    lastSetup, fresh>>

Next ==
  \/ \E d \in Dirs, lv \in Levels : Configure(d, lv)
  \/ \E n \in Names : GetLogger(n)
  \/ Shutdown
  \/ \E d \in Dirs, c \in Components, lv \in Levels : ConfigureProcessLogging(d, c, lv)
  \/ \E n \in Names, lv \in Levels : Log(n, lv)

Spec == Init /\ [][Next]_vars

-----------------------------------------------------------------------------
(* No file holds a record twice: get_logger called again for a name does   *)
(* not attach its cached handler a second time, and configure_process_     *)
(* logging called again for the same file finds its handler instead of     *)
(* adding another one on the same file.                                    *)
NoDuplicateWrites == \A f \in Files : IsInjective(files[f])

(* A record logged on a logger the controller has not given a level to     *)
(* reaches the file named by the latest configure_process_logging call     *)
(* exactly when its level passes that call's level, whatever levels and    *)
(* files earlier calls configured: the call sets the root level and the    *)
(* level of the handler it finds or creates.                               *)
SetupFollowsLatest ==
  \A r \in logged :
     r.setupFile # NoFile =>
       (r.id \in ToSet(files[r.setupFile]) <=> r.setupPasses)

(* A record logged through a logger fetched by get_logger since the last   *)
(* configure(), at a level that passes the configured level, is written to *)
(* the controller's file for that logger in the configured directory.      *)
ControllerFollowsConfig ==
  \A r \in logged : r.ctlFile # NoFile => r.id \in ToSet(files[r.ctlFile])
=============================================================================

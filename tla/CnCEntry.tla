------------------------------ MODULE CnCEntry ------------------------------
(***************************************************************************)
(* The CeleryCnC entry point (celery_cnc/__init__.py) and the process-wide *)
(* settings it reads and replaces (get_settings/set_settings/reset_settings*)
(* of the config module).                                                  *)
(*                                                                         *)
(* A configuration is a mutable object: get_settings hands out the cached  *)
(* one, model_copy makes a new one, and "self.config.db_path = path"       *)
(* changes the object in place, whoever else holds it.  Objects live in a  *)
(* heap "objs"; cache and runtime are indices into it (0 is None).         *)
(*                                                                         *)
(* Paths are abstract: a relative path resolves against the process's      *)
(* working directory Cwd, an absolute one to itself.  The disk maps each   *)
(* resolved path to absent, a database file with data ("old"), or a        *)
(* directory.  A database controller argument is None, a callable factory, *)
(* a MemoryController, another BaseDBController, or a SQLiteController     *)
(* with a _path (NoPath: the attribute is missing).                        *)
(***************************************************************************)
EXTENDS Integers, Sequences

CONSTANTS
  RelPaths,      \* relative paths
  AbsPaths,      \* absolute paths
  Cwd,           \* the working directory
  DefaultDbPath, \* the default configuration's db_path
  NoPath,        \* a SQLiteController without _path
  None,          \* the None argument
  Retentions,    \* retention_days arguments besides None
  Kinds,         \* controller kinds besides "sqlite"
  MaxCalls       \* CeleryCnC(...) calls made in the process, raising or not

(* Path(p).expanduser().resolve(): a relative path is taken from Cwd. *)
Resolve(p) == IF p \in RelPaths THEN <<Cwd, p>> ELSE p
Files == AbsPaths \cup {Resolve(r) : r \in RelPaths}
NoFile == <<>>

Controllers ==
  {[kind |-> k, path |-> NoPath] : k \in Kinds} \cup
  [kind : {"sqlite"}, path : RelPaths \cup AbsPaths \cup {NoPath}]

(* A configuration: db_path, purge_db, retention_days. *)
DefaultConfig == [db |-> DefaultDbPath, purge |-> FALSE, retention |-> 7]

VARIABLES
  objs,       \* configuration objects
  cache,      \* _STATE.cache
  runtime,    \* _STATE.runtime
  disk,       \* resolved path -> "absent" | "old" | "dir"
  instances,  \* CeleryCnC objects: config object, controller, db_path, purge
              \* flag, the file the purge cleared, the store file run() opened
  calls       \* CeleryCnC(...) calls so far

vars == <<objs, cache, runtime, disk, instances, calls>>

Init ==
  /\ objs = <<>>
  /\ cache = 0
  /\ runtime = 0
  /\ disk \in [Files -> {"absent", "old", "dir"}]
  /\ instances = <<>>
  /\ calls = 0

-----------------------------------------------------------------------------
(* get_settings: the runtime object if set, else the cache, created from   *)
(* the defaults on first use.  The result is <<object, heap, cache>>.      *)
GetSettings(os, c, r) ==
  IF r # 0 THEN <<r, os, c>>
  ELSE IF c # 0 THEN <<c, os, c>>
  ELSE <<Len(os) + 1, Append(os, DefaultConfig), Len(os) + 1>>

(* set_settings: the object becomes the runtime override. *)
SetSettings(o) == runtime' = o

(* reset_settings: clear the cache and the runtime object. *)
ResetSettings ==
  /\ cache # 0 \/ runtime # 0
  /\ cache' = 0
  /\ runtime' = 0
  /\ UNCHANGED <<objs, disk, instances, calls>>

(* _ensure_sqlite_db_path: the db_path a SQLiteController with a _path     *)
(* fixes, or the resolved config db_path when there is no controller;      *)
(* other controllers leave it alone.                                       *)
EnsuredDbPath(ctrl, db) ==
  CASE ctrl.kind = "sqlite" /\ ctrl.path # NoPath -> Resolve(ctrl.path)
    [] ctrl.kind = "none"                         -> Resolve(db)
    [] OTHER                                      -> db

(* _resolve_purge_path returning None whenever a controller is given. *)
PurgePathNoCtrl(ctrl, db) == IF ctrl.kind = "none" THEN db ELSE NoFile
(* _resolve_purge_path: the config db_path without a controller, the      *)
(* SQLiteController's path if it has one, else nothing to purge.           *)
PurgePath(ctrl, db) ==
  CASE ctrl.kind = "none"                         -> db
    [] ctrl.kind = "sqlite" /\ ctrl.path # NoPath -> ctrl.path
    [] ctrl.kind = "sqlite"                       -> db
    [] OTHER                                      -> NoFile

(* _purge_existing_db: nothing to do without a path or when the resolved  *)
(* path does not exist; a directory raises RuntimeError; a file is        *)
(* deleted.                                                                *)
PurgeRaises(d, target) == target # NoFile /\ d[target] = "dir"
Purged(d, target) == IF target # NoFile THEN [d EXCEPT ![target] = "absent"] ELSE d

(* The constructor rejects a retention_days argument that is not positive. *)
RetentionRejected(ret) == ret # None /\ ret <= 0

(* CeleryCnC.__init__(config=cfgArg, db_controller=ctrl, retention_days=  *)
(* ret, purge_db=purge): take the given configuration or get_settings();  *)
(* reject a non-positive retention; apply the overrides with model_copy    *)
(* (which does not validate); set_settings; _ensure_sqlite_db_path; then,  *)
(* if purge_db, _purge_existing_db, which deletes the resolved purge path  *)
(* if it is a file and raises RuntimeError if it is a directory.  The      *)
(* settings and the heap keep what happened before a raise.                *)
Construct(cfgArg, ctrl, ret, purge) ==
  /\ calls < MaxCalls
  /\ calls' = calls + 1
  /\ LET g == IF cfgArg = None THEN GetSettings(objs, cache, runtime)
                ELSE <<Len(objs) + 1, Append(objs, cfgArg), cache>>
         o0 == g[1]
         h0 == g[2]
         o1 == IF ret # None THEN Len(h0) + 1 ELSE o0
         h1 == IF ret # None THEN Append(h0, [h0[o0] EXCEPT !.retention = ret]) ELSE h0
         o2 == IF purge # None THEN Len(h1) + 1 ELSE o1
         h2 == IF purge # None THEN Append(h1, [h1[o1] EXCEPT !.purge = purge]) ELSE h1
         h3 == [h2 EXCEPT ![o2].db = EnsuredDbPath(ctrl, @)]
         pp == PurgePath(ctrl, h3[o2].db)
         target == IF h3[o2].purge /\ pp # NoFile THEN Resolve(pp) ELSE NoFile
     IN /\ cache' = g[3]
        /\ IF RetentionRejected(ret)
           THEN /\ objs' = h0
                /\ UNCHANGED <<runtime, disk, instances>>
           ELSE /\ objs' = h3
                /\ SetSettings(o2)
                /\ IF PurgeRaises(disk, target)
                   THEN UNCHANGED <<disk, instances>>
                   ELSE /\ disk' = Purged(disk, target)
                        /\ instances' = Append(instances,
                              [cfg |-> o2, ctrl |-> ctrl, db |-> h3[o2].db,
                               purgeOn |-> h3[o2].purge, cleared |-> target,
                               store |-> NoFile])

(* run(): _resolve_db_controller_factory, and the store file the factory   *)
(* opens in the children: a callable is used as is; a SQLiteController    *)
(* gives _make_sqlite_controller its _path, or the config db_path when it *)
(* has none; a MemoryController or other controller is returned as is;    *)
(* without a controller, _make_sqlite_controller gets the config db_path. *)
(* The config object is read at this moment.                               *)
StoreOf(inst) ==
  CASE inst.ctrl.kind = "sqlite" /\ inst.ctrl.path # NoPath -> Resolve(inst.ctrl.path)
    [] inst.ctrl.kind \in {"sqlite", "none"} -> Resolve(objs[inst.cfg].db)
    [] OTHER -> <<inst.ctrl.kind>>

Run(i) ==
  /\ instances[i].store = NoFile
  /\ instances' = [instances EXCEPT ![i].store = StoreOf(instances[i])]
  /\ UNCHANGED <<objs, cache, runtime, disk, calls>>

Next ==
  \/ \E cfgArg \in {None} \cup
        {[db |-> p, purge |-> FALSE, retention |-> 7] : p \in RelPaths \cup AbsPaths},
       ctrl \in Controllers, ret \in Retentions \cup {None},
       purge \in {None, TRUE, FALSE} : Construct(cfgArg, ctrl, ret, purge)
  \/ \E i \in 1..Len(instances) : Run(i)
  \/ ResetSettings

Spec == Init /\ [][Next]_vars

-----------------------------------------------------------------------------
(* run() opens the store that construction prepared: for a SQLite store   *)
(* (no controller, or a SQLiteController) the file the factory opens is   *)
(* the db_path the configuration named when the object was built and,     *)
(* when purge_db was set, the file the purge deleted or found absent.      *)
RunUsesPreparedStore ==
  \A i \in 1..Len(instances) :
    LET inst == instances[i]
    IN inst.store # NoFile /\ inst.ctrl.kind \in {"none", "sqlite"} =>
         /\ inst.store = Resolve(IF inst.ctrl.path # NoPath THEN inst.ctrl.path
                                 ELSE inst.db)
         /\ inst.purgeOn => inst.store = inst.cleared
=============================================================================

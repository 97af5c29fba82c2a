------------------------------ MODULE LogFunnel ------------------------------
(***************************************************************************)
(* Log forwarding from the supervisor's child processes to one sink in the *)
(* parent (celery_root/core/logging/queue.py).  The parent builds a        *)
(* LogQueueRuntime with create_log_runtime: it settles a base logger, takes *)
(* the handlers on its propagation path, and hands them to a QueueListener *)
(* draining one multiprocessing.Queue.  Each child runs                     *)
(* configure_subprocess_logging, which puts a QueueHandler on its root     *)
(* logger.  A record a child logs goes into the queue through the child's  *)
(* feeder buffer; the listener thread hands it to the parent's handlers.   *)
(* LogQueueRuntime.stop puts a sentinel on the queue and joins the thread. *)
(*                                                                         *)
(* Python's logging semantics (getEffectiveLevel, callHandlers with its    *)
(* per-handler level check and lastResort, QueueListener with              *)
(* respect_handler_level) are modelled as the library implements them.     *)
(* The supervisor's order of steps (start, stop children, then stop the    *)
(* listener) is the spec's (section 4.4): its process manager is not in    *)
(* the repository's sources.                                               *)
(***************************************************************************)
EXTENDS Naturals, Sequences, FiniteSets, SequencesExt

CONSTANTS
  Children,       \* child processes the supervisor starts
  Handlers,       \* handler objects attached to the parent's loggers beforehand
  QueueHandlers,  \* those of Handlers that are logging.handlers.QueueHandler
  HandlerLevel,   \* the level of each handler in Handlers
  NewStream,      \* the StreamHandler the setup code creates when it finds none
  Forward,        \* the QueueHandler(config.queue) a child puts on its root logger
  LastResort,     \* logging.lastResort: stderr, used when a record finds no handler
  Sentinel,       \* the object QueueListener.stop() enqueues to end its thread
  Levels,         \* the levels children log at
  MaxRecords,     \* bound on the records each child logs
  MaxTotal,       \* bound on the records all children log together
  EmitLoggers,    \* loggers children log through
  StartMethod,    \* multiprocessing start method: "fork" or "spawn"
  InitTrees,      \* configurations of the parent's loggers before setup
  LoggerArgs      \* create_log_runtime's argument: a logger name, or "none"

NOTSET == 0
INFO == 20
WARNING == 30

(* The loggers of the model and each one's ancestry, nearest first.        *)
Loggers == {"root", "celery_root", "celery_root.x", "myapp"}
Lineage == [l \in Loggers |->
              CASE l = "root"          -> <<"root">>
                [] l = "celery_root"   -> <<"celery_root", "root">>
                [] l = "celery_root.x" -> <<"celery_root.x", "celery_root", "root">>
                [] l = "myapp"         -> <<"myapp", "root">>]
(* logger.name.startswith("celery_root") *)
UnderCeleryRoot == {"celery_root", "celery_root.x"}

AllHandlers == Handlers \cup {NewStream, Forward}
(* Handlers whose output the model records: the ones that write somewhere. *)
Sinks == (Handlers \ QueueHandlers) \cup {NewStream, LastResort}
LoggerConf == [handlers : SUBSET AllHandlers, level : {NOTSET} \cup Levels \cup {INFO, WARNING},
               propagate : BOOLEAN]
Rec == [child : Children, n : 1..MaxRecords, lv : Levels]

HLevel(h) == IF h \in Handlers THEN HandlerLevel[h]
             ELSE IF h = LastResort THEN WARNING ELSE NOTSET

VARIABLES
  tree,        \* the parent's loggers: Loggers -> LoggerConf
  base,        \* the base logger create_log_runtime settled on
  handlers,    \* QueueListener.handlers, in order
  childLevel,  \* LogQueueConfig.level
  listener,    \* "none", "created", "running", "stopped"
  sup,         \* the supervisor's phase
  cstate,      \* each child: "new", "running", "stopping", "exited", "killed"
  emitted,     \* records each child has logged so far
  buffer,      \* each child's multiprocessing.Queue feeder buffer
  queue,       \* the pipe under the multiprocessing.Queue
  enqueued,    \* history: records that reached the pipe
  dispatched,  \* history: records the listener thread has taken off the queue
  delivered,   \* records each sink received from the listener
  direct       \* records each sink received from a child's own handler

vars == <<tree, base, handlers, childLevel, listener, sup, cstate, emitted,
          buffer, queue, enqueued, dispatched, delivered, direct>>

-----------------------------------------------------------------------------
(* Logger.getEffectiveLevel: the first level set on the way up.            *)
RECURSIVE EffLevelFrom(_, _)
EffLevelFrom(t, s) == IF Len(s) = 1 \/ t[Head(s)].level # NOTSET
                      THEN t[Head(s)].level ELSE EffLevelFrom(t, Tail(s))
EffectiveLevel(t, l) == EffLevelFrom(t, Lineage[l])

(* The loggers whose handlers a record logged on l visits: up the ancestry *)
(* until a logger that does not propagate.                                 *)
RECURSIVE ChainFrom(_, _)
ChainFrom(t, s) == IF Len(s) = 1 \/ ~t[Head(s)].propagate
                   THEN <<Head(s)>> ELSE <<Head(s)>> \o ChainFrom(t, Tail(s))
Chain(t, l) == ChainFrom(t, Lineage[l])

(* Variants without the isinstance(handler, QueueHandler) skip and without *)
(* the de-duplication by id(handler).                                      *)
CollectHandlersNoSkip(t, l) ==
  LET step(acc, g) == acc \o SetToSeq({h \in t[g].handlers : h \notin ToSet(acc)})
  IN FoldLeft(step, <<>>, Chain(t, l))
CollectHandlersNoDedup(t, l) ==
  LET step(acc, g) == acc \o SetToSeq(t[g].handlers \ (QueueHandlers \cup {Forward}))
  IN FoldLeft(step, <<>>, Chain(t, l))
(* _collect_handlers: the handlers along the chain, QueueHandlers skipped, *)
(* each handler once.                                                       *)
CollectHandlers(t, l) ==
  LET step(acc, g) == acc \o SetToSeq({h \in t[g].handlers \ (QueueHandlers \cup {Forward}) :
                                         h \notin ToSet(acc)})
  IN FoldLeft(step, <<>>, Chain(t, l))

(* _ensure_base_logger: the (tree, base logger) it leaves behind.          *)
EnsureBaseLogger(t, arg) ==
  LET cr == t["celery_root"]
  IN CASE arg = "none" ->
            <<[t EXCEPT !["celery_root"] =
                 [handlers |-> IF cr.handlers = {} THEN {NewStream} ELSE cr.handlers,
                  level |-> IF cr.level = NOTSET THEN INFO ELSE cr.level,
                  propagate |-> FALSE]], "celery_root">>
       [] arg \in UnderCeleryRoot -> <<t, arg>>
       [] OTHER ->
            <<[t EXCEPT !["celery_root"] =
                 [handlers |-> cr.handlers \cup ToSet(CollectHandlers(t, arg)),
                  level |-> IF cr.level = NOTSET THEN EffectiveLevel(t, arg) ELSE cr.level,
                  propagate |-> FALSE]], "celery_root">>

(* create_log_runtime: settle the base logger, collect its handlers, add a *)
(* StreamHandler when there are none, and read the level children use.     *)
CreateLogRuntime(arg) ==
  LET ensured == EnsureBaseLogger(tree, arg)
      b == ensured[2]
      found == CollectHandlers(ensured[1], b)
      t == IF found = <<>>
           THEN [ensured[1] EXCEPT ![b].handlers = @ \cup {NewStream}]
           ELSE ensured[1]
  IN /\ sup = "init"
     /\ tree' = t
     /\ base' = b
     /\ handlers' = IF found = <<>> THEN <<NewStream>> ELSE found
     /\ childLevel' = EffectiveLevel(t, b)
     /\ listener' = "created"
     /\ sup' = "created"
     /\ UNCHANGED <<cstate, emitted, buffer, queue, enqueued, dispatched, delivered, direct>>

(* LogQueueRuntime.start: QueueListener.start runs the listener thread.    *)
StartListener ==
  /\ sup = "created"
  /\ listener' = "running"
  /\ sup' = "started"
  /\ UNCHANGED <<tree, base, handlers, childLevel, cstate, emitted, buffer, queue,
                 enqueued, dispatched, delivered, direct>>

(* The loggers of a child after configure_subprocess_logging: a fork child *)
(* inherits the parent's loggers, a spawn child starts from fresh ones;    *)
(* root gets only the QueueHandler and the config level, celery_root loses *)
(* its handlers and its level and propagates.                              *)
FreshTree == [l \in Loggers |-> [handlers |-> {},
                                 level |-> IF l = "root" THEN WARNING ELSE NOTSET,
                                 propagate |-> TRUE]]
ChildTree ==
  LET inherited == IF StartMethod = "fork" THEN tree ELSE FreshTree
  IN [inherited EXCEPT
        !["root"] = [@ EXCEPT !.handlers = {Forward}, !.level = childLevel],
        !["celery_root"] = [handlers |-> {}, level |-> NOTSET, propagate |-> TRUE]]

(* The supervisor starts a child, which configures its logging first.     *)
StartChild(c) ==
  /\ sup = "started"
  /\ cstate[c] = "new"
  /\ cstate' = [cstate EXCEPT ![c] = "running"]
  /\ UNCHANGED <<tree, base, handlers, childLevel, listener, sup, emitted, buffer,
                 queue, enqueued, dispatched, delivered, direct>>

(* A child logs a record at lv on logger l: Logger.isEnabledFor, then       *)
(* callHandlers up the chain with each handler's level check, lastResort   *)
(* when the chain holds no handler.  The QueueHandler puts the record in   *)
(* the feeder buffer; any other handler the child holds writes directly.   *)
Emit(c, l, lv) ==
  LET ct == ChildTree
      r == [child |-> c, n |-> emitted[c] + 1, lv |-> lv]
      calls == FoldLeft(LAMBDA acc, g : acc \o SetToSeq({h \in ct[g].handlers : lv >= HLevel(h)}),
                        <<>>, Chain(ct, l))
      noHandler == \A g \in ToSet(Chain(ct, l)) : ct[g].handlers = {}
      writes(h) == Len(SelectSeq(calls, LAMBDA x : x = h))
                   + (IF h = LastResort /\ noHandler /\ lv >= WARNING THEN 1 ELSE 0)
  IN /\ cstate[c] \in {"running", "stopping"}
     /\ emitted[c] < MaxRecords
     /\ FoldFunction(+, 0, emitted) < MaxTotal
     /\ lv >= EffectiveLevel(ct, l)
     /\ emitted' = [emitted EXCEPT ![c] = @ + 1]
     /\ buffer' = [buffer EXCEPT ![c] = @ \o [i \in 1..writes(Forward) |-> r]]
     /\ direct' = [h \in Sinks |-> direct[h] \o [i \in 1..writes(h) |-> r]]
     /\ UNCHANGED <<tree, base, handlers, childLevel, listener, sup, cstate, queue,
                    enqueued, dispatched, delivered>>

(* A feeder that writes the newest buffered record first. *)
FlushNewest(c) ==
  /\ buffer[c] # <<>>
  /\ queue' = Append(queue, Last(buffer[c]))
  /\ enqueued' = enqueued \cup {Last(buffer[c])}
  /\ buffer' = [buffer EXCEPT ![c] = SubSeq(@, 1, Len(@) - 1)]
  /\ UNCHANGED <<tree, base, handlers, childLevel, listener, sup, cstate, emitted,
                 dispatched, delivered, direct>>
(* The child's feeder thread writes the oldest buffered record to the pipe. *)
Flush(c) ==
  /\ buffer[c] # <<>>
  /\ queue' = Append(queue, Head(buffer[c]))
  /\ enqueued' = enqueued \cup {Head(buffer[c])}
  /\ buffer' = [buffer EXCEPT ![c] = Tail(@)]
  /\ UNCHANGED <<tree, base, handlers, childLevel, listener, sup, cstate, emitted,
                 dispatched, delivered, direct>>

(* How often the listener hands record r to handler h: once per occurrence *)
(* of h in its list, if h's level admits r (respect_handler_level=True).   *)
ListenerTakesAll(r, h) == Len(SelectSeq(handlers, LAMBDA x : x = h))
ListenerTakes(r, h) == Len(SelectSeq(handlers, LAMBDA x : x = h /\ r.lv >= HLevel(x)))

(* QueueListener's thread: take the next item; the sentinel ends the thread *)
(* and with it LogQueueRuntime.stop's join; a record goes to each handler   *)
(* whose level admits it.  A QueueHandler among the handlers would put it   *)
(* back on the queue.                                                       *)
Dispatch ==
  /\ listener = "running"
  /\ queue # <<>>
  /\ IF Head(queue) = Sentinel
     THEN /\ listener' = "stopped"
          /\ sup' = IF sup = "draining" THEN "done" ELSE sup
          /\ queue' = Tail(queue)
          /\ UNCHANGED <<dispatched, delivered>>
     ELSE LET r == Head(queue)
          IN /\ delivered' = [h \in Sinks |-> delivered[h] \o [i \in 1..ListenerTakes(r, h) |-> r]]
             /\ queue' = Tail(queue) \o [i \in 1..Len(SelectSeq(handlers,
                                           LAMBDA x : x \in QueueHandlers)) |-> r]
             /\ dispatched' = dispatched \cup {r}
             /\ UNCHANGED <<listener, sup>>
  /\ UNCHANGED <<tree, base, handlers, childLevel, cstate, emitted, buffer, enqueued, direct>>

(* A child ends on its own or after the stop signal.  A normal interpreter *)
(* exit joins the feeder thread, so the buffer is empty when it is gone.   *)
ChildExit(c) ==
  /\ cstate[c] \in {"running", "stopping"}
  /\ buffer[c] = <<>>
  /\ cstate' = [cstate EXCEPT ![c] = "exited"]
  /\ UNCHANGED <<tree, base, handlers, childLevel, listener, sup, emitted, buffer,
                 queue, enqueued, dispatched, delivered, direct>>

-----------------------------------------------------------------------------
(* Supervisor steps, from the spec (section 4.4).                          *)

(* stop(): the stop signal goes to every child that still runs.            *)
RequestStop ==
  /\ sup = "started"
  /\ \A c \in Children : cstate[c] # "new"
  /\ cstate' = [c \in Children |-> IF cstate[c] = "running" THEN "stopping" ELSE cstate[c]]
  /\ sup' = "stopping"
  /\ UNCHANGED <<tree, base, handlers, childLevel, listener, emitted, buffer, queue,
                 enqueued, dispatched, delivered, direct>>

(* A child still alive after its grace period is terminated; what its      *)
(* feeder had not written yet is lost with it.                             *)
Kill(c) ==
  /\ sup = "stopping"
  /\ cstate[c] = "stopping"
  /\ cstate' = [cstate EXCEPT ![c] = "killed"]
  /\ buffer' = [buffer EXCEPT ![c] = <<>>]
  /\ UNCHANGED <<tree, base, handlers, childLevel, listener, sup, emitted, queue,
                 enqueued, dispatched, delivered, direct>>

(* LogQueueRuntime.stop: QueueListener.stop puts the sentinel on the queue *)
(* and joins the listener thread, which returns once the sentinel is taken. *)
StopListener ==
  /\ queue' = Append(queue, Sentinel)
  /\ sup' = "draining"
  /\ UNCHANGED <<tree, base, handlers, childLevel, listener, cstate, emitted, buffer,
                 enqueued, dispatched, delivered, direct>>

(* The supervisor stops the runtime once every child is gone (spec 4.4;   *)
(* the order is the supervisor's, not LogQueueRuntime's).                  *)
SupStopListener ==
  /\ sup = "stopping"
  /\ \A c \in Children : cstate[c] \in {"exited", "killed"}
  /\ StopListener

(* The supervisor has returned; nothing runs any more.                      *)
Terminated ==
  /\ sup = "done"
  /\ UNCHANGED vars

-----------------------------------------------------------------------------
Init ==
  /\ tree \in InitTrees
  /\ base = "none"
  /\ handlers = <<>>
  /\ childLevel = NOTSET
  /\ listener = "none"
  /\ sup = "init"
  /\ cstate = [c \in Children |-> "new"]
  /\ emitted = [c \in Children |-> 0]
  /\ buffer = [c \in Children |-> <<>>]
  /\ queue = <<>>
  /\ enqueued = {}
  /\ dispatched = {}
  /\ delivered = [h \in Sinks |-> <<>>]
  /\ direct = [h \in Sinks |-> <<>>]

Next ==
  \/ \E arg \in LoggerArgs : CreateLogRuntime(arg)
  \/ StartListener
  \/ \E c \in Children : \/ StartChild(c)
                         \/ Flush(c)
                         \/ ChildExit(c)
                         \/ Kill(c)
                         \/ \E l \in EmitLoggers, lv \in Levels : Emit(c, l, lv)
  \/ Dispatch
  \/ RequestStop
  \/ SupStopListener
  \/ Terminated

(* The listener thread, the feeder threads, the supervisor's own steps and *)
(* the grace-period kill are all scheduled; a child may hang and a stop    *)
(* need not ever be requested.                                             *)
Spec ==
  /\ Init /\ [][Next]_vars
  /\ WF_vars(\E arg \in LoggerArgs : CreateLogRuntime(arg))
  /\ WF_vars(StartListener)
  /\ WF_vars(Dispatch)
  /\ WF_vars(SupStopListener)
  /\ \A c \in Children : WF_vars(Flush(c)) /\ WF_vars(Kill(c)) /\ WF_vars(StartChild(c))

-----------------------------------------------------------------------------
(* Types; the listener's handler list never holds a QueueHandler, which    *)
(* would put every record back on the queue it came from.                  *)
TypeOK ==
  /\ tree \in [Loggers -> LoggerConf]
  /\ base \in Loggers \cup {"none"}
  /\ handlers \in Seq((Handlers \ QueueHandlers) \cup {NewStream})
  /\ listener \in {"none", "created", "running", "stopped"}
  /\ sup \in {"init", "created", "started", "stopping", "draining", "done"}
  /\ cstate \in [Children -> {"new", "running", "stopping", "exited", "killed"}]
  /\ emitted \in [Children -> 0..MaxRecords]
  /\ buffer \in [Children -> Seq(Rec)]
  /\ queue \in Seq(Rec \cup {Sentinel})
  /\ enqueued \subseteq Rec /\ dispatched \subseteq Rec
  /\ delivered \in [Sinks -> Seq(Rec)] /\ direct \in [Sinks -> Seq(Rec)]

(* Reference for the handlers a record logged on the base logger reaches:  *)
(* those of every ancestor up to and including the first that does not     *)
(* propagate.                                                              *)
OnPath(t, b) ==
  {Lineage[b][k] : k \in {k \in 1..Len(Lineage[b]) :
                            \A j \in 1..(k - 1) : t[Lineage[b][j]].propagate}}
BaseSinks == {h \in UNION {tree[g].handlers : g \in OnPath(tree, base)} : h \in Sinks}

(* A record a child logs is written at most once to each sink, whether it  *)
(* arrives through the listener or from a handler the child holds itself   *)
(* (_collect_handlers' de-duplication and QueueHandler skip,               *)
(* configure_subprocess_logging's removal of inherited handlers).          *)
ExactlyOnce ==
  \A h \in Sinks :
    LET s == delivered[h] \o direct[h]
    IN \A i, j \in DOMAIN s : i # j => s[i] # s[j]

(* The listener hands each record it takes off the queue to exactly the    *)
(* handlers the parent's base logger would reach, each one only if the     *)
(* handler's level admits the record (create_log_runtime's handler list,   *)
(* QueueListener's respect_handler_level).                                 *)
DeliveryMatchesBase ==
  \A r \in dispatched, h \in Sinks :
    (r \in ToSet(delivered[h])) <=> (h \in BaseSinks /\ r.lv >= HLevel(h))

(* The funnel seen as a channel per child: what child c has handed to its *)
(* QueueHandler and not lost is the records of c the listener has taken,   *)
(* then those of c in the pipe, then its feeder buffer.                    *)
Received(c) ==
  LET S == {r \in dispatched : r.child = c}
  IN [i \in 1..Cardinality(S) |-> CHOOSE r \in S : Cardinality({q \in S : q.n < r.n}) = i - 1]
InFlight(c) == SelectSeq(queue, LAMBDA x : x # Sentinel /\ x.child = c) \o buffer[c]
Channel == INSTANCE LogChannel
             WITH Msgs <- Rec,
                  sent <- [c \in Children |-> Received(c) \o InFlight(c)],
                  recv <- [c \in Children |-> Received(c)]

(* The funnel implements the spec's log channel: each child's records are *)
(* taken by the listener in the child's own logging order, none twice and *)
(* none invented, only a killed child's untaken latest records are lost,   *)
(* and every other record is eventually taken (one feeder per child        *)
(* writing its buffer in order to one pipe, QueueListener's single thread, *)
(* the QueueHandler skip of _collect_handlers).                            *)
FunnelIsFifoChannel == Channel!Spec

=============================================================================

---------------------------- MODULE MC_LogFunnel ----------------------------
(* Instantiates LogFunnel for TLC: two children, three handlers of the     *)
(* parent (a plain one at NOTSET, a WARNING one, a QueueHandler) spread    *)
(* over the parent's loggers in the ways the setup code distinguishes.     *)
EXTENDS LogFunnel

CONSTANTS hA, hB, hQ

MCHandlerLevel == [h \in {hA, hB, hQ} |-> IF h = hB THEN 30 ELSE 0]

(* Parent logger configurations: handlers shared between a logger and its  *)
(* ancestor, a QueueHandler on celery_root, a non-propagating logger, a    *)
(* level set below the base logger, loggers without any handler.           *)
MCInitTrees ==
  { [l \in Loggers |->
       CASE l = "root" -> [handlers |-> rh, level |-> 30, propagate |-> TRUE]
         [] l = "celery_root" -> [handlers |-> ch, level |-> 0, propagate |-> TRUE]
         [] l = "celery_root.x" -> [handlers |-> xh, level |-> xl, propagate |-> xp]
         [] l = "myapp" -> [handlers |-> mh, level |-> ml, propagate |-> TRUE]] :
      rh \in {{}, {hA}}, ch \in {{}, {hA}, {hQ}}, xh \in {{}, {hA}, {hB}},
      xl \in {0, 10}, xp \in BOOLEAN, mh \in {{}, {hB}}, ml \in {0, 10} }
=============================================================================

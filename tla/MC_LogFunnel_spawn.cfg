CONSTANTS
  Children = {c1, c2}
  hA = hA
  hB = hB
  hQ = hQ
  Handlers = {hA, hB, hQ}
  QueueHandlers = {hQ}
  HandlerLevel <- MCHandlerLevel
  NewStream = NewStream
  Forward = Forward
  LastResort = LastResort
  Sentinel = Sentinel
  Levels = {10, 30}
  MaxRecords = 2
  MaxTotal = 2
  EmitLoggers = {"celery_root.x", "myapp"}
  StartMethod = "spawn"
  InitTrees <- MCInitTrees
  LoggerArgs = {"none", "celery_root", "celery_root.x", "myapp", "root"}

SPECIFICATION Spec

INVARIANT TypeOK
INVARIANT ExactlyOnce
INVARIANT DeliveryMatchesBase
PROPERTY FunnelIsFifoChannel

CONSTANTS
  Children = {c1, c2}
  hA = hA
  hB = hB
  hQ = hQ
  Handlers = {hA, hB, hQ}
  QueueHandlers = {hQ}
  HandlerLevel <- MCHandlerLevel
  NewStream = NewStream
  Forward = Forward
  LastResort = LastResort
  Sentinel = Sentinel
  Levels = {10, 30}
  MaxRecords = 1
  MaxTotal = 2
  EmitLoggers = {"celery_root.x", "myapp"}
  StartMethod = "fork"
  InitTrees <- MCInitTrees
  LoggerArgs = {"none", "celery_root", "celery_root.x", "myapp", "root"}

SPECIFICATION Spec

INVARIANT ExactlyOnce

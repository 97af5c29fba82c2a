\* Two OTelExporters built in one process.
CONSTANTS
  TaskStates = {s1, s2}
  NoRuntime = NoRuntime
  Runtimes = {1}
  WorkerKinds = {"online", "offline", "heartbeat"}
  StatFields = {min, p99}
  NoValue = NoValue
  StatValues = {1}
  Ports = {9000}
  NoPort = NoPort
  DefaultPort = 8001
  MaxOTel = 2
  MaxPushes = 3
SPECIFICATION Spec
INVARIANT SpansAreOwnEvents

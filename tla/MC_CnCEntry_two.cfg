\* Two CeleryCnC(...) calls in one process, neither given a configuration.
CONSTANTS
  RelPaths = {rel, dflt}
  AbsPaths = {abs}
  Cwd = cwd
  DefaultDbPath = dflt
  NoPath = NoPath
  None = None
  Retentions = {3}
  Kinds = {"none"}
  MaxCalls = 2
SPECIFICATION Spec
INVARIANT RunUsesPreparedStore
CHECK_DEADLOCK FALSE

\* One CeleryCnC(...) call in a process, raising or not, with every kind of
\* controller argument, every override, and every state of the database files.
\* The process ends after run(), so a final state is not a deadlock.
CONSTANTS
  RelPaths = {rel, dflt}
  AbsPaths = {abs}
  Cwd = cwd
  DefaultDbPath = dflt
  NoPath = NoPath
  None = None
  Retentions = {0, 3}
  Kinds = {"none", "callable", "memory", "other"}
  MaxCalls = 1
SPECIFICATION Spec
INVARIANT RunUsesPreparedStore
CHECK_DEADLOCK FALSE

\* Controller and process setup with plain directories: no duplicate
\* writes, and the latest configure_process_logging call decides the
\* component file's content.
CONSTANTS
  Names <- MCNames
  Components <- MCComponents
  Dirs = {d1, d2}
  LinkedDirs = {}
  Levels = {10, 20}
  MaxHandlers = 3
  MaxRecords = 2
SPECIFICATION Spec
INVARIANT NoDuplicateWrites
INVARIANT SetupFollowsLatest

\* FileLogController.configure() called again with another level or
\* directory after get_logger has cached a handler.
CONSTANTS
  Names <- MCNames
  Components <- MCComponents
  Dirs = {d1, d2}
  LinkedDirs = {}
  Levels = {10, 20}
  MaxHandlers = 3
  MaxRecords = 2
SPECIFICATION Spec
INVARIANT ControllerFollowsConfig

\* configure_process_logging called twice for a log directory reached
\* through a symbolic link.
CONSTANTS
  Names <- MCNames
  Components <- MCComponents
  Dirs = {d1, d2}
  LinkedDirs = {d2}
  Levels = {10, 20}
  MaxHandlers = 3
  MaxRecords = 2
SPECIFICATION Spec
INVARIANT NoDuplicateWrites

\* Tail and severity filter of the log viewer over every file of up to three
\* lines of one or three bytes, and file selection in a directory with
\* several components and a rotated backup, or in an empty one.
CONSTANTS
  Severities <- MCSeverities
  NoLevel = NoLevel
  LineLens = {1, 3}
  Chunk = 2
  MaxBytes = 8
  MaxLines = 3
  DefaultLines = 2
  BadRequest = BadRequest
  Requests <- MCRequests
  SevParams <- MCSevParams
  MaxFileLines = 3
  DefaultStem = ""
  CompOrder <- MCCompOrder
  Dirs <- MCDirs
  Active <- Web
  FileParams <- MCFileParams
  CompParams <- MCCompParams
  NoName = NoName
  NoComp = NoComp
  None = None
SPECIFICATION Spec
INVARIANT TypeOK
INVARIANT TailIsLastLines
INVARIANT FilterKeepsRecords
INVARIANT SelectionFollowsRequest

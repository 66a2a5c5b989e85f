SPECIFICATION GenerationSpec
CONSTANTS
  a = a
  b = b
  c = c
  g = g
  Absent = Absent
  Names <- MCNames
  FileOrder <- MCFileOrder
  Groups <- MCGroups
  NoGroup = NoGroup
  Broken = Broken
  Directories <- MCDirectories
  MaxEdits = 1
  MaxCalls = 3
  Conventional <- MCConventional
  Tracked <- MCTracked
  MaxGenerations = 2
INVARIANTS GraphDeclared RebuildCovers Regenerated
CHECK_DEADLOCK FALSE

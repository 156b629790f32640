SPECIFICATION Spec
CONSTANTS
  NFILES = 5
  NDYLIBS = 2
  Stream = {s1, s2, s3}
  File = {f, g}
  Lib = {lib}
  Program = program
  NULL = NULL
  W = 2
  Used = {1, 3, 4}
  Times = {0, 5, 7, 15, 22, 31}
SYMMETRY Symmetric
INVARIANTS FilesAgree ClockParts

CONSTANTS
  Names <- MCSiblingNames
  CandidateFiles <- MCSiblingFiles
  Dirs <- MCDirs
  HashPrefixes <- MCHashPrefixes
  Patterns <- MCPatterns
  Content <- MCSiblingContent
  RootFile = RootFile

SPECIFICATION Spec

INVARIANT DirFilesExact


\* Each entry point is called once on its input; then nothing is left to do.
CHECK_DEADLOCK FALSE

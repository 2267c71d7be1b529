CONSTANTS
  Names <- MCNames
  CandidateFiles <- MCFiles
  Dirs <- MCRootDirs
  HashPrefixes <- MCHashPrefixes
  Patterns <- MCPatterns
  Content <- MCContent
  RootFile = RootFile

SPECIFICATION Spec

INVARIANT TreeAndZipAgree


\* Each entry point is called once on its input; then nothing is left to do.
CHECK_DEADLOCK FALSE

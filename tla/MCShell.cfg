SPECIFICATION Spec
CONSTANTS
  Names <- MCNames
  Git <- MCGit
  Contents = {"empty", "text"}
  Empty = "empty"
  Directory = directory
  NoExt = ""
  TextExt = "txt"
  Allowed = {"txt"}
  Up = up
  Args <- MCArgs
  MaxDepth = 2
  MaxNodes = 3
INVARIANTS TypeOK ResolveIsLexical ArmedInThisSession OpenedFileStays
PROPERTIES TreeRefinement SavesWhatWasOpened

SPECIFICATION FileSystemSpec
CONSTANTS
  Names = {"a", "b"}
  Contents = {"empty", "text"}
  Empty = "empty"
  Directory = directory
  MaxDepth = 3
  MaxNodes = 5
INVARIANT LookupsAgree
PROPERTY NestRefinement

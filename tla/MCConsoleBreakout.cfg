SPECIFICATION ConsoleFairSpec
CONSTANT Pieces <- MCBreakout
CHECK_DEADLOCK FALSE
PROPERTY BreakoutPolls

SPECIFICATION ConsoleFairSpec
CONSTANT Pieces <- MCPieces
CHECK_DEADLOCK FALSE
INVARIANT PollsWithoutLocks
PROPERTIES LocksComeFree PanicIsShown

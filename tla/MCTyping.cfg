SPECIFICATION TypingSpec
CONSTANTS
  Width = 3
  Height = 2
  Blank = "blank"
  Letters = {"q"}
  Prompt = "prompt"
  Message = "message"
  EndOfLine = "newline"
  Rub = "rub"
  Wipe = "wipe"
  Ink = "ink"
  WriteQuit <- MCWriteQuit
  Quit <- MCQuit
  MaxText = 3
INVARIANTS TypingTypeOK LineOnScreen NoCommandLineInside
PROPERTIES ScreenRefinement SavesUpToTheCommand

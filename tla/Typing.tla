------------------------------- MODULE Typing -------------------------------
(***************************************************************************)
(* What the user types and what the screen shows of it: the command line   *)
(* and the editor's text of shell.rs, and the screen of vga.rs, to which   *)
(* the handlers print character by character.                              *)
(*                                                                         *)
(* A handler changes the shell's text at once and leaves in `out` what it  *)
(* prints; the next key is handled when that is printed.  A message is one *)
(* character long, and so is the prompt.  Of the files there is the one    *)
(* that edit opens and write writes; which commands there are and how they *)
(* are told apart is left out, what they print is one message.             *)
(*                                                                         *)
(* An operator marked "Slip" is not the code: it is a mistake one could    *)
(* make in the definition after it, and a property has to notice it.       *)
(***************************************************************************)
EXTENDS Screen, SequencesExt, FiniteSetsExt

CONSTANTS Letters,          \* the characters of the keyboard, without Space
          Prompt, Message,  \* stand for "> " and for what is printed otherwise
          EndOfLine,        \* the character '\n'
          Rub, Wipe, Ink,   \* in out: backspace, clear, a drawing application
          WriteQuit, Quit,  \* the editor's commands ":wq" and ":q"
          MaxText           \* bound: characters of a line or a text

Typed == Letters \cup {Blank}
Texts == UNION {[1 .. n -> Typed \cup {EndOfLine}] : n \in 0 .. MaxText}

ASSUME CommandAssumption ==
  WriteQuit \in Seq(Letters) \ {<<>>} /\ Quit \in Seq(Letters) \ {<<>>} /\ WriteQuit # Quit

\* What moves the cursor or draws is none of what is written.
ASSUME CharacterAssumption ==
  /\ Blank \notin Letters
  /\ {EndOfLine, Rub, Wipe, Ink} \cap (Typed \cup {Prompt, Message}) = {}
  /\ EndOfLine \notin {Rub, Wipe, Ink} /\ Rub \notin {Wipe, Ink} /\ Wipe # Ink

ASSUME TextAssumption ==
  MaxText \in Nat /\ Len(WriteQuit) <= MaxText /\ Len(Quit) <= MaxText

VARIABLES out,              \* what the running handler has still to print
          mode, buffer, editor_buffer, save_pending,
          file,             \* the text of the file that edit opens
          fresh             \* history: how many characters at the end of the
                            \* line were printed one after the other

text == <<mode, buffer, editor_buffer, save_pending, file, fresh>>
typing == <<screen, out, text>>

TypingTypeOK ==
  /\ ScreenTypeOK(Typed \cup {Prompt, Message})
  /\ out \in Seq(Typed \cup {Prompt, Message, EndOfLine, Rub, Wipe, Ink})
  /\ mode \in {"command", "editor", "app"}
  /\ buffer \in Seq(Typed) /\ Len(buffer) <= MaxText
  /\ {editor_buffer, file} \subseteq Texts
  /\ save_pending \in BOOLEAN
  /\ fresh \in 0 .. MaxText

TypingInit ==
  /\ ScreenInit
  /\ out = <<Prompt>>
  /\ mode = "command" /\ buffer = <<>>
  /\ editor_buffer = <<>> /\ save_pending = FALSE
  /\ file = <<>>
  /\ fresh = 0

-----------------------------------------------------------------------------
\* Printing: the next operation on the screen.
PrintNext ==
  /\ out # <<>>
  /\ out' = Tail(out)
  /\ \/ Head(out) = EndOfLine /\ Newline
     \/ Head(out) = Rub /\ Backspace
     \/ Head(out) = Wipe /\ Clear
     \/ Head(out) = Ink /\ \E i \in Cells : PutCharAt(i \div Width, i % Width, Message)
     \/ Head(out) \in Typed \cup {Prompt, Message} /\ PutChar(Head(out))
  /\ UNCHANGED text

Println == <<Message, EndOfLine>>

Key(printed) == out = <<>> /\ out' = printed /\ UNCHANGED screen

-----------------------------------------------------------------------------
\* The command line.
CommandChar(c) ==
  /\ Len(buffer) < MaxText
  /\ buffer' = Append(buffer, c)
  /\ Key(<<c>>)
  /\ UNCHANGED <<mode, editor_buffer, save_pending, file, fresh>>

\* Slip: the screen is told even if there is nothing left to remove.
CommandBackspace_Always ==
  /\ buffer' = IF buffer = <<>> THEN <<>> ELSE Front(buffer)
  /\ Key(<<Rub>>)
  /\ UNCHANGED <<mode, editor_buffer, save_pending, file, fresh>>

CommandBackspace ==
  /\ buffer # <<>>
  /\ buffer' = Front(buffer)
  /\ Key(<<Rub>>)
  /\ UNCHANGED <<mode, editor_buffer, save_pending, file, fresh>>

CommandEscape ==
  /\ buffer # <<>>
  /\ buffer' = <<>>
  /\ Key(Println \o <<Prompt>>)
  /\ UNCHANGED <<mode, editor_buffer, save_pending, file, fresh>>

\* The line after the last newline, and what stands before it.
LineStart(t) == Max({0} \cup {i \in DOMAIN t : t[i] = EndOfLine})
CurrentLine(t) == SubSeq(t, LineStart(t) + 1, Len(t))
FinishedLines(t) == SubSeq(t, 1, LineStart(t))

\* A word of write is at most as long as an editor's command.
Words == {<<>>, WriteQuit, Quit}

\* handle_enter and execute_command: a line of blanks runs nothing.
CommandEnter ==
  /\ buffer' = <<>>
  /\ \/ /\ Key(<<EndOfLine, Prompt>>)
        /\ UNCHANGED <<mode, editor_buffer, save_pending, file, fresh>>
     \/ /\ \E c \in ToSet(buffer) : c # Blank
        /\ \/ /\ Key(<<EndOfLine>> \o Println \o <<Prompt>>)
              /\ file' \in {file} \cup Words
              /\ UNCHANGED <<mode, editor_buffer, save_pending, fresh>>
           \/ /\ Key(<<EndOfLine, Wipe, Prompt>>)
              /\ UNCHANGED <<mode, editor_buffer, save_pending, file, fresh>>
           \/ /\ Key(<<EndOfLine, Wipe>> \o Println \o file)
              /\ mode' = "editor"
              /\ editor_buffer' = file
              /\ save_pending' = FALSE
              /\ fresh' = Len(CurrentLine(file))
              /\ UNCHANGED file
           \/ /\ Key(<<EndOfLine, Wipe, Ink>>)
              /\ mode' = "app"
              /\ UNCHANGED <<editor_buffer, save_pending, file, fresh>>

\* A full-screen application ends; the browser prints where it leads back to.
AppLeave ==
  /\ mode' = "command"
  /\ \E said \in {<<>>, Println} : Key(<<Wipe>> \o said \o <<Prompt>>)
  /\ UNCHANGED <<buffer, editor_buffer, save_pending, file, fresh>>

-----------------------------------------------------------------------------
\* The editor.
EditorChar(c) ==
  /\ Len(editor_buffer) < MaxText
  /\ editor_buffer' = Append(editor_buffer, c)
  /\ fresh' = fresh + 1
  /\ Key(<<c>>)
  /\ UNCHANGED <<mode, buffer, save_pending, file>>

EditorBackspace ==
  /\ editor_buffer # <<>>
  /\ editor_buffer' = Front(editor_buffer)
  /\ fresh' = IF fresh = 0 THEN 0 ELSE fresh - 1
  /\ Key(<<Rub>>)
  /\ UNCHANGED <<mode, buffer, save_pending, file>>

Leave(printed) ==
  /\ mode' = "command"
  /\ editor_buffer' = <<>>
  /\ fresh' = 0
  /\ Key(printed)
  /\ UNCHANGED buffer

\* What write_file answers is up to the filesystem.
Save(content) == file' \in {content, file}

EditorEscape ==
  /\ Leave(<<EndOfLine>> \o Println \o <<Prompt>>)
  /\ save_pending' = FALSE
  /\ UNCHANGED file

Notice ==
  /\ Key(<<EndOfLine>> \o Println)
  /\ fresh' = 0
  /\ UNCHANGED <<mode, buffer, editor_buffer, file>>

CtrlS == Notice /\ save_pending' = TRUE

\* An error is printed without a newline before it.
CtrlK ==
  \/ ~save_pending /\ Notice /\ UNCHANGED save_pending
  \/ /\ save_pending
     /\ \/ file' = editor_buffer /\ Leave(<<EndOfLine>> \o Println \o <<Prompt>>)
        \/ UNCHANGED file /\ Leave(Println \o <<Prompt>>)
     /\ save_pending' = FALSE

\* str::lines: the last line, which a newline at the end of the text belongs to.
LastLine(t) == CurrentLine(IF t # <<>> /\ Last(t) = EndOfLine THEN Front(t) ELSE t)

\* Slip: blanks around the line count.
Trim_Nothing(l) == l

Trim(l) ==
  LET inked == {i \in DOMAIN l : l[i] # Blank}
  IN IF inked = {} THEN <<>> ELSE SubSeq(l, Min(inked), Max(inked))

\* Slip: only the command is taken off, not the blanks around it.
Popped_Trimmed(t) == SubSeq(t, 1, Len(t) - Len(Trim(LastLine(t))))

\* As many characters are taken off the end as the last line has.
Popped(t) == SubSeq(t, 1, Len(t) - Len(LastLine(t)))

EditorEnter ==
  LET command == Trim(LastLine(editor_buffer))
  IN \/ /\ command = WriteQuit
        /\ \/ /\ file' = Popped(editor_buffer)
              /\ Leave(<<EndOfLine, EndOfLine>> \o Println \o <<Prompt>>)
           \/ UNCHANGED file /\ Leave(<<EndOfLine>> \o Println \o <<Prompt>>)
        /\ UNCHANGED save_pending
     \/ /\ command = Quit
        /\ Leave(<<EndOfLine, EndOfLine>> \o Println \o <<Prompt>>)
        /\ UNCHANGED <<save_pending, file>>
     \/ /\ command \notin {WriteQuit, Quit}
        /\ Len(editor_buffer) < MaxText
        /\ editor_buffer' = Append(editor_buffer, EndOfLine)
        /\ fresh' = 0
        /\ Key(<<EndOfLine>>)
        /\ UNCHANGED <<mode, buffer, save_pending, file>>

-----------------------------------------------------------------------------
CommandKey ==
  \/ \E c \in Typed : CommandChar(c)
  \/ CommandBackspace \/ CommandEscape \/ CommandEnter

EditorKey ==
  \/ \E c \in Typed : EditorChar(c)
  \/ EditorBackspace \/ EditorEscape \/ CtrlS \/ CtrlK \/ EditorEnter

TypingNext ==
  \/ PrintNext
  \/ mode = "command" /\ CommandKey
  \/ mode = "editor" /\ EditorKey
  \/ mode = "app" /\ AppLeave

TypingSpec == TypingInit /\ [][TypingNext]_typing

-----------------------------------------------------------------------------
\* The screen is the end of what was printed: for every operation vga.rs
\* offers, rows, cells and hardware cursor are what a roll of paper would show,
\* though a full row is left late, and though the rows scroll away, are gone
\* back into by backspace, and are drawn over by applications in between.
ScreenRefinement ==
  Paper!Init /\ [][\/ \E c \in Typed \cup {Prompt, Message} : Paper!Put(c)
                   \/ Paper!Newline \/ Paper!Erase \/ Paper!Clear]_(Paper!vars)

Shown == FlattenSeq(Rows) \o Line

\* The end of s, as far as t is long.
AgreeAtEnd(s, t) ==
  \A i \in 1 .. Min({Len(s), Len(t)}) : s[Len(s) + 1 - i] = t[Len(t) + 1 - i]

\* What the user types is what the screen shows: the command line with its
\* prompt, wherever rows were wrapped, scrolled and rubbed out, and in the
\* editor all that was typed since the cursor last came to a place the text
\* knows nothing of (a message, or a newline that was rubbed out).
LineOnScreen ==
  out = <<>> =>
    /\ mode = "command" => AgreeAtEnd(Shown, <<Prompt>> \o buffer)
    /\ mode = "editor" =>
         AgreeAtEnd(Shown, SubSeq(editor_buffer, Len(editor_buffer) + 1 - fresh,
                                  Len(editor_buffer)))

\* A line with a newline after it is no command of the editor, in the text and
\* in the file, however text came there: typed, rubbed out, saved by Ctrl+K
\* with a command on its last line, loaded again or written by write.
IsCommandLine(l) ==
  \E command \in {WriteQuit, Quit}, k \in 0 .. Len(l) :
    /\ k + Len(command) <= Len(l)
    /\ \A i \in DOMAIN l :
         l[i] = IF i \in k + 1 .. k + Len(command) THEN command[i - k] ELSE Blank

CommandInside(t) ==
  \E j \in DOMAIN t : t[j] = EndOfLine /\ IsCommandLine(CurrentLine(SubSeq(t, 1, j - 1)))

NoCommandLineInside == ~CommandInside(editor_buffer) /\ ~CommandInside(file)

\* :wq saves the text up to its own line, whatever blanks that line has, and
\* never takes part of another one.
SavesUpToTheCommand ==
  [][EditorEnter => file' \in {file, FinishedLines(editor_buffer)}]_typing
=============================================================================

------------------------------ MODULE Console ------------------------------
(***************************************************************************)
(* The two spinlocks the kernel's thread takes by itself, around the       *)
(* screen (WRITER) and the filesystem (FS), along every path from a key in *)
(* Kernel::run through the shell, its commands and the applications they   *)
(* start.  A lock is not reentrant and there is no other thread, so a      *)
(* thread that asks for a lock it holds spins for good.                    *)
(*                                                                         *)
(* A path is cut into pieces, each a sequence of what it does to locks,    *)
(* where it waits for or polls the keyboard, and where it may allocate:    *)
(* one "alloc" for a row of allocations with the same locks held.  What    *)
(* is drawn and computed in between is left out.  An allocation may fail,  *)
(* and then the panic handler of main.rs takes over; an instruction may    *)
(* raise an exception of the CPU, and then its handler in interrupts.rs    *)
(* does.  Neither returns.                                                 *)
(*                                                                         *)
(* An operator marked "Slip" is not the code: it is a mistake one could    *)
(* make in the definition after it, and a property has to notice it.       *)
(***************************************************************************)
EXTENDS Naturals, Sequences

CONSTANTS Pieces      \* the pieces that run: all of them, or a few

LW == "lock WRITER"
UW == "unlock WRITER"
LF == "lock FS"
UF == "unlock FS"

\* execute_command collects the arguments, with no lock held.  Commands that
\* start something else drop its first lock again.
Parsing == <<"alloc">>
Dispatch == Parsing \o <<LW, UW>>

Prompting == <<LW, UW>>

\* Kernel::run and the handlers of single keys.
Loop == <<"poll">>
Typing == <<LW, "alloc", UW>>
Erasing == <<LW, UW>>
Escaping == <<LW, UW>>
Saving == <<LW, "alloc", LF, "alloc", UF, UW>>
Entering == <<LW, "alloc", UW>>

\* Commands that only print, and those that work on the filesystem; edit
\* ends in the editor and prints no prompt.
Printing == Parsing \o <<LW, "alloc", UW>>
FileCommand == Parsing \o <<LW, "alloc", LF, "alloc", UF, UW>>
Editing == FileCommand
Download == Dispatch \o <<LW, UW>>
\* Slip: the screen is not given back before clone_repository takes it.
Clone_KeepsScreen == Parsing \o <<LW, LW, UW, LF, "alloc", UF, LW, UW>>
Clone == Dispatch \o <<LW, UW, LF, "alloc", UF, LW, UW>>

\* Applications: what leads to the loop, one round of it, what ends it.
CanvasStart == Dispatch \o <<LW, UW, "key", LW, UW>>
CanvasRound_KeepsScreen == <<LW, "key", UW>>     \* Slip
CanvasRound == <<LW, UW, "key">>
ChessStart == Dispatch \o <<LW, UW, "key">>
ChessRound == <<LW, UW, LW, UW, LW, UW, "key", "alloc">>
\* browse joins its arguments before it drops the screen.
Joining == <<LW, "alloc", UW>>
BrowserStart == Parsing \o Joining \o <<"alloc">>
BrowserRound == <<LW, UW, "key", "alloc">>
Leaving == <<LW, UW>>

\* A round of Breakout draws the score through print_num_at, which locks
\* the screen itself.
PrintNumber == <<LW, UW>>
AtariStart == Dispatch \o <<LW, UW, "key", LW, UW>>
AtariRound == <<LW>> \o PrintNumber \o <<UW, "poll">>

\* Slip: the handler prints through something that locks the screen again.
Panic_LocksTwice == <<LW, LW, "show", "halt">>
\* The guard lives as long as the function, which ends in a loop.
Panic == <<LW, "show", "halt">>

\* divide_by_zero_inner, double_fault_inner and page_fault_inner.
Exception == <<LW, "show", "halt">>

Steps == [
  loop |-> Loop, typing |-> Typing, erasing |-> Erasing, escaping |-> Escaping,
  saving |-> Saving, entering |-> Entering, printing |-> Printing,
  files |-> FileCommand, edit |-> Editing, download |-> Download, clone |-> Clone,
  canvas |-> CanvasStart, canvasRound |-> CanvasRound,
  chess |-> ChessStart, chessRound |-> ChessRound,
  browser |-> BrowserStart, browserRound |-> BrowserRound,
  atari |-> AtariStart, atariRound |-> AtariRound,
  leaving |-> Leaving, prompt |-> Prompting, panic |-> Panic,
  exception |-> Exception]

Rounds == {"canvasRound", "chessRound", "browserRound", "atariRound"}
Commands == {"printing", "files", "edit", "download", "clone",
             "canvas", "chess", "browser", "atari"}

\* What may come after a piece.  The loop may also find no key, or one that
\* no handler is called for.
Follow(p) ==
  CASE p = "loop" -> {"loop", "typing", "erasing", "escaping", "saving", "entering"}
    [] p = "entering" -> Commands \cup {"prompt", "loop"}
    [] p \in {"printing", "files", "download", "clone", "leaving"} -> {"prompt"}
    [] p = "canvas" -> {"canvasRound"}
    [] p = "chess" -> {"chessRound"}
    [] p = "browser" -> {"browserRound"}
    [] p = "atari" -> {"atariRound"}
    [] p \in Rounds -> {p, "leaving"}
    [] OTHER -> {"loop"}

-----------------------------------------------------------------------------
VARIABLES piece, todo,     \* the piece that runs, and its steps to come
          holds,           \* the locks the thread holds
          shown            \* the message of panic or exception is on the screen

console == <<piece, todo, holds, shown>>

ConsoleInit == piece = "loop" /\ todo = Loop /\ holds = {} /\ shown = FALSE

At(step) == todo # <<>> /\ Head(todo) = step

Take(step) == At(step) /\ todo' = Tail(todo) /\ UNCHANGED piece

\* Mutex::lock spins, that is, takes no step, while the lock is held.
Lock(step, lock) ==
  /\ Take(step)
  /\ lock \notin holds
  /\ holds' = holds \cup {lock}
  /\ UNCHANGED shown

Unlock(step, lock) ==
  /\ Take(step)
  /\ holds' = holds \ {lock}
  /\ UNCHANGED shown

\* A key arrives, or a poll returns with or without one.
Input == Take("key") /\ UNCHANGED <<holds, shown>>
Poll == Take("poll") /\ UNCHANGED <<holds, shown>>

Allocate == Take("alloc") /\ UNCHANGED <<holds, shown>>

\* The heap is exhausted: the panic handler runs on top of what it
\* interrupts, whose guards are never dropped.
OutOfMemory ==
  /\ At("alloc")
  /\ piece' = "panic" /\ todo' = Panic
  /\ UNCHANGED <<holds, shown>>

\* A divide error, a page fault or a double fault at any step of a piece.
Fault ==
  /\ piece \notin {"panic", "exception"}
  /\ todo # <<>>
  /\ piece' = "exception" /\ todo' = Exception
  /\ UNCHANGED <<holds, shown>>

Show == Take("show") /\ shown' = TRUE /\ UNCHANGED holds

Continue ==
  /\ todo = <<>>
  /\ piece' \in Follow(piece) \cap Pieces
  /\ todo' = Steps[piece']
  /\ UNCHANGED <<holds, shown>>

Kernel ==
  \/ Lock(LW, "WRITER") \/ Lock(LF, "FS")
  \/ Unlock(UW, "WRITER") \/ Unlock(UF, "FS")
  \/ Poll \/ Allocate \/ Show \/ Continue

ConsoleNext == Kernel \/ Input \/ OutOfMemory \/ Fault

ConsoleSpec == ConsoleInit /\ [][ConsoleNext]_console

\* The CPU executes as long as it is on; the user owes no key.
ConsoleFairSpec == ConsoleSpec /\ WF_console(Kernel)

-----------------------------------------------------------------------------
\* Whenever the kernel looks for a key, in its own loop or in that of an
\* application, it holds no lock: nothing it prints later, and no handler
\* that prints, can find the screen or the filesystem taken.
PollsWithoutLocks == At("key") \/ At("poll") => holds = {}

\* Every lock is given back, except in Breakout and in a kernel that has
\* stopped in a panic or an exception.
Stopped == piece \in {"panic", "exception"}

LocksComeFree == holds # {} ~> holds = {} \/ piece = "atariRound" \/ Stopped

\* The handler of a panic or of an exception gets to print its message, unless
\* what it interrupts holds the screen.
PanicIsShown == Stopped /\ "WRITER" \notin holds ~> shown

-----------------------------------------------------------------------------
\* The comment on poll_scancode (game.rs:15): it "Allows real-time games (like
\* Breakout) to poll input without hanging the game loop."
BreakoutPolls == piece = "atariRound" ~> At("poll") \/ Stopped
=============================================================================

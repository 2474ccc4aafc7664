------------------------------ MODULE Session ------------------------------
(***************************************************************************)
(* Who gets the keys.  The user's keyboard sends a byte for each press,    *)
(* repeat and release; the bytes come in order to whatever is in the       *)
(* foreground.  The shell's loop (Kernel::run) takes them through the      *)
(* driver of Keyboard; a full-screen application of game.rs or network.rs, *)
(* which a command starts and which runs inside that command, takes them   *)
(* from the same buffer itself, and the driver does not see them.          *)
(*                                                                         *)
(* InputPath says when the bytes come complete and in order; here they do. *)
(***************************************************************************)
EXTENDS Keyboard, Naturals, Sequences, FiniteSets

CONSTANTS Keys,       \* the keys of the user's keyboard
          NoKey,      \* no key
          Kind,       \* function: the kind of each key
          MaxHeld,    \* bound: keys the user holds at once
          MaxLine     \* bound: bytes on their way

ASSUME KindAssumption == Kind \in [Keys -> Kinds] /\ NoKey \notin Keys

VARIABLES
  held, latest,       \* the keys held down, and the one that repeats (external)
  line,               \* the bytes on their way: records [key, released]
  foreground,         \* "shell", or an application: at its prompt, or running
  handler,            \* the shell's handler the last key went to
  down, caps,         \* history: the keys down after the bytes read so far,
                      \* and whether CapsLock was pressed an odd number of times
  missed,             \* history: the keys whose last byte went to an application
  taken               \* history: an application has taken some byte

keyboard == <<flags, event>>
hardware == <<held, latest>>
history == <<down, caps, missed, taken>>
vars == <<keyboard, hardware, line, foreground, handler, history>>

Handlers == {"none", "handle_char", "handle_ctrl_char", "handle_space",
             "handle_enter", "handle_backspace", "handle_escape"}

TypeOK ==
  /\ KeyboardTypeOK
  /\ held \subseteq Keys /\ latest \in Keys \cup {NoKey}
  /\ line \in Seq([key : Keys, released : BOOLEAN])
  /\ foreground \in {"shell", "prompt", "app"}
  /\ handler \in Handlers
  /\ down \subseteq Keys /\ missed \subseteq Keys
  /\ caps \in BOOLEAN /\ taken \in BOOLEAN

Init ==
  /\ Reset
  /\ held = {} /\ latest = NoKey
  /\ line = <<>>
  /\ foreground = "shell"
  /\ handler = "none"
  /\ down = {} /\ missed = {}
  /\ caps = FALSE /\ taken = FALSE

-----------------------------------------------------------------------------
Send(key, released) ==
  /\ Len(line) < MaxLine
  /\ line' = Append(line, [key |-> key, released |-> released])
  /\ UNCHANGED <<keyboard, foreground, handler, history>>

PressKey(key) ==
  /\ key \notin held /\ Cardinality(held) < MaxHeld
  /\ held' = held \cup {key} /\ latest' = key
  /\ Send(key, FALSE)

RepeatKey ==
  /\ latest \in held
  /\ UNCHANGED hardware
  /\ Send(latest, FALSE)

ReleaseKey(key) ==
  /\ key \in held
  /\ held' = held \ {key}
  /\ latest' = IF key = latest THEN NoKey ELSE latest
  /\ Send(key, TRUE)

User == RepeatKey \/ \E key \in Keys : PressKey(key) \/ ReleaseKey(key)

-----------------------------------------------------------------------------
\* The byte at the head of the line is read, by whomever.
Read(byte) ==
  /\ line' = Tail(line)
  /\ down' = IF byte.released THEN down \ {byte.key} ELSE down \cup {byte.key}
  /\ caps' = IF Kind[byte.key] = "caps" /\ ~byte.released /\ byte.key \notin down
             THEN ~caps ELSE caps
  /\ UNCHANGED hardware

\* handle_key_event passes presses on, handle_key_press by the kind of key.
Route(kind, released) ==
  IF released THEN "none"
  ELSE IF kind \in {"letter", "symbol"}
       THEN IF ctrl THEN "handle_ctrl_char" ELSE "handle_char"
  ELSE IF kind \in {"space", "enter", "backspace", "escape"}
       THEN [space |-> "handle_space", enter |-> "handle_enter",
             backspace |-> "handle_backspace", escape |-> "handle_escape"][kind]
       ELSE "none"

\* One round of Kernel::run.  Enter may run a command that starts an
\* application: draw, play chess (with a prompt before it) or browse.
KernelRun ==
  /\ foreground = "shell" /\ line # <<>>
  /\ \E byte \in {Head(line)} :
       /\ Read(byte)
       /\ Translate(Kind[byte.key], byte.released)
       /\ handler' = Route(Kind[byte.key], byte.released)
       /\ \/ foreground' = "shell"
          \/ handler' = "handle_enter" /\ foreground' \in {"prompt", "app"}
       /\ missed' = missed \ {byte.key}
  /\ UNCHANGED taken

\* An application's read: it takes the byte as it is.
AppRead ==
  /\ foreground # "shell" /\ line # <<>>
  /\ \E byte \in {Head(line)} :
       /\ Read(byte)
       /\ missed' = missed \cup {byte.key}
       /\ foreground' =
            IF foreground = "prompt" THEN "app"
            ELSE IF Kind[byte.key] = "escape" /\ ~byte.released THEN "shell"
            ELSE "app"
  /\ taken' = TRUE
  /\ UNCHANGED <<keyboard, handler>>

Next == User \/ KernelRun \/ AppRead

Spec == Init /\ [][Next]_vars

-----------------------------------------------------------------------------
KeysOf(kind) == {k \in Keys : Kind[k] = kind}
Down(kind) == KeysOf(kind) \cap down # {}
AllDown(kind) == KeysOf(kind) # {} /\ KeysOf(kind) \subseteq down

\* The keys of a kind share one flag.  Whatever was pressed, held and released
\* in between, it is on only while one of them is down and off only while one of
\* them is up, as long as the driver saw the last byte of each; where it did not,
\* that key's next byte puts the flag right.  With one key of the kind the flag
\* is the key; with two, one of them released may leave it off too early, but
\* no order of bytes leaves it on for good.
Follows(kind, flag) ==
  KeysOf(kind) \cap missed = {} => (flag => Down(kind)) /\ (AllDown(kind) => flag)

FlagsFollowKeys ==
  /\ Follows("shift", shift)
  /\ Follows("ctrl", ctrl)
  /\ Follows("alt", alt)
  /\ Follows("caps", caps_lock_pressed)

\* CapsLock turns over when its key goes down and never again while it
\* stays down, however often the keyboard repeats its make code.
CapsOncePerPress ==
  [][\A k \in Keys \ missed :
       Kind[k] = "caps" /\ caps_lock' # caps_lock => k \notin down /\ k \in down']_vars

\* A letter comes out in upper case if CapsLock is on or every Shift key is
\* down at the place of the letter in the stream of keys, and only if CapsLock is
\* on or some Shift key is down, as long as no application has taken a byte.
LettersAsTyped ==
  ~taken /\ event.kind = "letter" /\ event.pressed =>
    /\ event.upper => caps \/ Down("shift")
    /\ caps \/ AllDown("shift") => event.upper

\* A letter is a shortcut only while Ctrl is down, though Ctrl may be let go
\* before the letter is, as long as no application has taken a byte.
CtrlOnlyWhileHeld ==
  ~taken /\ handler = "handle_ctrl_char" => Down("ctrl")
=============================================================================

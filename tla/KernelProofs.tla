---------------------------- MODULE KernelProofs ----------------------------
(***************************************************************************)
(* Three faces of the kernel's own thread, each with the specification of  *)
(* its own module: the keyboard driver's flags in a session (Session), the *)
(* locks taken around the screen and the file system (Console), and what   *)
(* the shell and the editor make of the keys on the text screen (Typing).  *)
(* The three parts of this module share no variable and only the lemmas    *)
(* about sequences.                                                        *)
(***************************************************************************)
EXTENDS Session, Console, Typing, SequenceLemmas

-----------------------------------------------------------------------------
\* Session: the modifier flags of the keyboard driver, for every keyboard, with
\* any number of keys of each modifier, and every way of pressing and holding
\* them.

KeysTyped == held \subseteq Keys /\ line \in Seq([key : Keys, released : BOOLEAN])

LEMMA KeysStep == KeysTyped /\ [Next]_vars => KeysTyped'
<1>. SUFFICES ASSUME KeysTyped, [Next]_vars PROVE KeysTyped'
  OBVIOUS
<1>. USE DEF KeysTyped
<1>1. ASSUME NEW key \in Keys, NEW released \in BOOLEAN, Send(key, released)
      PROVE  line' \in Seq([key : Keys, released : BOOLEAN])
  BY <1>1 DEF Send
<1>2. ASSUME NEW byte, line # <<>>, Read(byte)
      PROVE  KeysTyped'
  BY <1>2 DEF Read, hardware
<1>3. CASE RepeatKey
  BY <1>1, <1>3 DEF RepeatKey, hardware
<1>4. ASSUME NEW key \in Keys, PressKey(key) \/ ReleaseKey(key)
      PROVE  KeysTyped'
  BY <1>1, <1>4 DEF PressKey, ReleaseKey
<1>5. CASE KernelRun \/ AppRead
  BY <1>2, <1>5 DEF KernelRun, AppRead
<1>6. CASE UNCHANGED vars
  BY <1>6 DEF vars, hardware
<1>. QED  BY <1>3, <1>4, <1>5, <1>6 DEF Next, User

LEMMA HeadInSet ==
  ASSUME NEW S, NEW s \in Seq(S), s # <<>>
  PROVE  Head(s) \in S
OBVIOUS

\* The byte at the head of the line, which is read next.
LEMMA HeadTyped ==
  ASSUME KeysTyped, line # <<>>
  PROVE  Head(line).key \in Keys /\ Head(line).released \in BOOLEAN
<1>1. Head(line) \in [key : Keys, released : BOOLEAN]
  <2>. DEFINE Byte == [key : Keys, released : BOOLEAN]
  <2>1. line \in Seq(Byte)
    BY DEF KeysTyped
  <2>. HIDE DEF Byte
  <2>2. Head(line) \in Byte
    BY <2>1, HeadInSet
  <2>. QED  BY <2>2 DEF Byte
<1>. QED  BY <1>1

LEMMA SessionTypeStep == TypeOK /\ [Next]_vars => TypeOK'
<1>. SUFFICES ASSUME TypeOK, [Next]_vars PROVE TypeOK'
  OBVIOUS
<1>k. KeysTyped /\ KeysTyped'
  BY KeysStep DEF TypeOK, KeysTyped
<1>t. /\ latest \in Keys \cup {NoKey} /\ foreground \in {"shell", "prompt", "app"}
      /\ handler \in Handlers /\ down \subseteq Keys /\ missed \subseteq Keys
      /\ caps \in BOOLEAN /\ taken \in BOOLEAN /\ KeyboardTypeOK
  BY DEF TypeOK
<1>1. CASE User
  <2>1. latest' \in Keys \cup {NoKey}
    BY <1>t, <1>1 DEF User, RepeatKey, PressKey, ReleaseKey, hardware
  <2>2. UNCHANGED <<keyboard, foreground, handler, history>>
    BY <1>1 DEF User, RepeatKey, PressKey, ReleaseKey, Send
  <2>. QED
    BY <1>k, <1>t, <2>1, <2>2
    DEF TypeOK, KeysTyped, KeyboardTypeOK, keyboard, flags, history
<1>2. ASSUME line # <<>>, Read(Head(line))
      PROVE  latest' = latest /\ down' \subseteq Keys /\ caps' \in BOOLEAN
  <2>1. Head(line).key \in Keys
    BY <1>2, <1>k, HeadTyped
  <2>. QED  BY <1>2, <1>t, <2>1 DEF Read, hardware
<1>3. CASE KernelRun
  <2> DEFINE byte == Head(line)
  <2>1. /\ byte.key \in Keys /\ byte.released \in BOOLEAN
        /\ Read(byte) /\ Translate(Kind[byte.key], byte.released)
        /\ handler' = Route(Kind[byte.key], byte.released)
        /\ foreground' = "shell" \/ foreground' \in {"prompt", "app"}
        /\ missed' = missed \ {byte.key} /\ taken' = taken /\ line # <<>>
    BY <1>3, <1>k, HeadTyped DEF KernelRun
  <2>2. Kind[byte.key] \in Kinds
    BY <2>1, KindAssumption
  <2>3. latest' = latest /\ down' \subseteq Keys /\ caps' \in BOOLEAN
    BY <1>2, <2>1
  <2>. HIDE DEF byte
  <2>4. KeyboardTypeOK'
    <3>1. /\ shift \in BOOLEAN /\ ctrl \in BOOLEAN /\ alt \in BOOLEAN
          /\ caps_lock \in BOOLEAN /\ caps_lock_pressed \in BOOLEAN
      BY <1>t DEF KeyboardTypeOK
    <3>2. /\ shift' \in BOOLEAN /\ ctrl' \in BOOLEAN /\ alt' \in BOOLEAN
          /\ caps_lock' \in BOOLEAN /\ caps_lock_pressed' \in BOOLEAN
      BY <2>1, <3>1 DEF Translate
    <3> DEFINE up == \/ Kind[byte.key] = "letter" /\ (caps_lock \/ shift)
                     \/ Kind[byte.key] = "symbol" /\ shift
    <3>3. event' = [kind |-> Kind[byte.key], pressed |-> ~byte.released, upper |-> up]
      BY <2>1 DEF Translate
    <3>4. up \in BOOLEAN /\ (~byte.released) \in BOOLEAN
      BY <3>1
    <3>. HIDE DEF up
    <3>5. event' \in Events
      BY <2>2, <3>3, <3>4 DEF Events
    <3>. QED  BY <3>2, <3>5 DEF KeyboardTypeOK
  <2>5. handler' \in Handlers
    <3>1. \A kind \in {"space", "enter", "backspace", "escape"} :
             [space |-> "handle_space", enter |-> "handle_enter",
              backspace |-> "handle_backspace", escape |-> "handle_escape"][kind] \in Handlers
      BY DEF Handlers
    <3>. QED  BY <2>1, <3>1 DEF Route, Handlers
  <2>6. missed' \subseteq Keys /\ taken' \in BOOLEAN /\ foreground' \in {"shell", "prompt", "app"}
    BY <1>t, <2>1
  <2>. QED  BY <1>k, <1>t, <2>3, <2>4, <2>5, <2>6 DEF TypeOK, KeysTyped
<1>4. CASE AppRead
  <2>1. line # <<>> /\ Read(Head(line)) /\ UNCHANGED <<keyboard, handler>> /\ taken' = TRUE
        /\ missed' = missed \cup {Head(line).key} /\ foreground' \in {"shell", "app"}
    BY <1>4 DEF AppRead
  <2>2. latest' = latest /\ down' \subseteq Keys /\ caps' \in BOOLEAN
    BY <1>2, <2>1
  <2>3. missed' \subseteq Keys
    BY <1>k, <1>t, <2>1, HeadTyped
  <2>4. KeyboardTypeOK'
    BY <1>t, <2>1 DEF KeyboardTypeOK, keyboard, flags
  <2>. QED  BY <1>k, <1>t, <2>1, <2>2, <2>3, <2>4 DEF TypeOK, KeysTyped
<1>5. CASE UNCHANGED vars
  BY <1>5, <1>t, <1>k
  DEF vars, keyboard, flags, hardware, history, TypeOK, KeyboardTypeOK, KeysTyped
<1>. QED  BY <1>1, <1>3, <1>4, <1>5 DEF Next

\* Driver, foreground and history keep their types, whatever is typed.
THEOREM SessionTypeCorrect == Spec => []TypeOK
<1>1. Init => TypeOK
  <2>. SUFFICES ASSUME Init PROVE TypeOK
    OBVIOUS
  <2>1. KeyboardTypeOK
    BY DEF Init, Reset, KeyboardTypeOK, Events
  <2>2. "none" \in Handlers
    BY DEF Handlers
  <2>3. line = <<>> /\ <<>> \in Seq([key : Keys, released : BOOLEAN])
    BY DEF Init
  <2>4. /\ held = {} /\ latest = NoKey /\ foreground = "shell" /\ handler = "none"
        /\ down = {} /\ missed = {} /\ caps = FALSE /\ taken = FALSE
    BY DEF Init
  <2>. QED  BY <2>1, <2>2, <2>3, <2>4 DEF TypeOK
<1>. QED  BY <1>1, SessionTypeStep, PTL DEF Spec

\* The user's keys touch neither the driver nor what has been read.
LEMMA UserStep ==
  ASSUME User \/ UNCHANGED vars
  PROVE  UNCHANGED <<shift, ctrl, alt, caps_lock, caps_lock_pressed, event,
                     foreground, handler, down, caps, missed, taken>>
<1>1. ASSUME NEW key, NEW released, Send(key, released)
      PROVE  UNCHANGED <<keyboard, foreground, handler, history>>
  BY <1>1 DEF Send
<1>2. UNCHANGED <<keyboard, foreground, handler, history>>
  BY <1>1 DEF User, RepeatKey, PressKey, ReleaseKey, vars
<1>. QED  BY <1>2 DEF keyboard, flags, history

\* The driver's step keeps each flag in step with its keys: the byte is of
\* that kind, and then the flag takes its release bit, or of another kind, and
\* then neither the flag nor those keys change.
LEMMA FollowStep ==
  ASSUME KeysTyped,
         NEW kind, NEW flag, NEW flag1, Follows(kind, flag),
         NEW byte, byte.key \in Keys, byte.released \in BOOLEAN,
         Read(byte), missed' = missed \ {byte.key},
         flag1 = IF Kind[byte.key] = kind THEN ~byte.released ELSE flag
  PROVE  KeysOf(kind) \cap missed' = {} =>
           /\ flag1 => KeysOf(kind) \cap down' # {}
           /\ KeysOf(kind) # {} /\ KeysOf(kind) \subseteq down' => flag1
<1>. USE DEF KeysOf
<1>1. CASE Kind[byte.key] = kind /\ byte.released
  <2>1. byte.key \notin down' /\ byte.key \in KeysOf(kind) /\ ~flag1
    BY <1>1 DEF Read
  <2>. QED  BY <2>1
<1>2. CASE Kind[byte.key] = kind /\ ~byte.released
  <2>1. byte.key \in down' /\ byte.key \in KeysOf(kind) /\ flag1
    BY <1>2 DEF Read
  <2>. QED  BY <2>1
<1>3. CASE Kind[byte.key] # kind
  <2>1. /\ KeysOf(kind) \cap missed' = KeysOf(kind) \cap missed
        /\ KeysOf(kind) \cap down' = KeysOf(kind) \cap down
    BY <1>3 DEF Read
  <2>2. KeysOf(kind) \subseteq down' => KeysOf(kind) \subseteq down
    BY <2>1
  <2>. QED  BY <1>3, <2>1, <2>2 DEF Follows, Down, AllDown
<1>. QED  BY <1>1, <1>2, <1>3

LEMMA FlagsStep ==
  KeysTyped /\ FlagsFollowKeys /\ [Next]_vars => FlagsFollowKeys'
<1>. SUFFICES ASSUME KeysTyped, FlagsFollowKeys, [Next]_vars
              PROVE  FlagsFollowKeys'
  OBVIOUS
<1>1. CASE KernelRun
  <2>. DEFINE byte == Head(line)
  <2>1. /\ byte.key \in Keys /\ byte.released \in BOOLEAN
        /\ Read(byte) /\ Translate(Kind[byte.key], byte.released)
        /\ missed' = missed \ {byte.key}
    BY <1>1, HeadTyped DEF KernelRun
  <2>. HIDE DEF byte
  <2>2. Follows("shift", shift)'
    BY <2>1, FollowStep, Zenon DEF FlagsFollowKeys, Follows, Down, AllDown, KeysOf, Translate
  <2>3. Follows("ctrl", ctrl)'
    BY <2>1, FollowStep, Zenon DEF FlagsFollowKeys, Follows, Down, AllDown, KeysOf, Translate
  <2>4. Follows("alt", alt)'
    BY <2>1, FollowStep, Zenon DEF FlagsFollowKeys, Follows, Down, AllDown, KeysOf, Translate
  <2>5. Follows("caps", caps_lock_pressed)'
    BY <2>1, FollowStep, Zenon DEF FlagsFollowKeys, Follows, Down, AllDown, KeysOf, Translate
  <2>. QED  BY <2>2, <2>3, <2>4, <2>5 DEF FlagsFollowKeys
<1>2. CASE AppRead
  <2>. DEFINE byte == Head(line)
  <2>1. /\ byte.key \in Keys
        /\ missed' = missed \cup {byte.key}
        /\ down' \ {byte.key} = down \ {byte.key}
        /\ UNCHANGED flags
    BY <1>2, HeadTyped DEF AppRead, Read, keyboard
  <2>. HIDE DEF byte
  <2>2. ASSUME NEW kind, NEW flag, Follows(kind, flag), KeysOf(kind) \cap missed' = {}
        PROVE  /\ flag => KeysOf(kind) \cap down' # {}
               /\ KeysOf(kind) # {} /\ KeysOf(kind) \subseteq down' => flag
    <3>1. byte.key \notin KeysOf(kind) /\ KeysOf(kind) \cap missed = {}
      BY <2>1, <2>2
    <3>2. KeysOf(kind) \cap down' = KeysOf(kind) \cap down
      BY <2>1, <3>1
    <3>. QED  BY <2>2, <3>1, <3>2 DEF Follows, Down, AllDown
  <2>3. Follows("shift", shift)'
    BY <2>1, <2>2 DEF FlagsFollowKeys, Follows, Down, AllDown, KeysOf, flags
  <2>4. Follows("ctrl", ctrl)'
    BY <2>1, <2>2 DEF FlagsFollowKeys, Follows, Down, AllDown, KeysOf, flags
  <2>5. Follows("alt", alt)'
    BY <2>1, <2>2 DEF FlagsFollowKeys, Follows, Down, AllDown, KeysOf, flags
  <2>6. Follows("caps", caps_lock_pressed)'
    BY <2>1, <2>2 DEF FlagsFollowKeys, Follows, Down, AllDown, KeysOf, flags
  <2>. QED  BY <2>3, <2>4, <2>5, <2>6 DEF FlagsFollowKeys
<1>3. CASE User \/ UNCHANGED vars
  BY <1>3, UserStep DEF FlagsFollowKeys, Follows, Down, AllDown, KeysOf
<1>. QED  BY <1>1, <1>2, <1>3 DEF Next

\* A modifier's flag follows its keys, for every number of keys that share it
\* and every interleaving of keys, repeats and applications.
THEOREM FlagsAlwaysFollow == Spec => []FlagsFollowKeys
<1>1. Init => KeysTyped /\ FlagsFollowKeys
  BY DEF Init, Reset, KeysTyped, FlagsFollowKeys, Follows, Down, AllDown
<1>2. KeysTyped /\ FlagsFollowKeys /\ [Next]_vars => (KeysTyped /\ FlagsFollowKeys)'
  BY KeysStep, FlagsStep
<1>. QED  BY <1>1, <1>2, PTL DEF Spec

-----------------------------------------------------------------------------
\* Code 0x3A is the only key the driver takes for CapsLock.
OneCapsLock == \A j, k \in KeysOf("caps") : j = k

\* With one such key, the flag beside caps_lock is that key.
LEMMA CapsPressed ==
  ASSUME OneCapsLock, FlagsFollowKeys, NEW k \in KeysOf("caps"), k \notin missed
  PROVE  caps_lock_pressed <=> k \in down
<1>1. KeysOf("caps") = {k}
  BY DEF OneCapsLock
<1>. QED  BY <1>1 DEF FlagsFollowKeys, Follows, Down, AllDown

\* Until an application takes a byte the driver sees every one, and what it
\* takes for the state of CapsLock is what the presses add up to.
CaseKnown ==
  /\ down \subseteq Keys
  /\ caps_lock \in BOOLEAN
  /\ ~taken => missed = {} /\ caps_lock = caps
  /\ LettersAsTyped
  /\ CtrlOnlyWhileHeld

LEMMA CaseStep ==
  OneCapsLock /\ KeysTyped /\ FlagsFollowKeys /\ CaseKnown /\ [Next]_vars => CaseKnown'
<1>. SUFFICES ASSUME OneCapsLock, KeysTyped, FlagsFollowKeys, CaseKnown, [Next]_vars
              PROVE  CaseKnown'
  OBVIOUS
<1>1. CASE KernelRun
  <2>. DEFINE byte == Head(line)
  <2>1. /\ byte.key \in Keys /\ byte.released \in BOOLEAN
        /\ Read(byte) /\ Translate(Kind[byte.key], byte.released)
        /\ missed' = missed \ {byte.key} /\ taken' = taken
        /\ handler' = Route(Kind[byte.key], byte.released)
    BY <1>1, HeadTyped DEF KernelRun
  <2>. HIDE DEF byte
  <2>2. down' \subseteq Keys
    BY <2>1 DEF CaseKnown, Read
  <2>3. caps_lock' \in BOOLEAN
    BY <2>1 DEF CaseKnown, Translate
  <2>4. ASSUME ~taken PROVE caps_lock' = caps'
    <3>1. CASE Kind[byte.key] = "caps"
      <4>1. caps_lock_pressed <=> byte.key \in down
        BY <2>1, <2>4, <3>1, CapsPressed DEF CaseKnown, KeysOf
      <4>. QED  BY <2>1, <2>4, <3>1, <4>1 DEF CaseKnown, Read, Translate
    <3>2. CASE Kind[byte.key] # "caps"
      BY <2>1, <2>4, <3>2 DEF CaseKnown, Read, Translate
    <3>. QED  BY <3>1, <3>2
  \* The byte of a letter moves no modifier.
  <2>5. ASSUME Kind[byte.key] \in {"letter", "symbol"}, NEW kind \in {"shift", "ctrl"}
        PROVE  KeysOf(kind) \cap down' = KeysOf(kind) \cap down
    BY <2>1, <2>5 DEF Read, KeysOf
  <2>6. ~taken => KeysOf("shift") \cap missed = {} /\ KeysOf("ctrl") \cap missed = {}
    BY DEF CaseKnown
  <2>7. LettersAsTyped'
    <3>. SUFFICES ASSUME ~taken, Kind[byte.key] = "letter", ~byte.released
                  PROVE  /\ event'.upper => caps' \/ Down("shift")'
                         /\ caps' \/ AllDown("shift")' => event'.upper
      BY <2>1 DEF LettersAsTyped, Translate
    <3>1. event'.upper <=> caps_lock \/ shift
      BY <2>1 DEF Translate
    <3>2. caps' = caps_lock
      BY <2>1 DEF CaseKnown, Read
    <3>3. (Down("shift")' <=> Down("shift")) /\ (AllDown("shift")' <=> AllDown("shift"))
      <4>1. KeysOf("shift") \cap down' = KeysOf("shift") \cap down
        BY <2>5
      <4>. QED  BY <4>1, Zenon DEF Down, AllDown, KeysOf
    <3>4. (shift => Down("shift")) /\ (AllDown("shift") => shift)
      BY <2>6 DEF FlagsFollowKeys, Follows
    <3>. QED  BY <3>1, <3>2, <3>3, <3>4
  <2>8. CtrlOnlyWhileHeld'
    <3>. SUFFICES ASSUME ~taken, handler' = "handle_ctrl_char"
                  PROVE  Down("ctrl")'
      BY <2>1 DEF CtrlOnlyWhileHeld
    <3>1. ctrl /\ Kind[byte.key] \in {"letter", "symbol"}
      BY <2>1 DEF Route
    <3>2. Down("ctrl")
      BY <2>6, <3>1 DEF FlagsFollowKeys, Follows
    <3>. QED  BY <2>5, <3>1, <3>2 DEF Down, KeysOf
  <2>9. ~taken => missed' = {}
    BY <2>1 DEF CaseKnown
  <2>. QED  BY <2>1, <2>2, <2>3, <2>4, <2>7, <2>8, <2>9 DEF CaseKnown
<1>2. CASE AppRead
  <2>1. taken' = TRUE /\ caps_lock' = caps_lock
    BY <1>2 DEF AppRead, keyboard, flags
  <2>2. down' \subseteq Keys
    BY <1>2, HeadTyped DEF AppRead, Read, CaseKnown
  <2>. QED  BY <2>1, <2>2 DEF CaseKnown, LettersAsTyped, CtrlOnlyWhileHeld
<1>3. CASE User \/ UNCHANGED vars
  BY <1>3, UserStep
     DEF CaseKnown, LettersAsTyped, CtrlOnlyWhileHeld, Down, AllDown, KeysOf
<1>. QED  BY <1>1, <1>2, <1>3 DEF Next

Inv == KeysTyped /\ FlagsFollowKeys /\ CaseKnown

LEMMA InvHolds ==
  ASSUME OneCapsLock
  PROVE  Spec => []Inv
<1>1. Init => Inv
  <2>. SUFFICES ASSUME Init PROVE Inv
    OBVIOUS
  <2>1. KeysTyped /\ FlagsFollowKeys
    BY DEF Init, Reset, KeysTyped, FlagsFollowKeys, Follows, Down, AllDown
  <2>2. LettersAsTyped /\ CtrlOnlyWhileHeld
    BY DEF Init, Reset, NoEvent, LettersAsTyped, CtrlOnlyWhileHeld
  <2>3. CaseKnown
    BY <2>2 DEF Init, Reset, CaseKnown
  <2>. QED  BY <2>1, <2>3 DEF Inv
<1>2. Inv /\ [Next]_vars => Inv'
  BY OneCapsLock, KeysStep, FlagsStep, CaseStep DEF Inv
<1>. QED  BY <1>1, <1>2, PTL DEF Spec

\* Every letter read before an application takes a byte has the case the user
\* held the keys for.
THEOREM LettersAlwaysAsTyped ==
  ASSUME OneCapsLock
  PROVE  Spec => []LettersAsTyped
<1>1. Inv => LettersAsTyped
  BY DEF Inv, CaseKnown
<1>. QED  BY <1>1, InvHolds, PTL

\* And none is taken for a shortcut unless Ctrl is down when it is read.
THEOREM CtrlAlwaysHeld ==
  ASSUME OneCapsLock
  PROVE  Spec => []CtrlOnlyWhileHeld
<1>1. Inv => CtrlOnlyWhileHeld
  BY DEF Inv, CaseKnown
<1>. QED  BY <1>1, InvHolds, PTL

\* A step that turns CapsLock over is the first make code of its key.
THEOREM CapsTurnsOncePerPress ==
  ASSUME OneCapsLock
  PROVE  Spec => CapsOncePerPress
<1>1. ASSUME Inv, [Next]_vars
      PROVE  [\A k \in Keys \ missed :
                Kind[k] = "caps" /\ caps_lock' # caps_lock
                  => k \notin down /\ k \in down']_vars
  <2>. SUFFICES ASSUME NEW k \in Keys \ missed, Kind[k] = "caps", caps_lock' # caps_lock
                PROVE  k \notin down /\ k \in down'
    OBVIOUS
  <2>1. KernelRun
    BY <1>1, UserStep DEF Next, AppRead, keyboard, flags
  <2>. DEFINE byte == Head(line)
  <2>2. /\ byte.key \in Keys
        /\ Read(byte) /\ Translate(Kind[byte.key], byte.released)
    BY <1>1, <2>1, HeadTyped DEF Inv, KernelRun
  <2>. HIDE DEF byte
  <2>3. Kind[byte.key] = "caps" /\ ~byte.released /\ ~caps_lock_pressed
    BY <2>2 DEF Translate
  <2>4. byte.key = k
    BY <2>2, <2>3, OneCapsLock DEF OneCapsLock, KeysOf
  <2>5. caps_lock_pressed <=> k \in down
    BY <1>1, OneCapsLock, CapsPressed DEF Inv, KeysOf
  <2>. QED  BY <2>2, <2>3, <2>4, <2>5 DEF Read
<1>. QED  BY <1>1, InvHolds, PTL DEF Spec, CapsOncePerPress

-----------------------------------------------------------------------------
\* Console: the locks of the writer and of the file system, for every set of
\* pieces of code that the kernel's thread runs one after another.

\* What a step leaves of the locks that are held before it.
After(step, locks) ==
  IF step = LW THEN locks \cup {"WRITER"}
  ELSE IF step = UW THEN locks \ {"WRITER"}
  ELSE IF step = LF THEN locks \cup {"FS"}
  ELSE IF step = UF THEN locks \ {"FS"}
  ELSE locks

\* From here to the end of the piece the locks come and go as h says: none is
\* held where a key is looked for, and none at the end.
Plan(steps, h) ==
  /\ h[Len(steps) + 1] = {}
  /\ \A j \in 1 .. Len(steps) :
       /\ h[j + 1] = After(steps[j], h[j])
       /\ steps[j] \in {"key", "poll"} => h[j] = {}

None == {}
Screen == {"WRITER"}
Files == {"FS"}
Both == {"WRITER", "FS"}

LEMMA Effects ==
  /\ After(LW, None) = Screen /\ After(LW, Screen) = Screen
  /\ After(UW, Screen) = None /\ After(UW, None) = None
  /\ After(LF, None) = Files /\ After(UF, Files) = None
  /\ After(LF, Screen) = Both /\ After(UF, Both) = Screen
  /\ \A step \in {"alloc", "key", "poll"} : \A locks : After(step, locks) = locks
  /\ {LW, UW, LF, UF, "alloc"} \cap {"key", "poll"} = {}
BY DEF After, LW, UW, LF, UF, None, Screen, Files, Both

Operations == {LW, UW, LF, UF, "alloc", "key", "poll"}

Fits(steps) == steps \in Seq(Operations) /\ \E h : h[1] = {} /\ Plan(steps, h)

LEMMA Together ==
  ASSUME NEW s, Fits(s), NEW t, Fits(t)
  PROVE  Fits(s \o t)
<1>1. PICK f : f[1] = {} /\ Plan(s, f)
  BY DEF Fits
<1>2. PICK g : g[1] = {} /\ Plan(t, g)
  BY DEF Fits
<1> DEFINE m == Len(s)
           n == Len(t)
           h == [j \in 1 .. m + n + 1 |-> IF j <= m THEN f[j] ELSE g[j - m]]
<1>3. m \in Nat /\ n \in Nat /\ s \o t \in Seq(Operations) /\ Len(s \o t) = m + n
  BY DEF Fits
<1>4. /\ \A j \in 1 .. m : (s \o t)[j] = s[j]
      /\ \A j \in m + 1 .. m + n : (s \o t)[j] = t[j - m]
  BY DEF Fits
<1>5. /\ \A j \in 1 .. m + 1 : h[j] = f[j]
      /\ \A j \in m + 1 .. m + n + 1 : h[j] = g[j - m]
  <2>1. f[m + 1] = {} /\ g[1] = {}
    BY <1>1, <1>2 DEF Plan
  <2>2. h[m + 1] = g[1]
    BY <1>3
  <2>3. \A j \in 1 .. m : h[j] = f[j]
    BY <1>3
  <2>4. \A j \in m + 2 .. m + n + 1 : h[j] = g[j - m]
    BY <1>3
  <2>5. (m + 1) - m = 1 /\ \A j \in m + 1 .. m + n + 1 : j = m + 1 \/ j \in m + 2 .. m + n + 1
    BY <1>3
  <2>6. \A j \in 1 .. m + 1 : j = m + 1 \/ j \in 1 .. m
    BY <1>3
  <2>. HIDE DEF m, n, h
  <2>. QED  BY <2>1, <2>2, <2>3, <2>4, <2>5, <2>6
<1>. HIDE DEF m, n, h
<1>6. h[1] = {} /\ h[m + n + 1] = {}
  <2>1. g[n + 1] = {}
    BY <1>2 DEF Plan, n
  <2>2. 1 \in 1 .. m + 1 /\ m + n + 1 \in m + 1 .. m + n + 1 /\ (m + n + 1) - m = n + 1
    BY <1>3
  <2>. QED  BY <1>1, <1>5, <2>1, <2>2
<1>7. ASSUME NEW j \in 1 .. m + n
      PROVE  /\ h[j + 1] = After((s \o t)[j], h[j])
             /\ (s \o t)[j] \in {"key", "poll"} => h[j] = {}
  <2>1. CASE j \in 1 .. m
    <3>1. j \in 1 .. m + 1 /\ j + 1 \in 1 .. m + 1
      BY <1>3, <2>1
    <3>. QED  BY <1>1, <1>4, <1>5, <2>1, <3>1 DEF Plan, m
  <2>2. CASE j \in m + 1 .. m + n
    <3>1. j \in m + 1 .. m + n + 1 /\ j + 1 \in m + 1 .. m + n + 1 /\ j - m \in 1 .. n
          /\ (j + 1) - m = (j - m) + 1
      BY <1>3, <2>2
    <3>2. /\ g[(j - m) + 1] = After(t[j - m], g[j - m])
          /\ t[j - m] \in {"key", "poll"} => g[j - m] = {}
      BY <1>2, <3>1 DEF Plan, n
    <3>. QED  BY <1>4, <1>5, <2>2, <3>1, <3>2
  <2>. QED  BY <1>3, <2>1, <2>2
<1>8. Plan(s \o t, h)
  BY <1>3, <1>6, <1>7 DEF Plan
<1>. QED  BY <1>3, <1>6, <1>8 DEF Fits

LEMMA Blocks ==
  /\ Fits(<<"poll">>)
  /\ Fits(<<"key">>)
  /\ Fits(<<"alloc">>)
  /\ Fits(<<LW, UW>>)
  /\ Fits(<<LW, "alloc", UW>>)
  /\ Fits(<<LW, "alloc", LF, "alloc", UF, UW>>)
  /\ Fits(<<LW, UW, LF, "alloc", UF, LW, UW>>)
  /\ Fits(<<LW, UW, "key", LW, UW>>)
  /\ Fits(<<LW, UW, "key">>)
  /\ Fits(<<LW, UW, "key", "alloc">>)
  /\ Fits(<<LW, UW, LW, UW, LW, UW, "key", "alloc">>)
  /\ Fits(AtariRound)
<1>1. Fits(<<"poll">>)
  <2> DEFINE s == <<"poll">>
             h == <<None, None>>
  <2>1. s \in Seq(Operations) /\ Len(s) = 1
    BY DEF Operations
  <2>2. s[1] = "poll"
    OBVIOUS
  <2>3. h[1] = None /\ h[2] = None
    OBVIOUS
  <2>. HIDE DEF s, h
  <2>4. \A j \in 1 .. 1 : j = 1
    OBVIOUS
  <2>5. \A j \in 1 .. 1 : h[j + 1] = After(s[j], h[j])
    BY <2>2, <2>3, <2>4, Effects
  <2>6. \A j \in 1 .. 1 : s[j] \in {"key", "poll"} => h[j] = None
    BY <2>2, <2>3, <2>4, Effects
  <2>7. h[1] = {} /\ Plan(s, h)
    BY <2>1, <2>3, <2>5, <2>6 DEF Plan, None
  <2>8. Fits(s)
    BY <2>1, <2>7 DEF Fits
  <2>. QED  BY <2>8 DEF s
<1>2. Fits(<<"key">>)
  <2> DEFINE s == <<"key">>
             h == <<None, None>>
  <2>1. s \in Seq(Operations) /\ Len(s) = 1
    BY DEF Operations
  <2>2. s[1] = "key"
    OBVIOUS
  <2>3. h[1] = None /\ h[2] = None
    OBVIOUS
  <2>. HIDE DEF s, h
  <2>4. \A j \in 1 .. 1 : j = 1
    OBVIOUS
  <2>5. \A j \in 1 .. 1 : h[j + 1] = After(s[j], h[j])
    BY <2>2, <2>3, <2>4, Effects
  <2>6. \A j \in 1 .. 1 : s[j] \in {"key", "poll"} => h[j] = None
    BY <2>2, <2>3, <2>4, Effects
  <2>7. h[1] = {} /\ Plan(s, h)
    BY <2>1, <2>3, <2>5, <2>6 DEF Plan, None
  <2>8. Fits(s)
    BY <2>1, <2>7 DEF Fits
  <2>. QED  BY <2>8 DEF s
<1>3. Fits(<<"alloc">>)
  <2> DEFINE s == <<"alloc">>
             h == <<None, None>>
  <2>1. s \in Seq(Operations) /\ Len(s) = 1
    BY DEF Operations
  <2>2. s[1] = "alloc"
    OBVIOUS
  <2>3. h[1] = None /\ h[2] = None
    OBVIOUS
  <2>. HIDE DEF s, h
  <2>4. \A j \in 1 .. 1 : j = 1
    OBVIOUS
  <2>5. \A j \in 1 .. 1 : h[j + 1] = After(s[j], h[j])
    BY <2>2, <2>3, <2>4, Effects
  <2>6. \A j \in 1 .. 1 : s[j] \in {"key", "poll"} => h[j] = None
    BY <2>2, <2>3, <2>4, Effects
  <2>7. h[1] = {} /\ Plan(s, h)
    BY <2>1, <2>3, <2>5, <2>6 DEF Plan, None
  <2>8. Fits(s)
    BY <2>1, <2>7 DEF Fits
  <2>. QED  BY <2>8 DEF s
<1>4. Fits(<<LW, UW>>)
  <2> DEFINE s == <<LW, UW>>
             h == <<None, Screen, None>>
  <2>1. s \in Seq(Operations) /\ Len(s) = 2
    BY DEF Operations
  <2>2. s[1] = LW /\ s[2] = UW
    OBVIOUS
  <2>3. h[1] = None /\ h[2] = Screen /\ h[3] = None
    OBVIOUS
  <2>. HIDE DEF s, h
  <2>4. \A j \in 1 .. 2 : j = 1 \/ j = 2
    OBVIOUS
  <2>5. \A j \in 1 .. 2 : h[j + 1] = After(s[j], h[j])
    BY <2>2, <2>3, <2>4, Effects
  <2>6. \A j \in 1 .. 2 : s[j] \in {"key", "poll"} => h[j] = None
    BY <2>2, <2>3, <2>4, Effects
  <2>7. h[1] = {} /\ Plan(s, h)
    BY <2>1, <2>3, <2>5, <2>6 DEF Plan, None
  <2>8. Fits(s)
    BY <2>1, <2>7 DEF Fits
  <2>. QED  BY <2>8 DEF s
<1>5. Fits(<<LW, "alloc", UW>>)
  <2> DEFINE s == <<LW, "alloc", UW>>
             h == <<None, Screen, Screen, None>>
  <2>1. s \in Seq(Operations) /\ Len(s) = 3
    BY DEF Operations
  <2>2. s[1] = LW /\ s[2] = "alloc" /\ s[3] = UW
    OBVIOUS
  <2>3. h[1] = None /\ h[2] = Screen /\ h[3] = Screen /\ h[4] = None
    OBVIOUS
  <2>. HIDE DEF s, h
  <2>4. \A j \in 1 .. 3 : j = 1 \/ j = 2 \/ j = 3
    OBVIOUS
  <2>5. \A j \in 1 .. 3 : h[j + 1] = After(s[j], h[j])
    BY <2>2, <2>3, <2>4, Effects
  <2>6. \A j \in 1 .. 3 : s[j] \in {"key", "poll"} => h[j] = None
    BY <2>2, <2>3, <2>4, Effects
  <2>7. h[1] = {} /\ Plan(s, h)
    BY <2>1, <2>3, <2>5, <2>6 DEF Plan, None
  <2>8. Fits(s)
    BY <2>1, <2>7 DEF Fits
  <2>. QED  BY <2>8 DEF s
<1>6. Fits(<<LW, "alloc", LF, "alloc", UF, UW>>)
  <2> DEFINE s == <<LW, "alloc", LF, "alloc", UF, UW>>
             h == <<None, Screen, Screen, Both, Both, Screen, None>>
  <2>1. s \in Seq(Operations) /\ Len(s) = 6
    BY DEF Operations
  <2>2. s[1] = LW /\ s[2] = "alloc" /\ s[3] = LF /\ s[4] = "alloc" /\ s[5] = UF /\ s[6] = UW
    OBVIOUS
  <2>3. h[1] = None /\ h[2] = Screen /\ h[3] = Screen /\ h[4] = Both /\ h[5] = Both /\ h[6] = Screen /\ h[7] = None
    OBVIOUS
  <2>. HIDE DEF s, h
  <2>4. \A j \in 1 .. 6 : j = 1 \/ j = 2 \/ j = 3 \/ j = 4 \/ j = 5 \/ j = 6
    OBVIOUS
  <2>5. \A j \in 1 .. 6 : h[j + 1] = After(s[j], h[j])
    BY <2>2, <2>3, <2>4, Effects
  <2>6. \A j \in 1 .. 6 : s[j] \in {"key", "poll"} => h[j] = None
    BY <2>2, <2>3, <2>4, Effects
  <2>7. h[1] = {} /\ Plan(s, h)
    BY <2>1, <2>3, <2>5, <2>6 DEF Plan, None
  <2>8. Fits(s)
    BY <2>1, <2>7 DEF Fits
  <2>. QED  BY <2>8 DEF s
<1>7. Fits(<<LW, UW, LF, "alloc", UF, LW, UW>>)
  <2> DEFINE s == <<LW, UW, LF, "alloc", UF, LW, UW>>
             h == <<None, Screen, None, Files, Files, None, Screen, None>>
  <2>1. s \in Seq(Operations) /\ Len(s) = 7
    BY DEF Operations
  <2>2. s[1] = LW /\ s[2] = UW /\ s[3] = LF /\ s[4] = "alloc" /\ s[5] = UF /\ s[6] = LW /\ s[7] = UW
    OBVIOUS
  <2>3. h[1] = None /\ h[2] = Screen /\ h[3] = None /\ h[4] = Files /\ h[5] = Files /\ h[6] = None /\ h[7] = Screen /\ h[8] = None
    OBVIOUS
  <2>. HIDE DEF s, h
  <2>4. \A j \in 1 .. 7 : j = 1 \/ j = 2 \/ j = 3 \/ j = 4 \/ j = 5 \/ j = 6 \/ j = 7
    OBVIOUS
  <2>5. \A j \in 1 .. 7 : h[j + 1] = After(s[j], h[j])
    BY <2>2, <2>3, <2>4, Effects
  <2>6. \A j \in 1 .. 7 : s[j] \in {"key", "poll"} => h[j] = None
    BY <2>2, <2>3, <2>4, Effects
  <2>7. h[1] = {} /\ Plan(s, h)
    BY <2>1, <2>3, <2>5, <2>6 DEF Plan, None
  <2>8. Fits(s)
    BY <2>1, <2>7 DEF Fits
  <2>. QED  BY <2>8 DEF s
<1>8. Fits(<<LW, UW, "key", LW, UW>>)
  <2> DEFINE s == <<LW, UW, "key", LW, UW>>
             h == <<None, Screen, None, None, Screen, None>>
  <2>1. s \in Seq(Operations) /\ Len(s) = 5
    BY DEF Operations
  <2>2. s[1] = LW /\ s[2] = UW /\ s[3] = "key" /\ s[4] = LW /\ s[5] = UW
    OBVIOUS
  <2>3. h[1] = None /\ h[2] = Screen /\ h[3] = None /\ h[4] = None /\ h[5] = Screen /\ h[6] = None
    OBVIOUS
  <2>. HIDE DEF s, h
  <2>4. \A j \in 1 .. 5 : j = 1 \/ j = 2 \/ j = 3 \/ j = 4 \/ j = 5
    OBVIOUS
  <2>5. \A j \in 1 .. 5 : h[j + 1] = After(s[j], h[j])
    BY <2>2, <2>3, <2>4, Effects
  <2>6. \A j \in 1 .. 5 : s[j] \in {"key", "poll"} => h[j] = None
    BY <2>2, <2>3, <2>4, Effects
  <2>7. h[1] = {} /\ Plan(s, h)
    BY <2>1, <2>3, <2>5, <2>6 DEF Plan, None
  <2>8. Fits(s)
    BY <2>1, <2>7 DEF Fits
  <2>. QED  BY <2>8 DEF s
<1>9. Fits(<<LW, UW, "key">>)
  <2> DEFINE s == <<LW, UW, "key">>
             h == <<None, Screen, None, None>>
  <2>1. s \in Seq(Operations) /\ Len(s) = 3
    BY DEF Operations
  <2>2. s[1] = LW /\ s[2] = UW /\ s[3] = "key"
    OBVIOUS
  <2>3. h[1] = None /\ h[2] = Screen /\ h[3] = None /\ h[4] = None
    OBVIOUS
  <2>. HIDE DEF s, h
  <2>4. \A j \in 1 .. 3 : j = 1 \/ j = 2 \/ j = 3
    OBVIOUS
  <2>5. \A j \in 1 .. 3 : h[j + 1] = After(s[j], h[j])
    BY <2>2, <2>3, <2>4, Effects
  <2>6. \A j \in 1 .. 3 : s[j] \in {"key", "poll"} => h[j] = None
    BY <2>2, <2>3, <2>4, Effects
  <2>7. h[1] = {} /\ Plan(s, h)
    BY <2>1, <2>3, <2>5, <2>6 DEF Plan, None
  <2>8. Fits(s)
    BY <2>1, <2>7 DEF Fits
  <2>. QED  BY <2>8 DEF s
<1>10. Fits(<<LW, UW, "key", "alloc">>)
  <2> DEFINE s == <<LW, UW, "key", "alloc">>
             h == <<None, Screen, None, None, None>>
  <2>1. s \in Seq(Operations) /\ Len(s) = 4
    BY DEF Operations
  <2>2. s[1] = LW /\ s[2] = UW /\ s[3] = "key" /\ s[4] = "alloc"
    OBVIOUS
  <2>3. h[1] = None /\ h[2] = Screen /\ h[3] = None /\ h[4] = None /\ h[5] = None
    OBVIOUS
  <2>. HIDE DEF s, h
  <2>4. \A j \in 1 .. 4 : j = 1 \/ j = 2 \/ j = 3 \/ j = 4
    OBVIOUS
  <2>5. \A j \in 1 .. 4 : h[j + 1] = After(s[j], h[j])
    BY <2>2, <2>3, <2>4, Effects
  <2>6. \A j \in 1 .. 4 : s[j] \in {"key", "poll"} => h[j] = None
    BY <2>2, <2>3, <2>4, Effects
  <2>7. h[1] = {} /\ Plan(s, h)
    BY <2>1, <2>3, <2>5, <2>6 DEF Plan, None
  <2>8. Fits(s)
    BY <2>1, <2>7 DEF Fits
  <2>. QED  BY <2>8 DEF s
<1>11. Fits(<<LW, UW, LW, UW, LW, UW, "key", "alloc">>)
  <2> DEFINE s == <<LW, UW, LW, UW, LW, UW, "key", "alloc">>
             h == <<None, Screen, None, Screen, None, Screen, None, None, None>>
  <2>1. s \in Seq(Operations) /\ Len(s) = 8
    BY DEF Operations
  <2>2. s[1] = LW /\ s[2] = UW /\ s[3] = LW /\ s[4] = UW /\ s[5] = LW /\ s[6] = UW /\ s[7] = "key" /\ s[8] = "alloc"
    OBVIOUS
  <2>3. h[1] = None /\ h[2] = Screen /\ h[3] = None /\ h[4] = Screen /\ h[5] = None /\ h[6] = Screen /\ h[7] = None /\ h[8] = None /\ h[9] = None
    OBVIOUS
  <2>. HIDE DEF s, h
  <2>4. \A j \in 1 .. 8 : j = 1 \/ j = 2 \/ j = 3 \/ j = 4 \/ j = 5 \/ j = 6 \/ j = 7 \/ j = 8
    OBVIOUS
  <2>5. \A j \in 1 .. 8 : h[j + 1] = After(s[j], h[j])
    BY <2>2, <2>3, <2>4, Effects
  <2>6. \A j \in 1 .. 8 : s[j] \in {"key", "poll"} => h[j] = None
    BY <2>2, <2>3, <2>4, Effects
  <2>7. h[1] = {} /\ Plan(s, h)
    BY <2>1, <2>3, <2>5, <2>6 DEF Plan, None
  <2>8. Fits(s)
    BY <2>1, <2>7 DEF Fits
  <2>. QED  BY <2>8 DEF s
<1>12. Fits(AtariRound)
  <2> DEFINE s == AtariRound
             h == <<None, Screen, Screen, None, None, None>>
             x == <<LW>>
             y == <<UW, "poll">>
             z == x \o PrintNumber
  <2>o. \A a \in Seq(Operations), b \in Seq(Operations) :
           /\ a \o b \in Seq(Operations) /\ Len(a \o b) = Len(a) + Len(b)
           /\ \A j \in 1 .. Len(a) : (a \o b)[j] = a[j]
           /\ \A k \in 1 .. Len(b) : (a \o b)[Len(a) + k] = b[k]
    OBVIOUS
  <2>a. /\ x \in Seq(Operations) /\ Len(x) = 1 /\ x[1] = LW
        /\ PrintNumber \in Seq(Operations) /\ Len(PrintNumber) = 2
        /\ PrintNumber[1] = LW /\ PrintNumber[2] = UW
        /\ y \in Seq(Operations) /\ Len(y) = 2 /\ y[1] = UW /\ y[2] = "poll"
    BY DEF PrintNumber, Operations
  <2>b. s = z \o y
    BY DEF AtariRound
  <2>. HIDE DEF x, y, s
  <2>c. z \in Seq(Operations) /\ Len(z) = 3 /\ z[1] = LW /\ z[2] = LW /\ z[3] = UW
    <3>1. /\ z \in Seq(Operations) /\ Len(z) = Len(x) + Len(PrintNumber)
          /\ \A j \in 1 .. Len(x) : z[j] = x[j]
          /\ \A k \in 1 .. Len(PrintNumber) : z[Len(x) + k] = PrintNumber[k]
      BY <2>a, <2>o
    <3>2. 1 \in 1 .. 1 /\ 1 \in 1 .. 2 /\ 2 \in 1 .. 2 /\ 1 + 1 = 2 /\ 1 + 2 = 3
      OBVIOUS
    <3>. HIDE DEF z
    <3>. QED  BY <2>a, <3>1, <3>2
  <2>. HIDE DEF z
  <2>d. /\ s \in Seq(Operations) /\ Len(s) = Len(z) + Len(y)
        /\ \A j \in 1 .. Len(z) : s[j] = z[j]
        /\ \A k \in 1 .. Len(y) : s[Len(z) + k] = y[k]
    BY <2>a, <2>b, <2>c, <2>o
  <2>1. s \in Seq(Operations) /\ Len(s) = 5
    BY <2>a, <2>c, <2>d
  <2>2. s[1] = LW /\ s[2] = LW /\ s[3] = UW /\ s[4] = UW /\ s[5] = "poll"
    <3>1. /\ 1 \in 1 .. 3 /\ 2 \in 1 .. 3 /\ 3 \in 1 .. 3
          /\ 1 \in 1 .. 2 /\ 2 \in 1 .. 2 /\ 3 + 1 = 4 /\ 3 + 2 = 5
      OBVIOUS
    <3>. QED  BY <2>a, <2>c, <2>d, <3>1
  <2>3. h[1] = None /\ h[2] = Screen /\ h[3] = Screen /\ h[4] = None /\ h[5] = None /\ h[6] = None
    OBVIOUS
  <2>. HIDE DEF s, h
  <2>4. \A j \in 1 .. 5 : j = 1 \/ j = 2 \/ j = 3 \/ j = 4 \/ j = 5
    OBVIOUS
  <2>5. \A j \in 1 .. 5 : h[j + 1] = After(s[j], h[j])
    BY <2>2, <2>3, <2>4, Effects
  <2>6. \A j \in 1 .. 5 : s[j] \in {"key", "poll"} => h[j] = None
    BY <2>2, <2>3, <2>4, Effects
  <2>7. h[1] = {} /\ Plan(s, h)
    BY <2>1, <2>3, <2>5, <2>6 DEF Plan, None
  <2>8. Fits(s)
    BY <2>1, <2>7 DEF Fits
  <2>. QED  BY <2>8 DEF s
<1>. QED
  BY <1>1, <1>2, <1>3, <1>4, <1>5, <1>6, <1>7, <1>8, <1>9, <1>10, <1>11, <1>12

\* None of the pieces asks for a key with a lock held.
LEMMA PieceFits ==
  ASSUME NEW p \in DOMAIN Steps, p \notin {"panic", "exception"}
  PROVE  Fits(Steps[p])
<1>1. Fits(Parsing) /\ Fits(Dispatch)
  BY Blocks, Together DEF Dispatch, Parsing
<1>2. Fits(Download) /\ Fits(Clone)
  BY <1>1, Blocks, Together DEF Download, Clone
<1>3. Fits(CanvasStart) /\ Fits(AtariStart) /\ Fits(ChessStart)
  BY <1>1, Blocks, Together DEF CanvasStart, AtariStart, ChessStart
<1>4. Fits(Printing) /\ Fits(FileCommand)
  BY <1>1, Blocks, Together DEF Printing, FileCommand
<1>5. Fits(Editing) /\ Fits(BrowserStart)
  BY <1>1, <1>4, Blocks, Together DEF Editing, Printing, BrowserStart, Joining
<1>6. /\ Fits(Loop) /\ Fits(Typing) /\ Fits(Erasing) /\ Fits(Escaping) /\ Fits(Saving)
      /\ Fits(Entering) /\ Fits(CanvasRound) /\ Fits(ChessRound) /\ Fits(BrowserRound)
      /\ Fits(Leaving) /\ Fits(Prompting)
  BY Blocks DEF Loop, Typing, Erasing, Escaping, Saving, Entering, CanvasRound, ChessRound,
                BrowserRound, Leaving, Prompting
<1>. QED
  BY <1>1, <1>2, <1>3, <1>4, <1>5, <1>6, Blocks DEF Steps

\* Where the kernel is in its piece, the locks it holds are those that the
\* rest of the piece gives back before a key is looked for.
Ordered ==
  IF Stopped THEN todo \in {Panic, Tail(Panic), Tail(Tail(Panic))}
  ELSE todo \in Seq(Operations) /\ \E h : h[1] = holds /\ Plan(todo, h)

LEMMA OrderedStep ==
  ASSUME ~Stopped, Ordered, todo # <<>>, todo' = Tail(todo), piece' = piece,
         holds' = After(Head(todo), holds)
  PROVE  Ordered'
<1>1. PICK h : h[1] = holds /\ Plan(todo, h)
  BY DEF Ordered
<1> DEFINE n == Len(todo)
           g == [j \in 1 .. n |-> h[j + 1]]
<1>2. todo \in Seq(Operations) /\ n \in Nat \ {0} /\ Head(todo) = todo[1]
  BY DEF Ordered
<1>3. /\ Tail(todo) \in Seq(Operations)
      /\ Len(Tail(todo)) = n - 1
      /\ \A j \in 1 .. n - 1 : Tail(todo)[j] = todo[j + 1]
  BY <1>2
<1>4. \A j \in 1 .. n : g[j] = h[j + 1]
  OBVIOUS
<1>5. /\ h[n + 1] = {}
      /\ \A j \in 1 .. n : /\ h[j + 1] = After(todo[j], h[j])
                           /\ todo[j] \in {"key", "poll"} => h[j] = {}
  BY <1>1 DEF Plan
<1>. HIDE DEF n, g
<1>6. g[1] = holds'
  <2>1. 1 \in 1 .. n
    BY <1>2
  <2>. QED  BY <1>1, <1>2, <1>4, <1>5, <2>1
<1>7. g[(n - 1) + 1] = {}
  <2>1. n \in 1 .. n /\ (n - 1) + 1 = n
    BY <1>2
  <2>. QED  BY <1>4, <1>5, <2>1
<1>8. \A j \in 1 .. n - 1 : /\ g[j + 1] = After(todo[j + 1], g[j])
                            /\ todo[j + 1] \in {"key", "poll"} => g[j] = {}
  <2>1. \A j \in 1 .. n - 1 : j \in 1 .. n /\ j + 1 \in 1 .. n
    BY <1>2
  <2>. QED  BY <1>4, <1>5, <2>1
<1>9. Plan(Tail(todo), g)
  BY <1>3, <1>7, <1>8 DEF Plan
<1>. QED  BY <1>3, <1>6, <1>9 DEF Ordered, Stopped

LEMMA HaltingIs ==
  /\ Panic # <<>> /\ Head(Panic) = LW
  /\ Tail(Panic) # <<>> /\ Head(Tail(Panic)) = "show"
  /\ Tail(Tail(Panic)) # <<>> /\ Head(Tail(Tail(Panic))) = "halt"
  /\ Exception = Panic
BY DEF Panic, Exception

LEMMA KernelStep == Ordered /\ [ConsoleNext]_console => Ordered'
<1>. SUFFICES ASSUME Ordered, [ConsoleNext]_console PROVE Ordered'
  OBVIOUS
<1>e. {LW, UW, LF, UF, "alloc", "key", "poll", "show"} \cap {"halt"} = {}
      /\ "show" # LW /\ LW \notin {UW, LF, UF, "alloc", "key", "poll"}
  BY DEF LW, UW, LF, UF
<1>1. CASE Continue
  <2>1. todo = <<>> /\ ~Stopped
    BY <1>1, HaltingIs DEF Continue, Ordered
  <2>2. PICK h : h[1] = holds /\ Plan(<<>>, h)
    BY <2>1 DEF Ordered
  <2>3. holds = {}
    BY <2>2 DEF Plan
  <2>4. piece' \in DOMAIN Steps /\ piece' \notin {"panic", "exception"}
    BY <1>1, <2>1 DEF Continue, Follow, Stopped, Rounds, Commands, Steps
  <2>5. Fits(Steps[piece'])
    BY <2>4, PieceFits
  <2>. QED  BY <1>1, <2>3, <2>4, <2>5 DEF Continue, Fits, Ordered, Stopped
<1>2. CASE OutOfMemory \/ Fault
  BY <1>2, HaltingIs DEF OutOfMemory, Fault, Ordered, Stopped
<1>3. CASE UNCHANGED console
  BY <1>3 DEF console, Ordered, Stopped
<1>4. ASSUME NEW step \in {LW, UW, LF, UF, "alloc", "key", "poll", "show"}, Take(step),
             holds' = After(step, holds)
      PROVE  Ordered'
  <2>1. todo # <<>> /\ Head(todo) = step /\ todo' = Tail(todo) /\ piece' = piece
    BY <1>4 DEF Take, At
  <2>2. CASE Stopped
    <3>1. todo \in {Panic, Tail(Panic)}
      BY <1>e, <2>1, <2>2, HaltingIs DEF Ordered
    <3>. QED  BY <2>1, <2>2, <3>1 DEF Ordered, Stopped
  <2>3. CASE ~Stopped
    BY <1>4, <2>1, <2>3, OrderedStep
  <2>. QED  BY <2>2, <2>3
<1>5. CASE Lock(LW, "WRITER") \/ Lock(LF, "FS") \/ Unlock(UW, "WRITER") \/ Unlock(UF, "FS")
  <2>1. /\ After(LW, holds) = holds \cup {"WRITER"} /\ After(LF, holds) = holds \cup {"FS"}
        /\ After(UW, holds) = holds \ {"WRITER"} /\ After(UF, holds) = holds \ {"FS"}
    BY DEF After, LW, UW, LF, UF
  <2>. QED  BY <1>4, <1>5, <2>1 DEF Lock, Unlock
<1>6. CASE Poll \/ Allocate \/ Show \/ Input
  <2>1. \A step \in {"alloc", "key", "poll", "show"} : After(step, holds) = holds
    BY DEF After, LW, UW, LF, UF
  <2>. QED  BY <1>4, <1>6, <2>1 DEF Poll, Allocate, Show, Input
<1>. QED  BY <1>1, <1>2, <1>3, <1>5, <1>6 DEF ConsoleNext, Kernel

\* The kernel never looks for a key with the screen or the filesystem taken,
\* whichever pieces run and wherever an allocation fails or the CPU faults.
THEOREM AlwaysPollsFree == ConsoleSpec => []PollsWithoutLocks
<1>1. ConsoleInit => Ordered
  <2>1. Fits(Loop)
    BY Blocks DEF Loop
  <2>. QED  BY <2>1 DEF ConsoleInit, Ordered, Stopped, Fits
<1>2. Ordered => PollsWithoutLocks
  <2>. SUFFICES ASSUME Ordered, todo # <<>>, Head(todo) \in {"key", "poll"}
                PROVE  holds = {}
    BY DEF PollsWithoutLocks, At
  <2>1. ~Stopped
    <3>1. LW \notin {"key", "poll"}
      BY DEF LW
    <3>. QED  BY <3>1, HaltingIs DEF Ordered
  <2>2. PICK h : h[1] = holds /\ Plan(todo, h)
    BY <2>1 DEF Ordered
  <2>3. todo \in Seq(Operations) /\ 1 \in 1 .. Len(todo) /\ Head(todo) = todo[1]
    BY <2>1 DEF Ordered
  <2>. QED  BY <2>2, <2>3 DEF Plan
<1>. QED  BY <1>1, <1>2, KernelStep, PTL DEF ConsoleSpec

-----------------------------------------------------------------------------
\* Typing: the shell's command line and the editor on the text screen, for every
\* screen size, every alphabet and every choice of texts.

Letterings == Typed \cup {EndOfLine}

LEMMA TextsAre ==
  /\ \A t \in Texts : t \in Seq(Letterings) /\ Len(t) <= MaxText
  /\ \A t \in Seq(Letterings) : Len(t) <= MaxText => t \in Texts
<1>1. ASSUME NEW t \in Texts
      PROVE  t \in Seq(Letterings) /\ Len(t) <= MaxText
  <2>1. PICK n \in 0 .. MaxText : t \in [1 .. n -> Letterings]
    BY DEF Texts, Letterings
  <2>2. n \in Nat /\ n <= MaxText
    BY TextAssumption
  <2> QED BY <2>1, <2>2
<1>2. ASSUME NEW t \in Seq(Letterings), Len(t) <= MaxText
      PROVE  t \in Texts
  <2>1. Len(t) \in 0 .. MaxText /\ t \in [1 .. Len(t) -> Letterings]
    BY <1>2, TextAssumption
  <2> QED BY <2>1 DEF Texts, Letterings
<1> QED BY <1>1, <1>2

\* Where the last line starts.
Starts(t, n) ==
  /\ n \in 0 .. Len(t)
  /\ n = 0 \/ t[n] = EndOfLine
  /\ \A i \in n + 1 .. Len(t) : t[i] # EndOfLine

LEMMA LineStartIs ==
  ASSUME NEW T, NEW t \in Seq(T)
  PROVE  Starts(t, LineStart(t))
<1> DEFINE ends == {i \in DOMAIN t : t[i] = EndOfLine}
<1>1. ends \in SUBSET (1 .. Len(t)) /\ Len(t) \in Nat
  OBVIOUS
<1>2. CASE ends = {}
  <2>1. \A i \in 1 .. Len(t) : t[i] # EndOfLine
    BY <1>2
  <2>2. Max({0} \cup ends) = 0
    <3>1. {0} \cup ends = {0}
      BY <1>2
    <3>2. {0} \subseteq Int /\ 0 \in {0} /\ \A e \in {0} : e <= 0
      OBVIOUS
    <3> HIDE DEF ends
    <3>3. Max({0}) = 0
      BY <3>2, MaxIs
    <3> QED BY <3>1, <3>3
  <2>3. LineStart(t) = 0
    BY <2>2 DEF LineStart
  <2> HIDE DEF ends
  <2> QED BY <1>1, <2>1, <2>3 DEF Starts
<1>3. CASE ends # {}
  <2> DEFINE m == Max(ends)
  <2>1. m \in ends /\ \A e \in ends : e <= m
    <3> HIDE DEF ends
    <3> QED BY <1>1, <1>3, MaxOfSome
  <2>2. m \in 1 .. Len(t) /\ t[m] = EndOfLine
    BY <2>1
  <2>3. Max({0} \cup ends) = m
    <3>1. {0} \cup ends \subseteq Int /\ m \in {0} \cup ends
      BY <1>1, <2>1
    <3>2. \A e \in {0} \cup ends : e <= m
      BY <2>1, <2>2
    <3> HIDE DEF ends, m
    <3> QED BY <3>1, <3>2, MaxIs
  <2>4. LineStart(t) = m
    BY <2>3 DEF LineStart
  <2>5. \A i \in m + 1 .. Len(t) : t[i] # EndOfLine
    <3> SUFFICES ASSUME NEW i \in m + 1 .. Len(t), t[i] = EndOfLine PROVE FALSE
      OBVIOUS
    <3>1. i \in ends
      BY <1>1, <2>2
    <3>2. i <= m
      BY <2>1, <3>1
    <3> HIDE DEF m
    <3> QED BY <2>2, <3>2
  <2> HIDE DEF m
  <2> QED BY <1>1, <2>2, <2>4, <2>5 DEF Starts
<1> QED BY <1>2, <1>3

LEMMA StartsOnce ==
  ASSUME NEW T, NEW t \in Seq(T), NEW n, Starts(t, n)
  PROVE  LineStart(t) = n
<1>1. Starts(t, LineStart(t))
  BY LineStartIs
<1>2. n \in Nat /\ LineStart(t) \in Nat /\ Len(t) \in Nat
  BY <1>1 DEF Starts
<1>3. ~ (n < LineStart(t)) /\ ~ (LineStart(t) < n)
  BY <1>1, <1>2 DEF Starts
<1> QED BY <1>2, <1>3

LEMMA CurrentLineIs ==
  ASSUME NEW T, NEW t \in Seq(T)
  PROVE  /\ CurrentLine(t) \in Seq(T)
         /\ Len(CurrentLine(t)) = Len(t) - LineStart(t)
         /\ \A i \in 1 .. Len(t) - LineStart(t) : CurrentLine(t)[i] = t[LineStart(t) + i]
<1>1. LineStart(t) \in 0 .. Len(t)
  BY LineStartIs DEF Starts
<1> DEFINE n == LineStart(t)
<1> HIDE DEF n
<1>2. n \in 0 .. Len(t)
  BY <1>1 DEF n
<1>3. /\ SubSeq(t, n + 1, Len(t)) \in Seq(T)
      /\ Len(SubSeq(t, n + 1, Len(t))) = Len(t) - n
      /\ \A i \in 1 .. Len(t) - n : SubSeq(t, n + 1, Len(t))[i] = t[n + i]
  BY <1>2
<1> QED BY <1>3 DEF CurrentLine, n


\* Text that is typed, rubbed out or taken off at the end.
LEMMA AppendStarts ==
  ASSUME NEW T, NEW t \in Seq(T), NEW c \in T
  PROVE  LineStart(Append(t, c)) = IF c = EndOfLine THEN Len(t) + 1 ELSE LineStart(t)
<1> DEFINE s == Append(t, c)
           n == IF c = EndOfLine THEN Len(t) + 1 ELSE LineStart(t)
<1>1. s \in Seq(T) /\ Len(s) = Len(t) + 1 /\ s[Len(t) + 1] = c
      /\ \A i \in 1 .. Len(t) : s[i] = t[i]
  OBVIOUS
<1>2. Starts(t, LineStart(t))
  BY LineStartIs
<1>3. Len(t) \in Nat
  OBVIOUS
<1>4. CASE c = EndOfLine
  <2>1. Starts(s, Len(t) + 1)
    <3> HIDE DEF s
    <3> QED BY <1>1, <1>3, <1>4 DEF Starts
  <2> HIDE DEF s
  <2>2. LineStart(s) = Len(t) + 1
    BY <1>1, <2>1, StartsOnce
  <2> QED BY <1>4, <2>2 DEF s
<1>5. CASE c # EndOfLine
  <2> DEFINE m == LineStart(t)
  <2> HIDE DEF m, s
  <2>1. m \in 0 .. Len(t) /\ (m = 0 \/ t[m] = EndOfLine)
        /\ \A i \in m + 1 .. Len(t) : t[i] # EndOfLine
    BY <1>2 DEF Starts, m
  <2>2. m \in 0 .. Len(s) /\ (m = 0 \/ s[m] = EndOfLine)
    BY <1>1, <1>3, <2>1
  <2>3. \A i \in m + 1 .. Len(s) : s[i] # EndOfLine
    <3> TAKE i \in m + 1 .. Len(s)
    <3>1. CASE i = Len(t) + 1
      BY <1>1, <1>5, <3>1
    <3>2. CASE i # Len(t) + 1
      <4>1. i \in m + 1 .. Len(t) /\ i \in 1 .. Len(t)
        BY <1>1, <1>3, <2>1, <3>2
      <4> QED BY <1>1, <2>1, <4>1
    <3> QED BY <3>1, <3>2
  <2>4. LineStart(s) = m
    BY <1>1, <2>2, <2>3, StartsOnce DEF Starts
  <2> QED BY <1>5, <2>4 DEF s, m
<1> QED BY <1>4, <1>5

LEMMA FrontIs ==
  ASSUME NEW T, NEW t \in Seq(T), t # <<>>
  PROVE  /\ Front(t) \in Seq(T) /\ Len(Front(t)) = Len(t) - 1
         /\ \A i \in 1 .. Len(t) - 1 : Front(t)[i] = t[i]
         /\ Len(t) \in Nat \ {0} /\ Last(t) = t[Len(t)] /\ Last(t) \in T
         /\ Front(t) = SubSeq(t, 1, Len(t) - 1)
<1>1. PICK n \in Nat : Len(t) = n + 1
  <2>1. Len(t) \in Nat /\ Len(t) # 0
    OBVIOUS
  <2>2. Len(t) - 1 \in Nat /\ Len(t) = Len(t) - 1 + 1
    BY <2>1
  <2> QED BY <2>2
<1>2. /\ SubSeq(t, 1, n) \in Seq(T) /\ Len(SubSeq(t, 1, n)) = n
      /\ \A i \in 1 .. n : SubSeq(t, 1, n)[i] = t[i]
  BY <1>1
<1>3. Len(t) - 1 = n
  BY <1>1
<1>4. Front(t) = SubSeq(t, 1, n)
  BY <1>3 DEF Front
<1>5. Last(t) = t[Len(t)] /\ t[Len(t)] \in T
  BY <1>1 DEF Last
<1> QED BY <1>1, <1>2, <1>3, <1>4, <1>5

LEMMA LastLineIs ==
  ASSUME NEW T, NEW t \in Seq(T)
  PROVE  LastLine(t) \in Seq(T) /\ Len(LastLine(t)) <= Len(t)
<1>1. \A s \in Seq(T) : CurrentLine(s) \in Seq(T) /\ Len(CurrentLine(s)) <= Len(s)
  <2> TAKE s \in Seq(T)
  <2>1. Starts(s, LineStart(s))
    BY LineStartIs
  <2>2. LineStart(s) \in Nat /\ Len(s) \in Nat
    BY <2>1 DEF Starts
  <2> QED BY <2>2, CurrentLineIs
<1>2. t # <<>> => Front(t) \in Seq(T) /\ Len(Front(t)) <= Len(t)
  <2> SUFFICES ASSUME t # <<>> PROVE Front(t) \in Seq(T) /\ Len(Front(t)) <= Len(t)
    OBVIOUS
  <2> QED BY FrontIs
<1>3. CASE t # <<>> /\ Last(t) = EndOfLine
  <2>1. LastLine(t) = CurrentLine(Front(t))
    BY <1>3 DEF LastLine
  <2>2. Len(CurrentLine(Front(t))) \in Nat /\ Len(Front(t)) \in Nat /\ Len(t) \in Nat
    BY <1>1, <1>2, <1>3
  <2> QED BY <1>1, <1>2, <1>3, <2>1, <2>2
<1>4. CASE ~ (t # <<>> /\ Last(t) = EndOfLine)
  <2>1. LastLine(t) = CurrentLine(t)
    BY <1>4 DEF LastLine
  <2> QED BY <1>1, <2>1
<1> QED BY <1>3, <1>4

LEMMA PrefixType ==
  ASSUME NEW T, NEW t \in Seq(T), NEW k \in 0 .. Len(t)
  PROVE  /\ SubSeq(t, 1, k) \in Seq(T) /\ Len(SubSeq(t, 1, k)) = k
         /\ \A i \in 1 .. k : SubSeq(t, 1, k)[i] = t[i]
OBVIOUS

LEMMA PoppedIs ==
  ASSUME NEW T, NEW t \in Seq(T)
  PROVE  /\ Len(t) - Len(LastLine(t)) \in 0 .. Len(t)
         /\ Popped(t) \in Seq(T) /\ Len(Popped(t)) <= Len(t)
<1>1. Len(LastLine(t)) \in Nat /\ Len(LastLine(t)) <= Len(t) /\ Len(t) \in Nat
  BY LastLineIs
<1>2. Len(t) - Len(LastLine(t)) \in 0 .. Len(t)
  BY <1>1
<1> DEFINE k == Len(t) - Len(LastLine(t))
<1> HIDE DEF k
<1>3. k \in 0 .. Len(t)
  BY <1>2 DEF k
<1>4. SubSeq(t, 1, k) \in Seq(T) /\ Len(SubSeq(t, 1, k)) = k
  BY <1>3, PrefixType
<1>5. k <= Len(t)
  BY <1>1, <1>3
<1> QED BY <1>2, <1>4, <1>5 DEF Popped, k

-----------------------------------------------------------------------------
(* The screen. *)
Place == Offset(row, column)

LEMMA ScreenSize ==
  /\ Width \in Nat \ {0} /\ Height \in Nat \ {0}
  /\ Width * Height \in Nat
  /\ (Height - 1) * Width + Width = Width * Height
  /\ (Height - 1) * Width \in Nat
<1>1. PICK h \in Nat : Height = h + 1
  BY SizeAssumption
<1>2. Width * (h + 1) = h * Width + Width /\ h * Width \in Nat
  BY SizeAssumption
<1>3. Height - 1 = h
  BY <1>1
<1> QED BY <1>1, <1>2, <1>3, SizeAssumption

\* A place is within the row's cells, or at their end, which is where the
\* next row starts.
LEMMA OffsetIs ==
  ASSUME NEW r \in 0 .. Height - 1, NEW c \in 0 .. Width
  PROVE  /\ r * Width \in Nat /\ r * Width + Width <= Width * Height
         /\ Offset(r, c) = r * Width + c
         /\ Offset(r, c) \in 0 .. Width * Height
         /\ c < Width => Offset(r, c) \in Cells
         /\ (r + 1) * Width = r * Width + Width
<1>1. PICK k \in Nat : Height = r + 1 + k
  <2>1. Height - 1 - r \in Nat /\ Height = r + 1 + (Height - 1 - r)
    BY SizeAssumption
  <2> QED BY <2>1
<1>2. r \in Nat /\ c \in Nat /\ c <= Width /\ Width \in Nat
  BY SizeAssumption
<1>3. Width * (r + 1 + k) = r * Width + Width + Width * k
  BY <1>2
<1>4. r * Width \in Nat /\ Width * k \in Nat /\ (r + 1) * Width = r * Width + Width
  BY <1>2
<1> DEFINE a == r * Width
           b == Width * k
           total == Width * Height
<1>5. total = a + Width + b /\ a \in Nat /\ b \in Nat
  BY <1>1, <1>3, <1>4
<1>6. Offset(r, c) = a + c
  BY DEF Offset
<1> HIDE DEF a, b, total
<1>7. a + Width <= total /\ a + c \in 0 .. total /\ (c < Width => a + c \in 0 .. total - 1)
  BY <1>2, <1>5
<1> QED BY <1>4, <1>6, <1>7 DEF a, total, Cells

LEMMA ScreenTypes ==
  ASSUME NEW S, Blank \in S, ScreenTypeOK(S)
  PROVE  /\ Scrolled \in [Cells -> S]
         /\ AllBlank \in [Cells -> S]
         /\ NewlineCells \in [Cells -> S]
         /\ NewlineRow \in 0 .. Height - 1
         /\ 0 \in 0 .. Width /\ 1 \in 0 .. Width /\ 0 \in 0 .. Height - 1
<1>1. cells \in [Cells -> S] /\ row \in 0 .. Height - 1
  BY DEF ScreenTypeOK
<1>2. Scrolled \in [Cells -> S]
  BY <1>1 DEF Scrolled
<1> QED BY <1>1, <1>2, SizeAssumption DEF AllBlank, NewlineCells, NewlineRow

LEMMA ClearType ==
  ASSUME NEW S, Blank \in S, ScreenTypeOK(S), Clear
  PROVE  ScreenTypeOK(S)'
<1>1. row' \in 0 .. Height - 1 /\ column' \in 0 .. Width /\ cells' \in [Cells -> S]
  BY ScreenTypes DEF Clear
<1>2. Offset(row', column') \in 0 .. Width * Height
  BY <1>1, OffsetIs
<1> QED BY <1>1, <1>2 DEF ScreenTypeOK, Clear, UpdateCursor

LEMMA NewlineType ==
  ASSUME NEW S, Blank \in S, ScreenTypeOK(S), Newline
  PROVE  ScreenTypeOK(S)'
<1>1. row' \in 0 .. Height - 1 /\ column' \in 0 .. Width /\ cells' \in [Cells -> S]
  BY ScreenTypes DEF Newline
<1>2. Offset(row', column') \in 0 .. Width * Height
  BY <1>1, OffsetIs
<1> QED BY <1>1, <1>2 DEF ScreenTypeOK, Newline, UpdateCursor

LEMMA PutCharType ==
  ASSUME NEW S, Blank \in S, ScreenTypeOK(S), NEW c \in S, PutChar(c)
  PROVE  ScreenTypeOK(S)'
<1>1. /\ cells \in [Cells -> S] /\ row \in 0 .. Height - 1 /\ column \in 0 .. Width
      /\ Width \in Nat
  BY SizeAssumption DEF ScreenTypeOK
<1>2. row' \in 0 .. Height - 1 /\ column' \in 0 .. Width
  BY <1>1, ScreenTypes DEF PutChar
<1>3. cells' \in [Cells -> S]
  <2>1. \A f \in [Cells -> S] : \A i : [f EXCEPT ![i] = c] \in [Cells -> S]
    OBVIOUS
  <2> QED BY <1>1, <2>1, ScreenTypes DEF PutChar
<1>4. Offset(row', column') \in 0 .. Width * Height
  BY <1>2, OffsetIs
<1> QED BY <1>2, <1>3, <1>4 DEF ScreenTypeOK, PutChar, UpdateCursor

LEMMA PutCharAtType ==
  ASSUME NEW S, ScreenTypeOK(S), NEW ch \in S, NEW r, NEW c, PutCharAt(r, c, ch)
  PROVE  ScreenTypeOK(S)'
<1>1. \A f \in [Cells -> S] : \A i : [f EXCEPT ![i] = ch] \in [Cells -> S]
  OBVIOUS
<1>2. cells' \in [Cells -> S]
  BY <1>1 DEF ScreenTypeOK, PutCharAt
<1> QED BY <1>2 DEF ScreenTypeOK, PutCharAt

LEMMA BackspaceType ==
  ASSUME NEW S, Blank \in S, ScreenTypeOK(S), Backspace
  PROVE  ScreenTypeOK(S)'
<1>1. /\ cells \in [Cells -> S] /\ row \in 0 .. Height - 1 /\ column \in 0 .. Width
      /\ Width \in Nat \ {0} /\ Height \in Nat \ {0}
  BY SizeAssumption DEF ScreenTypeOK
<1>2. row' \in 0 .. Height - 1 /\ column' \in 0 .. Width
  BY <1>1 DEF Backspace
<1>3. cells' \in [Cells -> S]
  <2>1. \A f \in [Cells -> S] : \A i : [f EXCEPT ![i] = Blank] \in [Cells -> S]
    OBVIOUS
  <2> QED BY <1>1, <2>1 DEF Backspace
<1>4. Offset(row', column') \in 0 .. Width * Height
  BY <1>2, OffsetIs
<1> QED BY <1>2, <1>3, <1>4 DEF ScreenTypeOK, Backspace, UpdateCursor

Glyphs == Typed \cup {Prompt, Message}

LEMMA PrintNextType ==
  ASSUME ScreenTypeOK(Glyphs), PrintNext
  PROVE  ScreenTypeOK(Glyphs)'
<1>1. Blank \in Glyphs /\ Message \in Glyphs
  BY DEF Glyphs, Typed
<1> QED BY <1>1, NewlineType, BackspaceType, ClearType, PutCharAtType, PutCharType
        DEF PrintNext, Glyphs

-----------------------------------------------------------------------------
(* Type correctness. *)
Marks == Typed \cup {Prompt, Message, EndOfLine, Rub, Wipe, Ink}

TextsTyped ==
  /\ out \in Seq(Marks)
  /\ mode \in {"command", "editor", "app"}
  /\ buffer \in Seq(Typed) /\ Len(buffer) <= MaxText
  /\ editor_buffer \in Texts /\ file \in Texts
  /\ save_pending \in BOOLEAN
  /\ fresh \in Nat /\ fresh <= Len(editor_buffer)

LEMMA Printed ==
  /\ Println \in Seq(Marks)
  /\ <<Prompt>> \in Seq(Marks) /\ <<EndOfLine>> \in Seq(Marks)
  /\ <<EndOfLine, Prompt>> \in Seq(Marks) /\ <<EndOfLine, Wipe, Prompt>> \in Seq(Marks)
  /\ <<EndOfLine, Wipe>> \in Seq(Marks) /\ <<EndOfLine, Wipe, Ink>> \in Seq(Marks)
  /\ <<EndOfLine, EndOfLine>> \in Seq(Marks)
  /\ <<Wipe>> \in Seq(Marks) /\ <<>> \in Seq(Marks) /\ <<Rub>> \in Seq(Marks)
  /\ \A c \in Typed : <<c>> \in Seq(Marks)
  /\ \A t \in Texts : t \in Seq(Marks)
  /\ \A s \in Seq(Marks), t \in Seq(Marks) : s \o t \in Seq(Marks)
<1>1. {Prompt, Message, EndOfLine, Rub, Wipe, Ink} \subseteq Marks /\ Typed \subseteq Marks
  BY DEF Marks
<1>2. \A t \in Texts : t \in Seq(Marks)
  <2> TAKE t \in Texts
  <2>1. t \in Seq(Letterings) /\ Letterings \subseteq Marks
    BY <1>1, TextsAre DEF Letterings
  <2> HIDE DEF Letterings, Marks
  <2> QED BY <2>1
<1> HIDE DEF Marks
<1> QED BY <1>1, <1>2 DEF Println

LEMMA TextsKept ==
  /\ <<>> \in Texts /\ WriteQuit \in Texts /\ Quit \in Texts
  /\ \A t \in Texts, c \in Letterings : Len(t) < MaxText => Append(t, c) \in Texts
  /\ \A t \in Texts : /\ t # <<>> => Front(t) \in Texts
                      /\ Popped(t) \in Texts
                      /\ Len(CurrentLine(t)) \in Nat /\ Len(CurrentLine(t)) <= Len(t)
<1>1. <<>> \in Texts /\ WriteQuit \in Texts /\ Quit \in Texts
  <2>1. Letters \subseteq Letterings
    BY DEF Letterings, Typed
  <2>2. <<>> \in Seq(Letterings) /\ WriteQuit \in Seq(Letterings) /\ Quit \in Seq(Letterings)
    BY <2>1, CommandAssumption
  <2>3. Len(<<>>) <= MaxText
    BY TextAssumption
  <2> QED BY <2>2, <2>3, TextsAre, TextAssumption
<1>2. ASSUME NEW t \in Texts, NEW c \in Letterings, Len(t) < MaxText
      PROVE  Append(t, c) \in Texts
  <2>1. t \in Seq(Letterings) /\ Len(t) \in Nat /\ MaxText \in Nat
    BY TextsAre, TextAssumption
  <2>2. Append(t, c) \in Seq(Letterings) /\ Len(Append(t, c)) <= MaxText
    BY <1>2, <2>1
  <2> QED BY <2>2, TextsAre
<1>3. ASSUME NEW t \in Texts
      PROVE  /\ t # <<>> => Front(t) \in Texts
             /\ Popped(t) \in Texts
             /\ Len(CurrentLine(t)) \in Nat /\ Len(CurrentLine(t)) <= Len(t)
  <2>1. t \in Seq(Letterings) /\ Len(t) \in Nat /\ MaxText \in Nat /\ Len(t) <= MaxText
    BY TextsAre, TextAssumption
  <2>2. ASSUME t # <<>> PROVE Front(t) \in Texts
    <3>1. Front(t) \in Seq(Letterings) /\ Len(Front(t)) = Len(t) - 1
      BY <2>1, <2>2, FrontIs
    <3>2. Len(Front(t)) <= MaxText
      BY <2>1, <3>1
    <3> QED BY <3>1, <3>2, TextsAre
  <2>3. Popped(t) \in Texts
    <3>1. Popped(t) \in Seq(Letterings) /\ Len(Popped(t)) <= Len(t)
      BY <2>1, PoppedIs
    <3>2. Len(Popped(t)) <= MaxText
      BY <2>1, <3>1
    <3> QED BY <3>1, <3>2, TextsAre
  <2>4. Len(CurrentLine(t)) \in Nat /\ Len(CurrentLine(t)) <= Len(t)
    <3>1. Starts(t, LineStart(t)) /\ Len(CurrentLine(t)) = Len(t) - LineStart(t)
      BY <2>1, LineStartIs, CurrentLineIs
    <3> QED BY <2>1, <3>1 DEF Starts
  <2> QED BY <2>2, <2>3, <2>4
<1> QED BY <1>1, <1>2, <1>3

LEMMA CommandTyped ==
  ASSUME TextsTyped, mode = "command", CommandKey
  PROVE  TextsTyped'
<1>t. out \in Seq(Marks) /\ buffer \in Seq(Typed) /\ Len(buffer) \in Nat /\ MaxText \in Nat
  BY TextAssumption DEF TextsTyped
<1>e. Len(editor_buffer) \in Nat
  BY TextsAre DEF TextsTyped
<1>0. <<>> \in Seq(Typed) /\ Len(<<>>) <= MaxText
  BY <1>t
<1>1. ASSUME NEW c \in Typed, CommandChar(c) PROVE TextsTyped'
  <2>1. Append(buffer, c) \in Seq(Typed) /\ Len(Append(buffer, c)) = Len(buffer) + 1
    BY <1>t
  <2>2. buffer' \in Seq(Typed) /\ Len(buffer') <= MaxText
    BY <1>t, <1>1, <2>1 DEF CommandChar
  <2> QED BY <1>1, <2>2, Printed DEF CommandChar, Key, TextsTyped
<1>2. CASE CommandBackspace
  <2>1. Front(buffer) \in Seq(Typed) /\ Len(Front(buffer)) = Len(buffer) - 1
    BY <1>t, <1>2, FrontIs DEF CommandBackspace
  <2>2. buffer' \in Seq(Typed) /\ Len(buffer') <= MaxText
    BY <1>t, <1>2, <2>1 DEF CommandBackspace, TextsTyped
  <2> QED BY <1>2, <2>2, Printed DEF CommandBackspace, Key, TextsTyped
<1>3. CASE CommandEscape
  BY <1>0, <1>3, Printed DEF CommandEscape, Key, TextsTyped
<1>4. CASE CommandEnter
  <2>1. buffer' \in Seq(Typed) /\ Len(buffer') <= MaxText
    BY <1>0, <1>4 DEF CommandEnter
  <2>7. /\ <<EndOfLine>> \o Println \o <<Prompt>> \in Seq(Marks)
        /\ <<EndOfLine, Wipe>> \o Println \o file \in Seq(Marks)
    BY Printed DEF TextsTyped
  <2>2. out' \in Seq(Marks)
    BY <1>4, <2>7, Printed DEF CommandEnter, Key
  <2>3. \A w \in Words : w \in Texts
    BY TextsKept DEF Words
  <2>4. file' \in Texts
    BY <1>4, <2>3 DEF CommandEnter, TextsTyped
  <2>5. mode' \in {"command", "editor", "app"} /\ save_pending' \in BOOLEAN
    BY <1>4 DEF CommandEnter, TextsTyped
  <2>6. editor_buffer' \in Texts /\ fresh' \in Nat /\ fresh' <= Len(editor_buffer')
    BY <1>4, TextsKept DEF CommandEnter, TextsTyped
  <2> QED BY <2>1, <2>2, <2>4, <2>5, <2>6 DEF TextsTyped
<1> QED BY <1>1, <1>2, <1>3, <1>4 DEF CommandKey

LEMMA EditorTyped ==
  ASSUME TextsTyped, mode = "editor", EditorKey
  PROVE  TextsTyped'
<1>t. /\ editor_buffer \in Texts /\ editor_buffer \in Seq(Letterings)
      /\ Len(editor_buffer) \in Nat /\ MaxText \in Nat
      /\ fresh \in Nat /\ fresh <= Len(editor_buffer)
  BY TextAssumption, TextsAre DEF TextsTyped
<1>0. Len(<<>>) = 0 /\ <<>> \in Texts
  BY TextsKept
<1>l. ASSUME NEW printed \in Seq(Marks), Leave(printed), file' \in Texts, save_pending' \in BOOLEAN
      PROVE  TextsTyped'
  <2>1. fresh' \in Nat /\ fresh' <= Len(editor_buffer') /\ editor_buffer' \in Texts
    BY <1>0, <1>l DEF Leave
  <2> QED BY <1>l, <2>1 DEF Leave, Key, TextsTyped
<1>n. ASSUME Notice, save_pending' \in BOOLEAN PROVE TextsTyped'
  <2>1. fresh' \in Nat /\ fresh' <= Len(editor_buffer')
    BY <1>t, <1>n DEF Notice
  <2> QED BY <1>n, <2>1, Printed DEF Notice, Key, TextsTyped
<1>1. ASSUME NEW c \in Typed, EditorChar(c) PROVE TextsTyped'
  <2>1. editor_buffer' \in Texts /\ Len(editor_buffer') = Len(editor_buffer) + 1
    BY <1>t, <1>1, TextsKept DEF EditorChar, Letterings
  <2>2. fresh' \in Nat /\ fresh' <= Len(editor_buffer')
    BY <1>t, <1>1, <2>1 DEF EditorChar
  <2> QED BY <1>1, <2>1, <2>2, Printed DEF EditorChar, Key, TextsTyped
<1>2. CASE EditorBackspace
  <2>1. /\ editor_buffer' \in Texts /\ Len(editor_buffer') = Len(editor_buffer) - 1
        /\ Len(editor_buffer) \in Nat \ {0}
    BY <1>t, <1>2, TextsKept, FrontIs DEF EditorBackspace
  <2>2. fresh' \in Nat /\ fresh' <= Len(editor_buffer')
    BY <1>t, <1>2, <2>1 DEF EditorBackspace
  <2> QED BY <1>2, <2>1, <2>2, Printed DEF EditorBackspace, Key, TextsTyped
<1>3. CASE EditorEscape
  BY <1>3, <1>l, Printed DEF EditorEscape, TextsTyped
<1>4. CASE CtrlS
  BY <1>4, <1>n DEF CtrlS
<1>5. CASE CtrlK
  BY <1>5, <1>l, <1>n, Printed DEF CtrlK, TextsTyped
<1>6. CASE EditorEnter
  <2>1. CASE \E printed \in Seq(Marks) :
               Leave(printed) /\ file' \in {file, Popped(editor_buffer)}
               /\ UNCHANGED save_pending
    BY <1>l, <1>t, <2>1, TextsKept DEF TextsTyped
  <2>2. CASE /\ Len(editor_buffer) < MaxText
             /\ editor_buffer' = Append(editor_buffer, EndOfLine)
             /\ fresh' = 0
             /\ Key(<<EndOfLine>>)
             /\ UNCHANGED <<mode, buffer, save_pending, file>>
    <3>1. editor_buffer' \in Texts /\ Len(editor_buffer') \in Nat
      BY <1>t, <2>2, TextsKept DEF Letterings
    <3> QED BY <2>2, <3>1, Printed DEF Key, TextsTyped
  <2> QED BY <1>6, <2>1, <2>2, Printed DEF EditorEnter
<1> QED BY <1>1, <1>2, <1>3, <1>4, <1>5, <1>6 DEF EditorKey

TypeInv == ScreenTypeOK(Glyphs) /\ TextsTyped

LEMMA TypeStep == TypeInv /\ [TypingNext]_typing => TypeInv'
<1>. SUFFICES ASSUME TypeInv, [TypingNext]_typing PROVE TypeInv'
  OBVIOUS
<1>s. UNCHANGED screen => ScreenTypeOK(Glyphs)'
  BY DEF TypeInv, ScreenTypeOK, screen
<1>1. CASE PrintNext
  <2>1. Tail(out) \in Seq(Marks)
    BY <1>1 DEF PrintNext, TypeInv, TextsTyped
  <2>2. TextsTyped'
    BY <1>1, <2>1 DEF PrintNext, TypeInv, TextsTyped, text
  <2> QED BY <1>1, <2>2, PrintNextType DEF TypeInv
<1>2. CASE mode = "command" /\ CommandKey
  <2>1. UNCHANGED screen
    BY <1>2 DEF CommandKey, CommandChar, CommandBackspace, CommandEscape, CommandEnter, Key
  <2> QED BY <1>2, <1>s, <2>1, CommandTyped DEF TypeInv
<1>3. CASE mode = "editor" /\ EditorKey
  <2>1. UNCHANGED screen
    BY <1>3 DEF EditorKey, EditorChar, EditorBackspace, EditorEscape, CtrlS, CtrlK, EditorEnter,
                Leave, Notice, Key
  <2> QED BY <1>3, <1>s, <2>1, EditorTyped DEF TypeInv
<1>4. CASE AppLeave
  <2>1. UNCHANGED screen /\ out' \in Seq(Marks)
    BY <1>4, Printed DEF AppLeave, Key
  <2> QED BY <1>4, <1>s, <2>1 DEF TypeInv, TextsTyped, AppLeave
<1>5. CASE UNCHANGED typing
  BY <1>5, <1>s DEF typing, text, TypeInv, TextsTyped
<1> QED BY <1>1, <1>2, <1>3, <1>4, <1>5 DEF TypingNext

LEMMA TypeInit == TypingInit => TypeInv
<1>. SUFFICES ASSUME TypingInit PROVE TypeInv
  OBVIOUS
<1>1. 0 \in 0 .. Height - 1 /\ 0 \in 0 .. Width /\ 0 \in 0 .. Width * Height
  BY ScreenSize
<1>2. AllBlank \in [Cells -> Glyphs]
  BY DEF AllBlank, Glyphs, Typed
<1>3. ScreenTypeOK(Glyphs)
  BY <1>1, <1>2 DEF TypingInit, ScreenInit, ScreenTypeOK
<1>4. <<>> \in Seq(Typed) /\ Len(<<>>) <= MaxText /\ Len(<<>>) = 0
  BY TextAssumption
<1>5. TextsTyped
  <2>1. <<Prompt>> \in Seq(Marks) /\ <<>> \in Texts /\ 0 \in Nat /\ 0 <= Len(<<>>)
    BY <1>4, Printed, TextsKept
  <2> QED BY <1>4, <2>1 DEF TypingInit, TextsTyped
<1> QED BY <1>3, <1>5 DEF TypeInv

LEMMA TypeHolds == TypingSpec => []TypeInv
BY TypeInit, TypeStep, PTL DEF TypingSpec

\* The type invariant of Typing.
THEOREM TypingTypeCorrect == TypingSpec => []TypingTypeOK
<1>1. TypeInv => TypingTypeOK
  <2> SUFFICES ASSUME TypeInv PROVE TypingTypeOK
    OBVIOUS
  <2>1. fresh \in 0 .. MaxText
    BY TextsAre, TextAssumption DEF TypeInv, TextsTyped
  <2> QED BY <2>1 DEF TypeInv, TextsTyped, TypingTypeOK, Glyphs, Marks
<1> QED BY <1>1, TypeHolds, PTL

-----------------------------------------------------------------------------
(* The editor's commands. *)
LEMMA CommandsAre ==
  ASSUME NEW command \in {WriteQuit, Quit}
  PROVE  /\ command \in Seq(Letters) /\ Len(command) \in Nat \ {0}
         /\ \A i \in 1 .. Len(command) : command[i] # Blank /\ command[i] # EndOfLine
<1>1. command \in Seq(Letters) /\ command # <<>>
  BY CommandAssumption
<1>2. Len(command) \in Nat \ {0}
  BY <1>1
<1>3. \A i \in 1 .. Len(command) : command[i] \in Letters
  BY <1>1
<1>4. \A c \in Letters : c # Blank /\ c # EndOfLine
  BY CharacterAssumption DEF Typed
<1> QED BY <1>1, <1>2, <1>3, <1>4

\* The blanks around a command are what Trim takes off, and it takes off
\* nothing else.
LEMMA TrimmedLine ==
  ASSUME NEW T, NEW l \in Seq(T), IsCommandLine(l)
  PROVE  Trim(l) \in {WriteQuit, Quit}
<1>1. PICK command \in {WriteQuit, Quit}, k \in 0 .. Len(l) :
        /\ k + Len(command) <= Len(l)
        /\ \A i \in DOMAIN l :
             l[i] = IF i \in k + 1 .. k + Len(command) THEN command[i - k] ELSE Blank
  BY DEF IsCommandLine
<1> DEFINE inked == {i \in DOMAIN l : l[i] # Blank}
           n == Len(command)
<1>2. command \in Seq(Letters) /\ n \in Nat \ {0} /\ Len(command) = n /\ k \in Nat /\ Len(l) \in Nat
      /\ \A i \in 1 .. n : command[i] # Blank
  BY CommandsAre
<1>3. inked = k + 1 .. k + n
  <2>1. ASSUME NEW i \in k + 1 .. k + n PROVE i \in inked
    <3>1. i \in DOMAIN l /\ i - k \in 1 .. n
      BY <1>1, <1>2
    <3> QED BY <1>1, <1>2, <3>1
  <2>2. ASSUME NEW i \in inked PROVE i \in k + 1 .. k + n
    BY <1>1
  <2> HIDE DEF inked
  <2> QED BY <2>1, <2>2
<1>4. k + 1 .. k + n # {} /\ k + 1 .. k + n \subseteq Int
      /\ k + 1 \in k + 1 .. k + n /\ k + n \in k + 1 .. k + n
      /\ \A i \in k + 1 .. k + n : k + 1 <= i /\ i <= k + n
  <2> HIDE DEF n
  <2>1. k + 1 \in k + 1 .. k + n /\ k + n \in k + 1 .. k + n
    BY <1>2
  <2>2. k + 1 .. k + n \subseteq Int
    BY <1>2
  <2>3. \A i \in k + 1 .. k + n : k + 1 <= i /\ i <= k + n
    BY <1>2
  <2> QED BY <2>1, <2>2, <2>3
<1>5. Min(k + 1 .. k + n) = k + 1 /\ Max(k + 1 .. k + n) = k + n
  <2> DEFINE S == k + 1 .. k + n
             a == k + 1
             b == k + n
  <2>1. S \subseteq Int /\ a \in S /\ b \in S /\ \A i \in S : a <= i /\ i <= b
    BY <1>4
  <2> HIDE DEF S, a, b
  <2>2. Min(S) = a
    BY <2>1, MinIs
  <2>3. Max(S) = b
    BY <2>1, MaxIs
  <2> QED BY <2>2, <2>3 DEF S, a, b
<1>6. Trim(l) = SubSeq(l, k + 1, k + n)
  <2>1. inked # {} /\ Min(inked) = k + 1 /\ Max(inked) = k + n
    BY <1>3, <1>4, <1>5
  <2> HIDE DEF n
  <2> QED BY <2>1 DEF Trim
<1>7. SubSeq(l, k + 1, k + n) = command
  <2> HIDE DEF n
  <2>1. /\ SubSeq(l, k + 1, k + n) \in Seq(T)
        /\ Len(SubSeq(l, k + 1, k + n)) = n
        /\ \A i \in 1 .. n : SubSeq(l, k + 1, k + n)[i] = l[k + i]
    BY <1>1, <1>2 DEF n
  <2>2. ASSUME NEW i \in 1 .. n PROVE l[k + i] = command[i]
    <3>1. k + i \in DOMAIN l /\ k + i \in k + 1 .. k + n /\ k + i - k = i
      BY <1>1, <1>2 DEF n
    <3> QED BY <1>1, <3>1 DEF n
  <2>3. Len(command) = n /\ command \in Seq(Letters)
    BY <1>2 DEF n
  <2> DEFINE s == SubSeq(l, k + 1, k + n)
  <2>4. s \in Seq(T) /\ Len(s) = Len(command) /\ \A i \in 1 .. Len(s) : s[i] = command[i]
    BY <2>1, <2>2, <2>3
  <2> HIDE DEF s
  <2>5. s = command
    BY <2>3, <2>4
  <2> QED BY <2>5 DEF s
<1> QED BY <1>6, <1>7

LEMMA TrimmedCommand ==
  ASSUME NEW T, NEW l \in Seq(T), Trim(l) \in {WriteQuit, Quit}
  PROVE  IsCommandLine(l)
<1> DEFINE inked == {i \in DOMAIN l : l[i] # Blank}
           command == Trim(l)
<1>1. command \in {WriteQuit, Quit} /\ Len(command) \in Nat \ {0}
  BY CommandsAre
<1>2. inked # {}
  <2>1. inked = {} => command = <<>>
    BY DEF Trim
  <2>2. command # <<>>
    BY <1>1
  <2> QED BY <2>1, <2>2
<1>3. inked \in SUBSET (1 .. Len(l)) /\ Len(l) \in Nat
  OBVIOUS
<1> DEFINE a == Min(inked)
           b == Max(inked)
<1>4. a \in inked /\ b \in inked /\ \A i \in inked : a <= i /\ i <= b
  <2>1. inked \in SUBSET Nat
    BY <1>3
  <2> HIDE DEF inked
  <2>2. Min(inked) \in inked /\ \A i \in inked : Min(inked) <= i
    BY <1>2, <2>1, MinOfSome
  <2>3. Max(inked) \in inked /\ \A i \in inked : i <= Max(inked)
    BY <1>2, <1>3, MaxOfSome
  <2> QED BY <2>2, <2>3
<1>5. command = SubSeq(l, a, b)
  BY <1>2 DEF Trim
<1>6. a \in 1 .. Len(l) /\ b \in 1 .. Len(l) /\ a <= b
  <2> HIDE DEF a, b
  <2> QED BY <1>3, <1>4
<1>7. \A i \in DOMAIN l : i \notin a .. b => l[i] = Blank
  <2> SUFFICES ASSUME NEW i \in DOMAIN l, l[i] # Blank PROVE i \in a .. b
    OBVIOUS
  <2>1. i \in inked /\ i \in Nat
    OBVIOUS
  <2>2. a <= i /\ i <= b
    BY <1>4, <2>1
  <2> HIDE DEF a, b
  <2> QED BY <1>6, <2>1, <2>2
<1> HIDE DEF a, b, inked, command
<1>8. Len(command) = b - a + 1 /\ \A i \in 1 .. b - a + 1 : command[i] = l[a + i - 1]
  BY <1>3, <1>5, <1>6
<1> DEFINE k == a - 1
<1>9. k \in 0 .. Len(l) /\ k + Len(command) <= Len(l)
  BY <1>3, <1>6, <1>8
<1>10. ASSUME NEW i \in DOMAIN l
       PROVE  l[i] = IF i \in k + 1 .. k + Len(command) THEN command[i - k] ELSE Blank
  <2>1. k + 1 .. k + Len(command) = a .. b
    BY <1>6, <1>8
  <2>2. CASE i \in a .. b
    <3>1. i - k \in 1 .. b - a + 1 /\ a + (i - k) - 1 = i
      BY <1>6, <2>2
    <3> QED BY <1>8, <2>1, <2>2, <3>1
  <2>3. CASE i \notin a .. b
    BY <1>7, <2>1, <2>3
  <2> QED BY <2>2, <2>3
<1> HIDE DEF k
<1> QED BY <1>1, <1>9, <1>10 DEF IsCommandLine

LEMMA NoEmptyCommand == \A l : Len(l) = 0 => ~IsCommandLine(l)
<1>1. \A command \in {WriteQuit, Quit}, k \in 0 .. 0 : ~ (k + Len(command) <= 0)
  BY CommandsAre
<1> QED BY <1>1 DEF IsCommandLine

LEMMA SamePrefix ==
  ASSUME NEW T, NEW s \in Seq(T), NEW t \in Seq(T), NEW n \in 0 .. Len(s), n <= Len(t),
         \A i \in 1 .. n : s[i] = t[i]
  PROVE  SubSeq(s, 1, n) = SubSeq(t, 1, n)
<1>1. Len(s) \in Nat /\ Len(t) \in Nat /\ n \in 0 .. Len(t)
  OBVIOUS
<1> QED BY <1>1, PrefixType

\* Lines that are finished stay as they are when text is added, and there are
\* fewer of them when text is taken off.
LEMMA InsideOf ==
  ASSUME NEW T, NEW s \in Seq(T), NEW t \in Seq(T),
         NEW n \in 0 .. Len(s), n <= Len(t), \A i \in 1 .. n : s[i] = t[i],
         NEW j \in 1 .. n, s[j] = EndOfLine, IsCommandLine(CurrentLine(SubSeq(s, 1, j - 1)))
  PROVE  CommandInside(t)
<1>1. j - 1 \in 0 .. Len(s) /\ j - 1 <= Len(t) /\ \A i \in 1 .. j - 1 : s[i] = t[i]
  OBVIOUS
<1>2. SubSeq(s, 1, j - 1) = SubSeq(t, 1, j - 1)
  BY <1>1, SamePrefix
<1>3. j \in DOMAIN t /\ t[j] = EndOfLine
  OBVIOUS
<1> QED BY <1>2, <1>3 DEF CommandInside

LEMMA PrefixInside ==
  ASSUME NEW T, NEW t \in Seq(T), NEW k \in 0 .. Len(t), CommandInside(SubSeq(t, 1, k))
  PROVE  CommandInside(t)
<1> DEFINE s == SubSeq(t, 1, k)
<1>1. s \in Seq(T) /\ Len(s) = k /\ \A i \in 1 .. k : s[i] = t[i]
  BY PrefixType
<1>2. PICK j \in DOMAIN s : s[j] = EndOfLine /\ IsCommandLine(CurrentLine(SubSeq(s, 1, j - 1)))
  BY DEF CommandInside
<1> HIDE DEF s
<1>3. j \in 1 .. k /\ k \in 0 .. Len(s) /\ k <= Len(t)
  BY <1>1
<1> QED BY <1>1, <1>2, <1>3, InsideOf

LEMMA AppendInside ==
  ASSUME NEW T, NEW t \in Seq(T), NEW c \in T, CommandInside(Append(t, c))
  PROVE  CommandInside(t) \/ (c = EndOfLine /\ IsCommandLine(CurrentLine(t)))
<1> DEFINE s == Append(t, c)
           n == Len(t)
<1>1. s \in Seq(T) /\ Len(s) = n + 1 /\ s[n + 1] = c /\ n \in Nat
      /\ \A i \in 1 .. n : s[i] = t[i]
  OBVIOUS
<1>2. PICK j \in DOMAIN s : s[j] = EndOfLine /\ IsCommandLine(CurrentLine(SubSeq(s, 1, j - 1)))
  BY DEF CommandInside
<1>3. SubSeq(s, 1, n) = t
  BY <1>1
<1> HIDE DEF s
<1>4. CASE j \in 1 .. n
  <2>1. n \in 0 .. Len(s) /\ n <= Len(t)
    BY <1>1
  <2> QED BY <1>1, <1>2, <1>4, <2>1, InsideOf
<1>5. CASE j = n + 1
  <2>1. j - 1 = n
    BY <1>1, <1>5
  <2> QED BY <1>1, <1>2, <1>3, <1>5, <2>1
<1>6. j \in 1 .. n \/ j = n + 1
  BY <1>1
<1> QED BY <1>4, <1>5, <1>6

LEMMA WordsInside ==
  ASSUME NEW w \in Words
  PROVE  ~CommandInside(w)
<1>1. \A i \in DOMAIN w : w[i] # EndOfLine
  <2>1. CASE w \in {WriteQuit, Quit}
    BY <2>1, CommandsAre
  <2>2. CASE w = <<>>
    BY <2>2
  <2> QED BY <2>1, <2>2 DEF Words
<1> QED BY <1>1 DEF CommandInside

LEMMA InsideStep == TypeInv /\ NoCommandLineInside /\ [TypingNext]_typing => NoCommandLineInside'
<1>. SUFFICES ASSUME TypeInv, NoCommandLineInside, [TypingNext]_typing
              PROVE  ~CommandInside(editor_buffer') /\ ~CommandInside(file')
  BY DEF NoCommandLineInside, CommandInside
<1>t. /\ editor_buffer \in Seq(Letterings) /\ file \in Seq(Letterings)
      /\ ~CommandInside(editor_buffer) /\ ~CommandInside(file)
      /\ \A w \in Words : ~CommandInside(w)
      /\ ~CommandInside(<<>>)
  <2>1. \A w \in Words : ~CommandInside(w)
    BY WordsInside
  <2>2. <<>> \in Words
    BY DEF Words
  <2> QED BY <2>1, <2>2, TextsAre DEF TypeInv, TextsTyped, NoCommandLineInside
<1>p. ~CommandInside(Popped(editor_buffer))
  BY <1>t, PoppedIs, PrefixInside DEF Popped
<1>1. CASE PrintNext
  BY <1>1, <1>t DEF PrintNext, text
<1>2. CASE mode = "command" /\ CommandKey
  BY <1>2, <1>t DEF CommandKey, CommandChar, CommandBackspace, CommandEscape, CommandEnter
<1>3. CASE mode = "editor" /\ EditorKey
  <2>1. ASSUME NEW c \in Typed, EditorChar(c)
        PROVE  ~CommandInside(editor_buffer') /\ ~CommandInside(file')
    <3>1. c \in Letterings /\ c # EndOfLine
      BY CharacterAssumption DEF Letterings
    <3>2. ~CommandInside(Append(editor_buffer, c))
      BY <1>t, <3>1, AppendInside
    <3> QED BY <1>t, <2>1, <3>2 DEF EditorChar
  <2>2. CASE EditorBackspace
    <3>1. Len(editor_buffer) - 1 \in 0 .. Len(editor_buffer)
          /\ Front(editor_buffer) = SubSeq(editor_buffer, 1, Len(editor_buffer) - 1)
      BY <1>t, <2>2, FrontIs DEF EditorBackspace
    <3>2. ~CommandInside(Front(editor_buffer))
      BY <1>t, <3>1, PrefixInside
    <3> QED BY <1>t, <2>2, <3>2 DEF EditorBackspace
  <2>3. CASE EditorEscape \/ CtrlS \/ CtrlK
    BY <1>t, <2>3 DEF EditorEscape, CtrlS, CtrlK, Leave, Notice
  <2>4. CASE EditorEnter
    <3>1. CASE file' \in {file, Popped(editor_buffer)} /\ editor_buffer' = <<>>
      BY <1>t, <1>p, <3>1
    <3>2. CASE /\ Trim(LastLine(editor_buffer)) \notin {WriteQuit, Quit}
               /\ editor_buffer' = Append(editor_buffer, EndOfLine)
               /\ UNCHANGED file
      <4>1. ~IsCommandLine(CurrentLine(editor_buffer))
        <5>1. CASE editor_buffer # <<>> /\ Last(editor_buffer) = EndOfLine
          <6>3. /\ Len(editor_buffer) \in Nat \ {0}
                /\ Last(editor_buffer) = editor_buffer[Len(editor_buffer)]
            BY <1>t, <5>1, FrontIs
          <6>1. Starts(editor_buffer, Len(editor_buffer))
            BY <5>1, <6>3 DEF Starts
          <6>2. Len(CurrentLine(editor_buffer)) = 0
            BY <1>t, <6>1, StartsOnce, CurrentLineIs
          <6> QED BY <6>2, NoEmptyCommand
        <5>2. CASE ~ (editor_buffer # <<>> /\ Last(editor_buffer) = EndOfLine)
          <6>1. LastLine(editor_buffer) = CurrentLine(editor_buffer)
            BY <5>2 DEF LastLine
          <6> QED BY <1>t, <3>2, <6>1, CurrentLineIs, TrimmedLine
        <5> QED BY <5>1, <5>2
      <4>2. EndOfLine \in Letterings
        BY DEF Letterings
      <4>3. ~CommandInside(Append(editor_buffer, EndOfLine))
        BY <1>t, <4>1, <4>2, AppendInside
      <4> QED BY <1>t, <3>2, <4>3
    <3> QED BY <2>4, <3>1, <3>2 DEF EditorEnter, Leave
  <2> QED BY <1>3, <2>1, <2>2, <2>3, <2>4 DEF EditorKey
<1>4. CASE AppLeave
  BY <1>4, <1>t DEF AppLeave
<1>5. CASE UNCHANGED typing
  BY <1>5, <1>t DEF typing, text
<1> QED BY <1>1, <1>2, <1>3, <1>4, <1>5 DEF TypingNext

\* No text and no file ever has a line that is a command of the editor and is
\* followed by another line.
THEOREM NeverCommandLineInside == TypingSpec => []NoCommandLineInside
<1>1. TypingInit => NoCommandLineInside
  <2> SUFFICES ASSUME TypingInit PROVE NoCommandLineInside
    OBVIOUS
  <2>1. ~CommandInside(<<>>)
    BY WordsInside DEF Words
  <2> QED BY <2>1 DEF TypingInit, NoCommandLineInside
<1> QED BY <1>1, InsideStep, TypeHolds, PTL DEF TypingSpec

\* Only the last line is a command, so :wq takes off that line and no more.
LEMMA PoppedLine ==
  ASSUME NEW T, NEW t \in Seq(T), ~CommandInside(t), Trim(LastLine(t)) \in {WriteQuit, Quit}
  PROVE  Popped(t) = FinishedLines(t)
<1>1. IsCommandLine(LastLine(t))
  BY LastLineIs, TrimmedCommand
<1>2. ~ (t # <<>> /\ Last(t) = EndOfLine)
  <2> SUFFICES ASSUME t # <<>>, Last(t) = EndOfLine PROVE FALSE
    OBVIOUS
  <2>1. LastLine(t) = CurrentLine(SubSeq(t, 1, Len(t) - 1))
    BY FrontIs DEF LastLine
  <2>2. Len(t) \in Nat \ {0} /\ Last(t) = t[Len(t)]
    BY FrontIs
  <2>3. Len(t) \in DOMAIN t /\ t[Len(t)] = EndOfLine
    BY <2>2
  <2> QED BY <1>1, <2>1, <2>3 DEF CommandInside
<1>3. LastLine(t) = CurrentLine(t)
  BY <1>2 DEF LastLine
<1>4. Len(t) - (Len(t) - LineStart(t)) = LineStart(t)
  <2>1. LineStart(t) \in Nat /\ Len(t) \in Nat
    BY LineStartIs DEF Starts
  <2> QED BY <2>1
<1> QED BY <1>3, <1>4, CurrentLineIs DEF Popped, FinishedLines

\* A text that is saved by :wq is saved up to the line of the command.
THEOREM AlwaysSavesUpToTheCommand == TypingSpec => SavesUpToTheCommand
<1>1. TypeInv /\ NoCommandLineInside /\ EditorEnter
        => file' \in {file, FinishedLines(editor_buffer)}
  <2> SUFFICES ASSUME TypeInv, NoCommandLineInside, EditorEnter
               PROVE  file' \in {file, FinishedLines(editor_buffer)}
    OBVIOUS
  <2>1. editor_buffer \in Seq(Letterings) /\ ~CommandInside(editor_buffer)
    BY TextsAre DEF TypeInv, TextsTyped, NoCommandLineInside
  <2>2. Trim(LastLine(editor_buffer)) = WriteQuit => Popped(editor_buffer) = FinishedLines(editor_buffer)
    BY <2>1, PoppedLine
  <2> QED BY <2>2 DEF EditorEnter
<1> QED BY <1>1, TypeHolds, NeverCommandLineInside, PTL DEF TypingSpec, SavesUpToTheCommand

-----------------------------------------------------------------------------
(* The screen is the end of a roll of paper. *)
RowOf(r, f) == [c \in 1 .. Width |-> f[Offset(r, c - 1)]]
RowsOf(n, f) == [r \in 1 .. n |-> RowOf(r - 1, f)]
LineOf(n, k, f) == [c \in 1 .. k |-> f[Offset(n, c - 1)]]

LEMMA InRow ==
  ASSUME NEW r \in 0 .. Height - 1, NEW c \in 1 .. Width
  PROVE  /\ Offset(r, c - 1) \in Cells /\ Offset(r, c - 1) \in Nat
         /\ Offset(r, c - 1) = r * Width + c - 1
         /\ r * Width \in Nat /\ (r + 1) * Width = r * Width + Width
<1>1. c - 1 \in 0 .. Width /\ c - 1 < Width /\ Width \in Nat
  BY SizeAssumption
<1>2. /\ Offset(r, c - 1) \in Cells /\ Offset(r, c - 1) \in 0 .. Width * Height
      /\ Offset(r, c - 1) = r * Width + (c - 1)
      /\ r * Width \in Nat /\ (r + 1) * Width = r * Width + Width
  BY <1>1, OffsetIs
<1> DEFINE a == r * Width
<1>3. a + (c - 1) = a + c - 1
  BY <1>2
<1> QED BY <1>2, <1>3

\* Of two rows, what is in the one above has the smaller offsets.
LEMMA RowBefore ==
  ASSUME NEW n \in 0 .. Height, NEW r \in 1 .. n, NEW c \in 1 .. Width
  PROVE  /\ n * Width \in Nat
         /\ Offset(r - 1, c - 1) \in 0 .. n * Width - 1
         /\ Offset(r - 1, c - 1) \in Cells
<1>1. PICK k \in Nat : n = r + k
  <2>1. n - r \in Nat /\ n = r + (n - r)
    BY SizeAssumption
  <2> QED BY <2>1
<1>2. r - 1 \in 0 .. Height - 1 /\ r - 1 + 1 = r
  BY SizeAssumption
<1>3. /\ Offset(r - 1, c - 1) \in Cells /\ Offset(r - 1, c - 1) = (r - 1) * Width + c - 1
      /\ (r - 1) * Width \in Nat /\ r * Width = (r - 1) * Width + Width
  BY <1>2, InRow
<1>4. n * Width = r * Width + k * Width /\ k * Width \in Nat
  BY <1>1, SizeAssumption
<1> DEFINE a == (r - 1) * Width
           b == k * Width
           total == n * Width
<1>5. total = a + Width + b /\ a \in Nat /\ b \in Nat /\ Width \in Nat
  BY <1>3, <1>4, SizeAssumption
<1>6. Offset(r - 1, c - 1) = a + c - 1
  BY <1>3
<1> HIDE DEF a, b, total
<1>7. total \in Nat /\ a + c - 1 \in 0 .. total - 1
  BY <1>5
<1> QED BY <1>3, <1>6, <1>7 DEF total

LEMMA RowsType ==
  ASSUME NEW S, NEW f \in [Cells -> S], NEW n \in 0 .. Height
  PROVE  /\ RowsOf(n, f) \in Seq(Seq(S)) /\ Len(RowsOf(n, f)) = n
         /\ \A r \in 1 .. n : RowsOf(n, f)[r] = RowOf(r - 1, f)
         /\ \A r \in 0 .. Height - 1 : /\ RowOf(r, f) \in Seq(S) /\ Len(RowOf(r, f)) = Width
                                       /\ \A c \in 1 .. Width : RowOf(r, f)[c] = f[Offset(r, c - 1)]
<1>1. ASSUME NEW r \in 0 .. Height - 1
      PROVE  /\ RowOf(r, f) \in Seq(S) /\ Len(RowOf(r, f)) = Width
             /\ \A c \in 1 .. Width : RowOf(r, f)[c] = f[Offset(r, c - 1)]
  <2>1. \A c \in 1 .. Width : f[Offset(r, c - 1)] \in S
    BY InRow
  <2>2. RowOf(r, f) \in [1 .. Width -> S] /\ Width \in Nat
    BY <2>1, SizeAssumption DEF RowOf
  <2>3. \A c \in 1 .. Width : RowOf(r, f)[c] = f[Offset(r, c - 1)]
    BY DEF RowOf
  <2> QED BY <2>2, <2>3
<1>2. \A r \in 1 .. n : RowOf(r - 1, f) \in Seq(S)
  <2> TAKE r \in 1 .. n
  <2>1. r - 1 \in 0 .. Height - 1
    BY SizeAssumption
  <2> QED BY <1>1, <2>1
<1>3. RowsOf(n, f) \in [1 .. n -> Seq(S)] /\ n \in Nat
  BY <1>2, SizeAssumption DEF RowsOf
<1>4. \A r \in 1 .. n : RowsOf(n, f)[r] = RowOf(r - 1, f)
  BY DEF RowsOf
<1> QED BY <1>1, <1>3, <1>4

\* s has the first k places of row n.
Copies(s, n, k, f) == Len(s) = k /\ \A c \in 1 .. k : s[c] = f[Offset(n, c - 1)]

LEMMA LineType ==
  ASSUME NEW S, NEW f \in [Cells -> S], NEW n \in 0 .. Height - 1, NEW k \in 0 .. Width
  PROVE  LineOf(n, k, f) \in Seq(S) /\ Copies(LineOf(n, k, f), n, k, f)
<1>1. \A c \in 1 .. k : f[Offset(n, c - 1)] \in S
  <2> TAKE c \in 1 .. k
  <2>1. c \in 1 .. Width
    BY SizeAssumption
  <2> QED BY <2>1, InRow
<1>2. LineOf(n, k, f) \in [1 .. k -> S] /\ k \in Nat
  BY <1>1, SizeAssumption DEF LineOf
<1> QED BY <1>2 DEF LineOf, Copies

LEMMA SameRows ==
  ASSUME NEW S, NEW f \in [Cells -> S], NEW g \in [Cells -> S], NEW n \in 0 .. Height,
         \A i \in 0 .. n * Width - 1 : i \in Cells => f[i] = g[i]
  PROVE  RowsOf(n, f) = RowsOf(n, g)
<1>1. \A r \in 1 .. n : RowOf(r - 1, f) = RowOf(r - 1, g)
  <2> TAKE r \in 1 .. n
  <2>1. \A c \in 1 .. Width : f[Offset(r - 1, c - 1)] = g[Offset(r - 1, c - 1)]
    BY RowBefore
  <2> QED BY <2>1 DEF RowOf
<1> QED BY <1>1 DEF RowsOf

LEMMA OneMoreRow ==
  ASSUME NEW S, NEW f \in [Cells -> S], NEW n \in 0 .. Height - 1
  PROVE  RowsOf(n + 1, f) = Append(RowsOf(n, f), RowOf(n, f))
<1> DEFINE s == RowsOf(n, f)
           t == RowsOf(n + 1, f)
           e == RowOf(n, f)
<1>1. n \in 0 .. Height /\ n + 1 \in 0 .. Height /\ n \in Nat /\ n + 1 - 1 = n
  BY SizeAssumption
<1>2. /\ s \in Seq(Seq(S)) /\ Len(s) = n
      /\ \A r \in 1 .. n : s[r] = RowOf(r - 1, f)
      /\ e \in Seq(S)
  BY <1>1, RowsType
<1>3. /\ t \in Seq(Seq(S)) /\ Len(t) = n + 1
      /\ \A r \in 1 .. n + 1 : t[r] = RowOf(r - 1, f)
  BY <1>1, RowsType
<1> HIDE DEF s, t
<1>4. t[n + 1] = e
  BY <1>1, <1>3
<1>5. \A r \in 1 .. n : t[r] = s[r]
  BY <1>1, <1>2, <1>3
<1> HIDE DEF e
<1>6. t = Append(s, e)
  BY <1>1, <1>2, <1>3, <1>4, <1>5
<1> QED BY <1>6 DEF s, t, e

\* A screen that is moved up loses its first row.
LEMMA MovedUp ==
  ASSUME NEW S, NEW f \in [Cells -> S], NEW g \in [Cells -> S], NEW n \in 0 .. Height - 1,
         \A i \in Cells : i + Width \in Cells => g[i] = f[i + Width]
  PROVE  RowsOf(n, g) = Tail(RowsOf(n + 1, f))
<1> DEFINE s == RowsOf(n, g)
           t == RowsOf(n + 1, f)
<1>1. n \in 0 .. Height /\ n + 1 \in 0 .. Height /\ n \in Nat
  BY SizeAssumption
<1>2. /\ s \in Seq(Seq(S)) /\ Len(s) = n
      /\ \A r \in 1 .. n : s[r] = RowOf(r - 1, g)
  BY <1>1, RowsType
<1>3. /\ t \in Seq(Seq(S)) /\ Len(t) = n + 1
      /\ \A r \in 1 .. n + 1 : t[r] = RowOf(r - 1, f)
  BY <1>1, RowsType
<1>4. ASSUME NEW r \in 1 .. n PROVE RowOf(r - 1, g) = RowOf(r, f)
  <2>1. r - 1 \in 0 .. Height - 1 /\ r \in 0 .. Height - 1 /\ r - 1 + 1 = r
    BY SizeAssumption
  <2>2. ASSUME NEW c \in 1 .. Width
        PROVE  g[Offset(r - 1, c - 1)] = f[Offset(r, c - 1)]
    <3>1. /\ Offset(r - 1, c - 1) \in Cells /\ Offset(r - 1, c - 1) = (r - 1) * Width + c - 1
          /\ r * Width = (r - 1) * Width + Width /\ (r - 1) * Width \in Nat
      BY <2>1, InRow
    <3>2. Offset(r, c - 1) \in Cells /\ Offset(r, c - 1) = r * Width + c - 1
      BY <2>1, InRow
    <3>3. Offset(r, c - 1) = Offset(r - 1, c - 1) + Width
      BY <3>1, <3>2, SizeAssumption
    <3> QED BY <3>1, <3>2, <3>3
  <2> QED BY <2>2 DEF RowOf
<1> HIDE DEF s, t
<1>5. Tail(t) \in Seq(Seq(S)) /\ Len(Tail(t)) = n /\ \A r \in 1 .. n : Tail(t)[r] = t[r + 1]
  <2>1. /\ Len(t) = n + 1 /\ t # <<>>
        /\ Tail(t) \in Seq(Seq(S)) /\ Len(Tail(t)) = Len(t) - 1
    BY <1>1, <1>3
  <2>2. \A r \in 1 .. Len(t) - 1 : Tail(t)[r] = t[r + 1]
    BY <1>3
  <2> QED BY <1>1, <2>1, <2>2
<1>6. \A r \in 1 .. n : t[r + 1] = s[r]
  <2> TAKE r \in 1 .. n
  <2>1. r + 1 \in 1 .. n + 1 /\ r + 1 - 1 = r
    BY <1>1
  <2> QED BY <1>2, <1>3, <1>4, <2>1
<1>7. s = Tail(t)
  BY <1>2, <1>5, <1>6
<1> QED BY <1>7 DEF s, t

\* Nothing is written beyond the place of the next character.
Clean == \A i \in Cells : Place <= i => cells[i] = Blank

LEMMA RowsAre ==
  /\ Rows = RowsOf(row, cells) /\ Line = LineOf(row, column, cells)
  /\ Rows' = RowsOf(row', cells') /\ Line' = LineOf(row', column', cells')
BY DEF Rows, Line, RowsOf, RowOf, LineOf

LEMMA ScreenFacts ==
  ASSUME NEW S, ScreenTypeOK(S)
  PROVE  /\ row \in 0 .. Height - 1 /\ row \in 0 .. Height /\ row \in Nat
         /\ column \in 0 .. Width /\ column \in Nat
         /\ cells \in [Cells -> S]
         /\ Rows \in Seq(Seq(S)) /\ Len(Rows) = row
         /\ Line \in Seq(S) /\ Len(Line) = column
         /\ Place \in Nat /\ Place = row * Width + column /\ row * Width \in Nat
<1>1. row \in 0 .. Height - 1 /\ row \in 0 .. Height /\ row \in Nat
      /\ column \in 0 .. Width /\ column \in Nat /\ cells \in [Cells -> S]
  BY SizeAssumption DEF ScreenTypeOK
<1>2. Rows \in Seq(Seq(S)) /\ Len(Rows) = row
  BY <1>1, RowsAre, RowsType
<1>3. Line \in Seq(S) /\ Len(Line) = column
  BY <1>1, RowsAre, LineType DEF Copies
<1>4. Place \in 0 .. Width * Height /\ Place = row * Width + column /\ row * Width \in Nat
  BY <1>1, OffsetIs DEF Place
<1> QED BY <1>1, <1>2, <1>3, <1>4, ScreenSize

LEMMA PaddedIs ==
  ASSUME NEW S, ScreenTypeOK(S), Clean \/ column = Width
  PROVE  Paper!Padded = RowOf(row, cells)
<1>1. ASSUME NEW c \in 1 .. Width
      PROVE  (IF c <= Len(Line) THEN Line[c] ELSE Blank) = cells[Offset(row, c - 1)]
  <2>1. CASE c <= column
    <3>1. c \in 1 .. column
      BY <2>1, ScreenFacts
    <3>2. Line[c] = cells[Offset(row, c - 1)]
      <4>1. Copies(LineOf(row, column, cells), row, column, cells)
        BY ScreenFacts, LineType
      <4> QED BY <3>1, <4>1, RowsAre DEF Copies
    <3> QED BY <2>1, <3>2, ScreenFacts
  <2>2. CASE ~ (c <= column)
    <3>1. c \in Nat /\ column \in Nat /\ Width \in Nat /\ column # Width
      BY <2>2, ScreenFacts, SizeAssumption
    <3>2. Offset(row, c - 1) \in Cells /\ Offset(row, c - 1) = row * Width + c - 1
      BY ScreenFacts, InRow
    <3>3. Place <= Offset(row, c - 1)
      <4>1. row * Width \in Nat /\ Place = row * Width + column
        BY ScreenFacts
      <4> DEFINE a == row * Width
      <4> HIDE DEF a
      <4>2. Place = a + column /\ a \in Nat /\ Offset(row, c - 1) = a + c - 1
        BY <3>2, <4>1 DEF a
      <4> QED BY <2>2, <3>1, <4>2
    <3> QED BY <2>2, <3>1, <3>2, <3>3, ScreenFacts DEF Clean
  <2> QED BY <2>1, <2>2
<1> QED BY <1>1 DEF Paper!Padded, RowOf

LEMMA FinishedIs ==
  ASSUME NEW S, Blank \in S, ScreenTypeOK(S), Clean \/ column = Width
  PROVE  Paper!Finished = RowsOf(NewlineRow, NewlineCells)
<1>1. Append(Rows, Paper!Padded) = RowsOf(row + 1, cells)
  BY PaddedIs, ScreenFacts, RowsAre, OneMoreRow
<1>2. CASE row < Height - 1
  <2>1. NewlineRow = row + 1 /\ NewlineCells = cells
    BY <1>2 DEF NewlineRow, NewlineCells
  <2>2. Len(Rows) < Height - 1
    BY <1>2, ScreenFacts
  <2> QED BY <1>1, <2>1, <2>2 DEF Paper!Finished
<1>3. CASE ~ (row < Height - 1)
  <2>1. NewlineRow = Height - 1 /\ NewlineCells = Scrolled
    BY <1>3 DEF NewlineRow, NewlineCells
  <2>2. ~ (Len(Rows) < Height - 1)
    BY <1>3, ScreenFacts
  <2>3. row = Height - 1
    <3>1. row \in 0 .. Height - 1 /\ Height \in Nat
      BY SizeAssumption, ScreenFacts DEF ScreenTypeOK
    <3> QED BY <1>3, <3>1
  <2>4. Scrolled \in [Cells -> S]
        /\ \A i \in Cells : i + Width \in Cells => Scrolled[i] = cells[i + Width]
    BY ScreenTypes DEF Scrolled
  <2>5. RowsOf(row, Scrolled) = Tail(RowsOf(row + 1, cells))
    BY <2>4, ScreenFacts, MovedUp
  <2> QED BY <1>1, <2>1, <2>2, <2>3, <2>5 DEF Paper!Finished
<1> QED BY <1>2, <1>3

LEMMA CaretIs ==
  ASSUME NEW S, ScreenTypeOK(S)', UpdateCursor
  PROVE  Paper!CaretFollows
<1>1. row' \in Nat /\ column' \in Nat /\ Len(Rows') = row' /\ Len(Line') = column'
  <2>1. row' \in 0 .. Height - 1 /\ row' \in 0 .. Height /\ column' \in 0 .. Width
        /\ cells' \in [Cells -> S]
    BY SizeAssumption DEF ScreenTypeOK
  <2>2. Len(Rows') = row'
    BY <2>1, RowsAre, RowsType
  <2>3. Len(Line') = column'
    BY <2>1, RowsAre, LineType DEF Copies
  <2> QED BY <2>1, <2>2, <2>3, SizeAssumption
<1>2. cursor' = row' * Width + column'
  BY DEF UpdateCursor, Offset
<1>3. row' * Width = Width * row'
  BY <1>1, SizeAssumption
<1> QED BY <1>1, <1>2, <1>3 DEF Paper!CaretFollows

LEMMA NoLine == \A n, f : LineOf(n, 0, f) = <<>> /\ RowsOf(0, f) = <<>>
BY DEF LineOf, RowsOf

LEMMA NewlineOnPaper ==
  ASSUME NEW S, Blank \in S, ScreenTypeOK(S), Clean, Newline
  PROVE  Paper!Newline /\ Clean'
<1>1. Paper!CaretFollows
  BY NewlineType, CaretIs DEF Newline
<1>2. Rows' = Paper!Finished
  BY FinishedIs, RowsAre DEF Newline
<1>3. Line' = <<>>
  BY NoLine, RowsAre DEF Newline
<1>4. Clean'
  <2> SUFFICES ASSUME NEW i \in Cells, Offset(row', column') <= i PROVE cells'[i] = Blank
    BY DEF Clean, Place
  <2>1. /\ row \in 0 .. Height - 1 /\ column \in 0 .. Width
        /\ Place = row * Width + column /\ Place \in Nat /\ row * Width \in Nat
        /\ (row + 1) * Width = row * Width + Width
        /\ i \in Nat /\ Width \in Nat
    BY ScreenFacts, OffsetIs, SizeAssumption, ScreenSize DEF Cells
  <2> DEFINE a == row * Width
  <2>2. CASE row < Height - 1
    <3>1. Offset(row', column') = (row + 1) * Width + 0 /\ cells' = cells
      BY <2>2 DEF Newline, NewlineRow, NewlineCells, Offset
    <3>2. /\ a + Width <= i /\ Place = a + column /\ a \in Nat
          /\ column \in 0 .. Width /\ i \in Nat /\ Width \in Nat
      BY <2>1, <3>1
    <3> HIDE DEF a
    <3>3. Place <= i
      BY <3>2
    <3> QED BY <3>1, <3>3 DEF Clean
  <2>3. CASE ~ (row < Height - 1)
    <3>1. Offset(row', column') = (Height - 1) * Width + 0 /\ cells' = Scrolled
      BY <2>3 DEF Newline, NewlineRow, NewlineCells, Offset
    <3> DEFINE b == (Height - 1) * Width
               total == Width * Height
    <3>2. b \in Nat /\ b <= i /\ b + Width = total
      BY <3>1, ScreenSize
    <3> HIDE DEF b, total
    <3>3. i + Width \notin 0 .. total - 1
      BY <2>1, <3>2
    <3> QED BY <3>1, <3>3 DEF Scrolled, Cells, total
  <2> QED BY <2>2, <2>3
<1> QED BY <1>1, <1>2, <1>3, <1>4 DEF Paper!Newline


LEMMA PutOnPaper ==
  ASSUME NEW S, Blank \in S, ScreenTypeOK(S), Clean, NEW ch \in S, PutChar(ch)
  PROVE  Paper!Put(ch) /\ Clean'
<1>1. Paper!CaretFollows
  BY PutCharType, CaretIs DEF PutChar
<1>2. /\ row \in 0 .. Height - 1 /\ column \in 0 .. Width /\ column \in Nat
      /\ cells \in [Cells -> S] /\ Width \in Nat \ {0} /\ Height \in Nat \ {0}
      /\ Place \in Nat /\ Len(Line) = column
  BY ScreenFacts, SizeAssumption
<1>3. CASE column >= Width
  <2>1. column = Width /\ Paper!Full
    BY <1>2, <1>3 DEF Paper!Full
  <2> DEFINE r == NewlineRow
             g == NewlineCells
             p == Offset(r, 0)
  <2>2. r \in 0 .. Height - 1 /\ r \in 0 .. Height /\ g \in [Cells -> S] /\ 0 < Width /\ 0 \in 0 .. Width
    BY <1>2, ScreenTypes
  <2>3. row' = r /\ cells' = [g EXCEPT ![p] = ch] /\ column' = 1
    BY <1>3 DEF PutChar
  <2> HIDE DEF r, g
  <2>4. p \in Cells /\ p = r * Width + 0 /\ r * Width \in Nat
    BY <2>2, OffsetIs
  <2>5. cells' \in [Cells -> S] /\ cells'[p] = ch /\ \A i \in Cells : i # p => cells'[i] = g[i]
    BY <2>2, <2>3, <2>4
  <2>6. RowsOf(r, cells') = RowsOf(r, g)
    <3>1. \A i \in 0 .. r * Width - 1 : i \in Cells => g[i] = cells'[i]
      BY <2>4, <2>5
    <3>2. RowsOf(r, g) = RowsOf(r, cells')
      BY <2>2, <2>5, <3>1, SameRows
    <3> QED BY <3>2
  <2>7. Rows' = Paper!Finished
    BY <2>1, <2>3, <2>6, FinishedIs, RowsAre DEF r, g
  <2>8. Line' = <<ch>>
    <3>1. 1 \in 0 .. Width /\ 1 - 1 = 0
      BY <1>2
    <3> DEFINE s == LineOf(r, 1, cells')
    <3>2. s \in Seq(S) /\ Copies(s, r, 1, cells')
      BY <2>2, <2>5, <3>1, LineType
    <3>3. Line' = s
      BY <2>3, RowsAre
    <3> HIDE DEF s
    <3>4. Len(s) = 1 /\ s[1] = ch
      BY <2>5, <3>1, <3>2 DEF Copies
    <3>5. s = <<ch>>
      BY <3>2, <3>4
    <3> QED BY <3>3, <3>5
  <2>9. Clean'
    <3> SUFFICES ASSUME NEW i \in Cells, Offset(r, 1) <= i PROVE cells'[i] = Blank
      BY <2>3 DEF Clean, Place
    <3>1. Offset(r, 1) = r * Width + 1 /\ i \in Nat
      BY DEF Offset, Cells
    <3>2. i # p /\ p <= i
      BY <2>4, <3>1
    <3>3. g[i] = Blank
      <4>1. CASE row < Height - 1
        <5>1. r = row + 1 /\ g = cells
          BY <4>1 DEF r, g, NewlineRow, NewlineCells
        <5>2. (row + 1) * Width = row * Width + Width /\ Place = row * Width + column
          BY <1>2, ScreenFacts, OffsetIs
        <5>3. Place = p
          BY <2>1, <2>4, <5>1, <5>2
        <5> QED BY <3>2, <5>1, <5>3 DEF Clean
      <4>2. CASE ~ (row < Height - 1)
        <5>1. r = Height - 1 /\ g = Scrolled
          BY <4>2 DEF r, g, NewlineRow, NewlineCells
        <5> DEFINE b == (Height - 1) * Width
                   total == Width * Height
        <5>2. b \in Nat /\ b + Width = total /\ p = b
          BY <2>4, <5>1, ScreenSize
        <5> HIDE DEF b, total
        <5>3. i + Width \notin 0 .. total - 1
          BY <1>2, <3>1, <3>2, <5>2
        <5> QED BY <5>1, <5>3 DEF Scrolled, Cells, total
      <4> QED BY <4>1, <4>2
    <3> QED BY <2>5, <3>2, <3>3
  <2> QED BY <1>1, <2>1, <2>7, <2>8, <2>9 DEF Paper!Put
<1>4. CASE ~ (column >= Width)
  <2>1. column < Width /\ ~Paper!Full
    BY <1>2, <1>4 DEF Paper!Full
  <2>2. row' = row /\ cells' = [cells EXCEPT ![Place] = ch] /\ column' = column + 1
    BY <1>4 DEF PutChar, Place
  <2>3. Place \in Cells /\ Place = row * Width + column /\ row * Width \in Nat
    BY <1>2, <2>1, OffsetIs DEF Place
  <2>4. cells' \in [Cells -> S] /\ cells'[Place] = ch /\ \A i \in Cells : i # Place => cells'[i] = cells[i]
    BY <1>2, <2>2, <2>3
  <2>5. Rows' = Rows
    <3>1. \A i \in 0 .. row * Width - 1 : i \in Cells => cells[i] = cells'[i]
      BY <1>2, <2>3, <2>4
    <3>2. RowsOf(row, cells) = RowsOf(row, cells')
      BY <1>2, <2>4, <3>1, ScreenFacts, SameRows
    <3> QED BY <2>2, <3>2, RowsAre
  <2>6. Line' = Append(Line, ch)
    <3> DEFINE k == column + 1
               s == LineOf(row, column, cells)
               t == LineOf(row, k, cells')
    <3>1. k \in 0 .. Width
      BY <1>2, <2>1
    <3>2. t \in Seq(S) /\ Copies(t, row, k, cells')
      BY <1>2, <2>4, <3>1, LineType
    <3>3. s \in Seq(S) /\ Copies(s, row, column, cells)
      BY <1>2, LineType
    <3>4. ASSUME NEW c \in 1 .. column PROVE cells'[Offset(row, c - 1)] = cells[Offset(row, c - 1)]
      <4>1. c \in 1 .. Width /\ c \in Nat /\ c <= column
        BY <1>2
      <4>2. Offset(row, c - 1) \in Cells /\ Offset(row, c - 1) = row * Width + c - 1
        BY <1>2, <4>1, InRow
      <4>3. Offset(row, c - 1) # Place
        BY <1>2, <2>3, <4>1, <4>2
      <4> QED BY <2>4, <4>2, <4>3
    <3>5. cells'[Offset(row, k - 1)] = ch
      <4>1. k - 1 = column
        BY <1>2
      <4> QED BY <2>4, <4>1 DEF Place
    <3> HIDE DEF s, t
    <3>6. Len(t) = column + 1 /\ t[column + 1] = ch
      <4>1. column + 1 \in 1 .. k
        BY <1>2
      <4> QED BY <3>2, <3>5, <4>1 DEF Copies
    <3>7. Len(s) = column /\ \A c \in 1 .. column : t[c] = s[c]
      <4>1. \A c \in 1 .. column : c \in 1 .. k
        BY <1>2
      <4> QED BY <3>2, <3>3, <3>4, <4>1 DEF Copies
    <3>8. t = Append(s, ch)
      BY <1>2, <3>2, <3>3, <3>6, <3>7
    <3> QED BY <2>2, <3>8, RowsAre DEF s, t
  <2>7. Clean'
    <3> SUFFICES ASSUME NEW i \in Cells, Offset(row, column + 1) <= i PROVE cells'[i] = Blank
      BY <2>2 DEF Clean, Place
    <3>1. Offset(row, column + 1) = row * Width + (column + 1) /\ i \in Nat
      BY DEF Offset, Cells
    <3>2. i # Place /\ Place <= i
      BY <1>2, <2>3, <3>1
    <3> QED BY <2>4, <3>2 DEF Clean
  <2> QED BY <1>1, <2>1, <2>5, <2>6, <2>7 DEF Paper!Put
<1> QED BY <1>3, <1>4

LEMMA PaperOperators == \A s : Paper!Front(s) = Front(s) /\ Paper!Last(s) = Last(s)
BY DEF Paper!Front, Paper!Last, Front, Last

\* Unless the screen is empty, the place before is emptied and becomes the next.
LEMMA BackspaceCell ==
  ASSUME NEW S, Blank \in S, ScreenTypeOK(S), Backspace, ~ (column = 0 /\ row = 0)
  PROVE  /\ row' \in 0 .. Height - 1 /\ column' \in 0 .. Width /\ column' < Width
         /\ Offset(row', column') \in Cells
         /\ Offset(row', column') = row' * Width + column' /\ row' * Width \in Nat
         /\ Offset(row', column') + 1 = Place
         /\ cells' \in [Cells -> S] /\ cells'[Offset(row', column')] = Blank
         /\ \A i \in Cells : i # Offset(row', column') => cells'[i] = cells[i]
<1>1. /\ row \in 0 .. Height - 1 /\ column \in 0 .. Width /\ column \in Nat /\ row \in Nat
      /\ cells \in [Cells -> S] /\ Width \in Nat \ {0} /\ Height \in Nat \ {0}
      /\ Place \in Nat
      /\ Place = row * Width + column /\ row * Width \in Nat
  BY ScreenFacts, SizeAssumption
<1>2. ~ (column = 0 /\ row = 0)
  OBVIOUS
<1> DEFINE p == Offset(row', column')
<1>3. /\ row' \in 0 .. Height - 1 /\ column' \in 0 .. Width /\ column' < Width
      /\ cells' = [cells EXCEPT ![p] = Blank]
  BY <1>1, <1>2 DEF Backspace
<1>4. p \in Cells /\ p = row' * Width + column' /\ row' * Width \in Nat
  BY <1>3, OffsetIs
<1>5. p + 1 = Place
  <2>1. CASE column > 0
    <3>1. row' = row /\ column' = column - 1
      BY <1>1, <2>1 DEF Backspace
    <3> QED BY <1>1, <1>4, <3>1
  <2>2. CASE column = 0
    <3>1. row' = row - 1 /\ column' = Width - 1 /\ row' + 1 = row
      BY <1>1, <1>2, <2>2 DEF Backspace
    <3>2. row * Width = row' * Width + Width
      BY <1>3, <3>1, OffsetIs
    <3> DEFINE a == row' * Width
    <3>3. p = a + Width - 1 /\ Place = a + Width /\ a \in Nat
      BY <1>1, <1>4, <2>2, <3>1, <3>2
    <3> HIDE DEF a, p
    <3> QED BY <1>1, <3>3
  <2> QED BY <1>1, <2>1, <2>2
<1>6. cells' \in [Cells -> S] /\ cells'[p] = Blank /\ \A i \in Cells : i # p => cells'[i] = cells[i]
  BY <1>1, <1>3, <1>4
<1> QED BY <1>3, <1>4, <1>5, <1>6

LEMMA BackspaceOnPaper ==
  ASSUME NEW S, Blank \in S, ScreenTypeOK(S), Clean, Backspace
  PROVE  Paper!Erase /\ Clean'
<1>1. Paper!CaretFollows
  BY BackspaceType, CaretIs DEF Backspace
<1>2. /\ row \in 0 .. Height - 1 /\ column \in 0 .. Width /\ column \in Nat /\ row \in Nat
      /\ cells \in [Cells -> S] /\ Width \in Nat \ {0} /\ Height \in Nat \ {0}
      /\ Place \in Nat /\ Line \in Seq(S) /\ Len(Line) = column
      /\ Rows \in Seq(Seq(S)) /\ Len(Rows) = row
      /\ Place = row * Width + column /\ row * Width \in Nat
  BY ScreenFacts, SizeAssumption
<1>3. CASE column = 0 /\ row = 0
  <2>1. Line = <<>> /\ Rows = <<>>
    BY <1>3, NoLine, RowsAre
  <2>2. UNCHANGED <<row, column, cells>>
    BY <1>3, <1>2 DEF Backspace
  <2>3. UNCHANGED <<Rows, Line>> /\ Clean'
    BY <2>2, RowsAre DEF Clean, Place
  <2> QED BY <1>1, <2>1, <2>3 DEF Paper!Erase
<1>4. CASE ~ (column = 0 /\ row = 0)
  <2> DEFINE p == Offset(row', column')
  <2>1. row' \in 0 .. Height - 1 /\ column' \in 0 .. Width /\ column' < Width
    BY <1>4, BackspaceCell
  <2>2. p \in Cells /\ p = row' * Width + column' /\ row' * Width \in Nat
    BY <1>4, BackspaceCell
  <2>3. p + 1 = Place
    BY <1>4, BackspaceCell
  <2>4. cells' \in [Cells -> S] /\ cells'[p] = Blank /\ \A i \in Cells : i # p => cells'[i] = cells[i]
    BY <1>4, BackspaceCell
  <2>5. Clean'
    <3> SUFFICES ASSUME NEW i \in Cells, p <= i PROVE cells'[i] = Blank
      BY DEF Clean, Place
    <3>1. i \in Nat /\ p \in Nat
      BY <2>2 DEF Cells
    <3>2. i # p => Place <= i
      BY <2>3, <3>1
    <3> QED BY <2>4, <3>2 DEF Clean
  <2>6. RowsOf(row', cells') = RowsOf(row', cells)
    <3>1. \A i \in 0 .. row' * Width - 1 : i \in Cells => cells[i] = cells'[i]
      BY <2>1, <2>2, <2>4
    <3>2. row' \in 0 .. Height
      BY <1>2, <2>1
    <3>3. RowsOf(row', cells) = RowsOf(row', cells')
      BY <1>2, <2>4, <3>1, <3>2, SameRows
    <3> QED BY <3>3
  <2>7. ASSUME NEW c \in 1 .. column'
        PROVE  /\ Offset(row', c - 1) \in Cells
               /\ cells'[Offset(row', c - 1)] = cells[Offset(row', c - 1)]
    <3>1. c \in 1 .. Width /\ c \in Nat /\ c <= column' /\ column' \in Nat
      BY <1>2, <2>1
    <3>2. Offset(row', c - 1) \in Cells /\ Offset(row', c - 1) = row' * Width + c - 1
      BY <2>1, <3>1, InRow
    <3>3. Offset(row', c - 1) # p
      BY <2>2, <3>1, <3>2
    <3> QED BY <2>4, <3>2, <3>3
  <2>8. /\ Line' \in Seq(S) /\ Len(Line') = column'
        /\ \A c \in 1 .. column' : Line'[c] = cells[Offset(row', c - 1)]
    <3>1. LineOf(row', column', cells') \in Seq(S)
          /\ Copies(LineOf(row', column', cells'), row', column', cells')
      BY <2>1, <2>4, LineType
    <3>2. Line' \in Seq(S) /\ Copies(Line', row', column', cells')
      BY <3>1, RowsAre
    <3> QED BY <2>7, <3>2 DEF Copies
  <2> HIDE DEF p
  <2>9. CASE column > 0
    <3>1. row' = row /\ column' = column - 1
      BY <1>2, <2>9 DEF Backspace
    <3>2. Rows' = Rows
      BY <2>6, <3>1, RowsAre
    <3>3. Line # <<>>
      BY <1>2, <2>9
    <3>4. Line' = Front(Line)
      <4>1. /\ Front(Line) \in Seq(S) /\ Len(Front(Line)) = column'
            /\ \A c \in 1 .. column' : Front(Line)[c] = Line[c]
        BY <1>2, <3>1, <3>3, FrontIs
      <4>2. ASSUME NEW c \in 1 .. column' PROVE Line[c] = cells[Offset(row', c - 1)]
        <5>1. c \in 1 .. column
          BY <1>2, <3>1
        <5>2. Copies(LineOf(row, column, cells), row, column, cells)
          BY <1>2, LineType
        <5> QED BY <3>1, <5>1, <5>2, RowsAre DEF Copies
      <4> DEFINE s == Line'
                 t == Front(Line)
      <4>3. /\ s \in Seq(S) /\ t \in Seq(S) /\ Len(s) = column' /\ Len(t) = column'
            /\ \A c \in 1 .. column' : s[c] = t[c]
        BY <2>8, <4>1, <4>2
      <4> HIDE DEF s, t
      <4>4. s = t
        BY <4>3
      <4> QED BY <4>4 DEF s, t
    <3>5. Paper!Erase
      BY <1>1, <3>2, <3>3, <3>4, PaperOperators DEF Paper!Erase
    <3> QED BY <2>5, <3>5
  <2>10. CASE column = 0
    <3>1. row' = row - 1 /\ column' = Width - 1 /\ row' + 1 = row /\ row # 0
      BY <1>2, <1>4, <2>10 DEF Backspace
    <3>2. Line = <<>> /\ Rows # <<>>
      <4>1. Line = <<>>
        BY <2>10, NoLine, RowsAre
      <4>2. Len(Rows) # 0
        BY <1>2, <3>1
      <4> QED BY <4>1, <4>2
    <3>3. Rows = Append(RowsOf(row', cells), RowOf(row', cells))
      BY <1>2, <2>1, <3>1, OneMoreRow, RowsAre
    <3>4. /\ RowsOf(row', cells) \in Seq(Seq(S)) /\ RowOf(row', cells) \in Seq(S)
          /\ Len(RowOf(row', cells)) = Width
          /\ \A c \in 1 .. Width : RowOf(row', cells)[c] = cells[Offset(row', c - 1)]
      <4>1. row' \in 0 .. Height
        BY <1>2, <2>1
      <4> QED BY <1>2, <2>1, <4>1, RowsType
    <3>5. \A s \in Seq(Seq(S)), e \in Seq(S) : Front(Append(s, e)) = s /\ Last(Append(s, e)) = e
      <4> SUFFICES ASSUME NEW T, NEW s \in Seq(T), NEW e \in T
                   PROVE  Front(Append(s, e)) = s /\ Last(Append(s, e)) = e
        OBVIOUS
      <4>1. Append(s, e) # <<>> /\ Append(s, e) \in Seq(T) /\ Len(Append(s, e)) = Len(s) + 1
            /\ Append(s, e)[Len(s) + 1] = e /\ SubSeq(Append(s, e), 1, Len(s)) = s
            /\ Len(s) + 1 - 1 = Len(s)
        OBVIOUS
      <4> QED BY <4>1 DEF Front, Last
    <3>6. Front(Rows) = RowsOf(row', cells) /\ Last(Rows) = RowOf(row', cells)
      BY <3>3, <3>4, <3>5
    <3>7. Rows' = Front(Rows)
      BY <2>6, <3>6, RowsAre
    <3>8. Line' = Front(Last(Rows))
      <4> DEFINE e == RowOf(row', cells)
      <4>1. e \in Seq(S) /\ Len(e) = Width /\ e # <<>>
        BY <1>2, <3>4
      <4>2. /\ Front(e) \in Seq(S) /\ Len(Front(e)) = Width - 1
            /\ \A c \in 1 .. Width - 1 : Front(e)[c] = e[c]
        BY <4>1, FrontIs
      <4>3. \A c \in 1 .. Width - 1 : e[c] = cells[Offset(row', c - 1)]
        BY <1>2, <3>4
      <4> DEFINE s == Line'
                 t == Front(e)
      <4>4. /\ s \in Seq(S) /\ t \in Seq(S) /\ Len(s) = column' /\ Len(t) = column'
            /\ \A c \in 1 .. column' : s[c] = t[c]
        BY <2>8, <3>1, <4>2, <4>3
      <4> HIDE DEF s, t
      <4>5. s = t
        BY <4>4
      <4> QED BY <3>6, <4>5 DEF s, t
    <3>9. Paper!Erase
      BY <1>1, <3>2, <3>7, <3>8, PaperOperators DEF Paper!Erase
    <3> QED BY <2>5, <3>9
  <2> QED BY <1>2, <2>9, <2>10
<1> QED BY <1>3, <1>4

LEMMA ClearOnPaper ==
  ASSUME Clear
  PROVE  Paper!Clear /\ Clean'
<1>1. Rows' = <<>> /\ Line' = <<>>
  BY NoLine, RowsAre DEF Clear
<1>2. cursor' = 0
  BY SizeAssumption DEF Clear, UpdateCursor, Offset
<1>3. Clean'
  BY DEF Clear, Clean, AllBlank
<1> QED BY <1>1, <1>2, <1>3 DEF Paper!Clear

-----------------------------------------------------------------------------
Inkless == Marks \ {Ink}

\* The screen is clean, or what a drawing application has drawn is about to be
\* wiped off; nothing else is drawn.
Drawing ==
  /\ mode # "app" => out \in Seq(Inkless)
  /\ mode = "app" => out \in {<<EndOfLine, Wipe, Ink>>, <<Wipe, Ink>>, <<Ink>>, <<>>}
  /\ mode = "app" /\ out \in {<<Ink>>, <<>>} => row = 0 /\ column = 0
  /\ ~Clean => /\ row = 0 /\ column = 0
               /\ IF out = <<>> THEN mode = "app" ELSE Head(out) = Wipe

LEMMA InklessPrinted ==
  /\ Println \in Seq(Inkless)
  /\ <<Prompt>> \in Seq(Inkless) /\ <<EndOfLine>> \in Seq(Inkless)
  /\ <<EndOfLine, Prompt>> \in Seq(Inkless) /\ <<EndOfLine, Wipe, Prompt>> \in Seq(Inkless)
  /\ <<EndOfLine, Wipe>> \in Seq(Inkless) /\ <<EndOfLine, EndOfLine>> \in Seq(Inkless)
  /\ <<Wipe>> \in Seq(Inkless) /\ <<>> \in Seq(Inkless) /\ <<Rub>> \in Seq(Inkless)
  /\ \A c \in Typed : <<c>> \in Seq(Inkless)
  /\ \A t \in Texts : t \in Seq(Inkless)
  /\ \A s \in Seq(Inkless), t \in Seq(Inkless) : s \o t \in Seq(Inkless)
<1>1. {Prompt, Message, EndOfLine, Rub, Wipe} \subseteq Inkless /\ Typed \subseteq Inkless
  BY CharacterAssumption DEF Inkless, Marks
<1>2. \A t \in Texts : t \in Seq(Inkless)
  <2> TAKE t \in Texts
  <2>1. t \in Seq(Letterings) /\ Letterings \subseteq Inkless
    BY <1>1, TextsAre DEF Letterings
  <2> HIDE DEF Letterings, Inkless
  <2> QED BY <2>1
<1> HIDE DEF Inkless
<1> QED BY <1>1, <1>2 DEF Println

LEMMA MarksDiffer ==
  /\ EndOfLine # Rub /\ EndOfLine # Wipe /\ EndOfLine # Ink
  /\ Rub # Wipe /\ Rub # Ink /\ Wipe # Ink
  /\ \A c \in Glyphs : c \notin {EndOfLine, Rub, Wipe, Ink}
BY CharacterAssumption DEF Glyphs

LEMMA AppPrints ==
  ASSUME NEW s \in {<<EndOfLine, Wipe, Ink>>, <<Wipe, Ink>>, <<Ink>>, <<>>}, s # <<>>
  PROVE  \/ Head(s) = EndOfLine /\ Tail(s) = <<Wipe, Ink>>
         \/ Head(s) = Wipe /\ Tail(s) = <<Ink>>
         \/ s = <<Ink>> /\ Head(s) = Ink /\ Tail(s) = <<>>
<1>1. \A a, b, c : Head(<<a, b, c>>) = a /\ Tail(<<a, b, c>>) = <<b, c>>
  <2> TAKE a, b, c
  <2> DEFINE t == Tail(<<a, b, c>>)
  <2>1. t \in Seq({a, b, c}) /\ Len(t) = 2 /\ t[1] = b /\ t[2] = c
    OBVIOUS
  <2> HIDE DEF t
  <2>2. t = <<b, c>>
    BY <2>1
  <2> QED BY <2>2 DEF t
<1>2. \A a, b : Head(<<a, b>>) = a /\ Tail(<<a, b>>) = <<b>>
  OBVIOUS
<1>3. \A a : Head(<<a>>) = a /\ Tail(<<a>>) = <<>>
  OBVIOUS
<1>4. CASE s = <<EndOfLine, Wipe, Ink>>
  <2>1. Head(s) = EndOfLine /\ Tail(s) = <<Wipe, Ink>>
    BY <1>1, <1>4
  <2> QED BY <2>1
<1>5. CASE s = <<Wipe, Ink>>
  <2>1. Head(s) = Wipe /\ Tail(s) = <<Ink>>
    BY <1>2, <1>5
  <2> QED BY <2>1
<1>6. CASE s = <<Ink>>
  <2>1. Head(s) = Ink /\ Tail(s) = <<>>
    BY <1>3, <1>6
  <2> QED BY <1>6, <2>1
<1> QED BY <1>4, <1>5, <1>6

\* One operation of the screen, as it looks on paper.
LEMMA PrintOnPaper ==
  ASSUME TypeInv, Drawing, PrintNext
  PROVE  /\ Drawing'
         /\ \/ \E c \in Typed \cup {Prompt, Message} : Paper!Put(c)
            \/ Paper!Newline \/ Paper!Erase \/ Paper!Clear
            \/ UNCHANGED Paper!vars
<1>t. ScreenTypeOK(Glyphs) /\ Blank \in Glyphs /\ out \in Seq(Marks) /\ out # <<>>
  BY DEF TypeInv, TextsTyped, PrintNext, Glyphs, Typed
<1>u. UNCHANGED text /\ mode' = mode /\ out' = Tail(out)
  BY DEF PrintNext, text
<1>d. ASSUME Clean', Head(out) # Ink,
             mode = "app" /\ Head(out) = Wipe => row' = 0 /\ column' = 0
      PROVE  Drawing'
  <2>1. CASE mode # "app"
    <3>1. Tail(out) \in Seq(Inkless)
      BY <1>t, <2>1 DEF Drawing
    <3> QED BY <1>d, <1>u, <2>1, <3>1 DEF Drawing
  <2>2. CASE mode = "app"
    <3>1. \/ Head(out) = EndOfLine /\ Tail(out) = <<Wipe, Ink>>
          \/ Head(out) = Wipe /\ Tail(out) = <<Ink>>
      BY <1>d, <1>t, <2>2, AppPrints DEF Drawing
    <3>2. <<Wipe, Ink>> \notin {<<Ink>>, <<>>}
      OBVIOUS
    <3>3. Tail(out) \in {<<Wipe, Ink>>, <<Ink>>}
      BY <3>1
    <3>4. Tail(out) \in {<<Ink>>, <<>>} => row' = 0 /\ column' = 0
      BY <1>d, <2>2, <3>1, <3>2
    <3> QED BY <1>d, <1>u, <2>2, <3>3, <3>4 DEF Drawing
  <2> QED BY <2>1, <2>2
<1>c. Head(out) # Wipe => Clean
  BY <1>t DEF Drawing
<1>1. CASE Head(out) = EndOfLine /\ Newline
  <2>1. Paper!Newline /\ Clean'
    BY <1>1, <1>c, <1>t, MarksDiffer, NewlineOnPaper
  <2> QED BY <1>1, <1>d, <2>1, MarksDiffer
<1>2. CASE Head(out) = Rub /\ Backspace
  <2>1. Paper!Erase /\ Clean'
    BY <1>2, <1>c, <1>t, MarksDiffer, BackspaceOnPaper
  <2> QED BY <1>2, <1>d, <2>1, MarksDiffer
<1>3. CASE Head(out) = Wipe /\ Clear
  <2>1. Paper!Clear /\ Clean' /\ row' = 0 /\ column' = 0
    BY <1>3, ClearOnPaper DEF Clear
  <2> QED BY <1>3, <1>d, <2>1, MarksDiffer
<1>4. CASE Head(out) = Ink /\ \E i \in Cells : PutCharAt(i \div Width, i % Width, Message)
  <2>1. mode = "app" /\ Tail(out) = <<>> /\ row = 0 /\ column = 0
    <3>1. mode = "app"
      <4>1. mode # "app" => Head(out) \in Inkless
        BY <1>t DEF Drawing
      <4> QED BY <1>4, <4>1 DEF Inkless
    <3>2. out = <<Ink>> /\ Tail(out) = <<>>
      BY <1>4, <1>t, <3>1, AppPrints, MarksDiffer DEF Drawing
    <3> QED BY <3>1, <3>2 DEF Drawing
  <2>2. UNCHANGED <<row, column, cursor>>
    BY <1>4 DEF PutCharAt
  <2>3. Rows' = <<>> /\ Line' = <<>> /\ Rows = <<>> /\ Line = <<>>
    BY <2>1, <2>2, NoLine, RowsAre
  <2>4. UNCHANGED Paper!vars
    BY <2>2, <2>3 DEF Paper!vars
  <2>5. Drawing'
    BY <1>u, <2>1, <2>2 DEF Drawing
  <2> QED BY <2>4, <2>5
<1>5. CASE Head(out) \in Typed \cup {Prompt, Message} /\ PutChar(Head(out))
  <2>1. Head(out) \in Glyphs /\ Head(out) \notin {EndOfLine, Rub, Wipe, Ink}
    BY <1>5, MarksDiffer DEF Glyphs
  <2>2. Paper!Put(Head(out)) /\ Clean'
    BY <1>5, <1>c, <1>t, <2>1, PutOnPaper
  <2> QED BY <1>5, <1>d, <2>1, <2>2
<1> QED BY <1>1, <1>2, <1>3, <1>4, <1>5 DEF PrintNext

\* Where no character is printed, the paper stays as it is.
LEMMA KeyOnPaper ==
  ASSUME Drawing, out = <<>>, UNCHANGED screen,
         \/ mode # "app" /\ mode' # "app" /\ out' \in Seq(Inkless)
         \/ mode # "app" /\ mode' = "app" /\ out' = <<EndOfLine, Wipe, Ink>>
         \/ mode = "app" /\ mode' # "app" /\ out' \in Seq(Inkless) /\ out' # <<>> /\ Head(out') = Wipe
  PROVE  Drawing' /\ UNCHANGED Paper!vars
<1>1. UNCHANGED <<row, column, cells, cursor>>
  BY DEF screen
<1>2. Clean' <=> Clean
  BY <1>1 DEF Clean, Place
<1>3. UNCHANGED Paper!vars
  BY <1>1, RowsAre DEF Paper!vars
<1>4. <<EndOfLine, Wipe, Ink>> \notin {<<Ink>>, <<>>}
  OBVIOUS
<1>5. mode # "app" => Clean
  BY DEF Drawing
<1> QED BY <1>1, <1>2, <1>3, <1>4, <1>5 DEF Drawing

LEMMA PaperStep ==
  ASSUME TypeInv, Drawing, [TypingNext]_typing
  PROVE  /\ Drawing'
         /\ \/ \E c \in Typed \cup {Prompt, Message} : Paper!Put(c)
            \/ Paper!Newline \/ Paper!Erase \/ Paper!Clear
            \/ UNCHANGED Paper!vars
<1>t. editor_buffer \in Texts /\ file \in Texts
  BY DEF TypeInv, TextsTyped
<1>1. CASE PrintNext
  BY <1>1, PrintOnPaper
<1>2. CASE mode = "command" /\ CommandKey
  <2>1. out = <<>> /\ UNCHANGED screen
    BY <1>2 DEF CommandKey, CommandChar, CommandBackspace, CommandEscape, CommandEnter, Key
  <2>2. /\ <<EndOfLine>> \o Println \o <<Prompt>> \in Seq(Inkless)
        /\ <<EndOfLine, Wipe>> \o Println \o file \in Seq(Inkless)
        /\ Println \o <<Prompt>> \in Seq(Inkless)
    BY <1>t, InklessPrinted
  <2>3. \/ mode' # "app" /\ out' \in Seq(Inkless)
        \/ mode' = "app" /\ out' = <<EndOfLine, Wipe, Ink>>
    BY <1>2, <2>2, InklessPrinted
       DEF CommandKey, CommandChar, CommandBackspace, CommandEscape, CommandEnter, Key
  <2> QED BY <1>2, <2>1, <2>3, KeyOnPaper
<1>3. CASE mode = "editor" /\ EditorKey
  <2>1. out = <<>> /\ UNCHANGED screen
    BY <1>3 DEF EditorKey, EditorChar, EditorBackspace, EditorEscape, CtrlS, CtrlK, EditorEnter,
                Leave, Notice, Key
  <2>2. /\ <<EndOfLine>> \o Println \in Seq(Inkless)
        /\ <<EndOfLine>> \o Println \o <<Prompt>> \in Seq(Inkless)
        /\ <<EndOfLine, EndOfLine>> \o Println \o <<Prompt>> \in Seq(Inkless)
        /\ Println \o <<Prompt>> \in Seq(Inkless)
    BY InklessPrinted
  <2>3. mode' # "app" /\ out' \in Seq(Inkless)
    BY <1>3, <2>2, InklessPrinted
       DEF EditorKey, EditorChar, EditorBackspace, EditorEscape, CtrlS, CtrlK, EditorEnter,
           Leave, Notice, Key
  <2> QED BY <1>3, <2>1, <2>3, KeyOnPaper
<1>4. CASE mode = "app" /\ AppLeave
  <2>1. out = <<>> /\ UNCHANGED screen /\ mode' # "app"
    BY <1>4 DEF AppLeave, Key
  <2>2. PICK said \in {<<>>, Println} : out' = <<Wipe>> \o said \o <<Prompt>>
    BY <1>4 DEF AppLeave, Key
  <2>3. out' \in Seq(Inkless)
    BY <2>2, InklessPrinted
  <2>4. out' # <<>> /\ Head(out') = Wipe
    <3>1. said = <<>> \/ said = <<Message, EndOfLine>>
      BY DEF Println
    <3> QED BY <2>2, <3>1
  <2> QED BY <1>4, <2>1, <2>3, <2>4, KeyOnPaper
<1>5. CASE UNCHANGED typing
  <2>1. UNCHANGED <<row, column, cells, cursor>> /\ UNCHANGED <<out, mode>>
    BY <1>5 DEF typing, screen, text
  <2> QED BY <2>1, RowsAre DEF Drawing, Clean, Place, Paper!vars
<1> QED BY <1>1, <1>2, <1>3, <1>4, <1>5 DEF TypingNext

LEMMA DrawingInit == TypingInit => Drawing /\ Paper!Init
<1>. SUFFICES ASSUME TypingInit PROVE Drawing /\ Paper!Init
  OBVIOUS
<1>1. row = 0 /\ column = 0 /\ cursor = 0 /\ cells = AllBlank /\ out = <<Prompt>> /\ mode = "command"
  BY DEF TypingInit, ScreenInit
<1>2. Clean
  BY <1>1 DEF Clean, AllBlank
<1>3. Rows = <<>> /\ Line = <<>>
  BY <1>1, NoLine, RowsAre
<1> QED BY <1>1, <1>2, <1>3, InklessPrinted DEF Drawing, Paper!Init

\* Whatever is printed, rubbed out, scrolled away and drawn over, the screen
\* and its cursor are those of a roll of paper.
THEOREM ScreenIsPaper == TypingSpec => ScreenRefinement
<1>1. TypeInv /\ Drawing /\ [TypingNext]_typing => Drawing'
  BY PaperStep
<1>2. TypeInv /\ Drawing /\ [TypingNext]_typing
        => [\/ \E c \in Typed \cup {Prompt, Message} : Paper!Put(c)
            \/ Paper!Newline \/ Paper!Erase \/ Paper!Clear]_(Paper!vars)
  BY PaperStep
<1> QED BY <1>1, <1>2, DrawingInit, TypeHolds, PTL DEF TypingSpec, ScreenRefinement

-----------------------------------------------------------------------------
(* What is typed is what is shown. *)

\* The cells of the screen one after the other, up to place p.
CellsTo(p, f) == [k \in 1 .. p |-> f[k - 1]]

LEMMA CellsToType ==
  ASSUME NEW S, NEW f \in [Cells -> S], NEW p \in 0 .. Width * Height
  PROVE  /\ CellsTo(p, f) \in Seq(S) /\ Len(CellsTo(p, f)) = p
         /\ \A k \in 1 .. p : CellsTo(p, f)[k] = f[k - 1]
<1>1. p \in Nat /\ \A k \in 1 .. p : k - 1 \in Cells
  <2> DEFINE total == Width * Height
  <2>1. total \in Nat
    BY ScreenSize
  <2> HIDE DEF total
  <2>2. p \in Nat /\ \A k \in 1 .. p : k - 1 \in 0 .. total - 1
    BY <2>1 DEF total
  <2> QED BY <2>2 DEF Cells, total
<1>2. CellsTo(p, f) \in [1 .. p -> S]
  BY <1>1 DEF CellsTo
<1> QED BY <1>1, <1>2 DEF CellsTo

LEMMA RowJoins ==
  ASSUME NEW S, NEW f \in [Cells -> S], NEW r \in 0 .. Height - 1, NEW k \in 0 .. Width
  PROVE  /\ r * Width \in 0 .. Width * Height
         /\ CellsTo(Offset(r, k), f) = CellsTo(r * Width, f) \o LineOf(r, k, f)
<1> DEFINE a == r * Width
           x == CellsTo(a, f)
           y == LineOf(r, k, f)
           z == CellsTo(Offset(r, k), f)
<1>1. /\ a \in Nat /\ a + Width <= Width * Height /\ Offset(r, k) = a + k
      /\ Offset(r, k) \in 0 .. Width * Height
      /\ Width \in Nat /\ Width * Height \in Nat
  BY OffsetIs, SizeAssumption, ScreenSize
<1>2. a \in 0 .. Width * Height
  <2> DEFINE total == Width * Height
  <2>1. total \in Nat /\ a + Width <= total /\ a \in Nat /\ Width \in Nat
    BY <1>1
  <2> HIDE DEF total, a
  <2>2. a \in 0 .. total
    BY <2>1
  <2> QED BY <2>2 DEF total
<1>3. x \in Seq(S) /\ Len(x) = a /\ \A i \in 1 .. a : x[i] = f[i - 1]
  <2> HIDE DEF a
  <2> QED BY <1>2, CellsToType
<1>4. z \in Seq(S) /\ Len(z) = a + k /\ \A i \in 1 .. a + k : z[i] = f[i - 1]
  <2>1. z \in Seq(S) /\ Len(z) = Offset(r, k) /\ \A i \in 1 .. Offset(r, k) : z[i] = f[i - 1]
    BY <1>1, CellsToType
  <2> HIDE DEF z, a
  <2> QED BY <1>1, <2>1
<1>5. y \in Seq(S) /\ Len(y) = k /\ \A i \in 1 .. k : y[i] = f[Offset(r, i - 1)]
  BY LineType DEF Copies
<1>6. \A i \in 1 .. k : Offset(r, i - 1) = a + i - 1
  <2> TAKE i \in 1 .. k
  <2>1. i \in 1 .. Width
    BY <1>1
  <2> QED BY <2>1, InRow
<1>7. k \in Nat /\ a \in Nat
  BY <1>1
<1> HIDE DEF a, x, y, z
<1>8. x \o y \in Seq(S) /\ Len(x \o y) = a + k
  <2>1. \A u \in Seq(S), v \in Seq(S) : u \o v \in Seq(S) /\ Len(u \o v) = Len(u) + Len(v)
    OBVIOUS
  <2> QED BY <1>3, <1>5, <2>1
<1>9. ASSUME NEW i \in 1 .. a + k PROVE (x \o y)[i] = z[i]
  <2>1. CASE i <= a
    <3>1. i \in 1 .. a
      BY <1>7, <2>1
    <3>2. (x \o y)[i] = x[i]
      BY <1>3, <1>5, <3>1
    <3> QED BY <1>3, <1>4, <3>1, <3>2
  <2>2. CASE ~ (i <= a)
    <3>1. i - a \in 1 .. k /\ a + (i - a) - 1 = i - 1
      BY <1>7, <2>2
    <3>2. (x \o y)[i] = y[i - a]
      BY <1>3, <1>5, <1>7, <2>2
    <3>3. y[i - a] = f[i - 1]
      BY <1>5, <1>6, <3>1
    <3> QED BY <1>4, <3>2, <3>3
  <2> QED BY <2>1, <2>2
<1>10. z = x \o y
  BY <1>4, <1>8, <1>9
<1> QED BY <1>2, <1>10 DEF a, x, y, z

LEMMA FlattenedRows ==
  ASSUME NEW S, NEW f \in [Cells -> S], NEW n \in 0 .. Height - 1
  PROVE  FlattenSeq(RowsOf(n, f)) = CellsTo(n * Width, f)
<1> DEFINE s == RowsOf(n, f)
           w == [i \in 1 .. n |-> CellsTo(i * Width, f)]
<1>1. /\ n \in Nat /\ Len(s) = n
      /\ \A r \in 1 .. n : s[r] = RowOf(r - 1, f)
  BY SizeAssumption, RowsType
<1>2. CASE n = 0
  <2>1. s = <<>> /\ CellsTo(0, f) = <<>>
    BY <1>2, NoLine DEF CellsTo
  <2>2. FlattenSeq(<<>>) = <<>>
    BY DEF FlattenSeq
  <2>3. n * Width = 0
    BY <1>2, SizeAssumption
  <2> QED BY <2>1, <2>2, <2>3
<1>3. CASE n # 0
  <2>1. ASSUME NEW r \in 0 .. Height - 1
        PROVE  CellsTo((r + 1) * Width, f) = CellsTo(r * Width, f) \o RowOf(r, f)
    <3>1. Width \in 0 .. Width /\ Width \in Nat
      BY SizeAssumption
    <3>2. Offset(r, Width) = (r + 1) * Width
      BY <3>1, OffsetIs
    <3>3. LineOf(r, Width, f) = RowOf(r, f)
      BY DEF LineOf, RowOf
    <3> QED BY <3>1, <3>2, <3>3, RowJoins
  <2>2. ASSUME NEW i \in 1 .. n
        PROVE  w[i] = IF i = 1 THEN s[i] ELSE w[i - 1] \o s[i]
    <3>1. i - 1 \in 0 .. Height - 1 /\ i - 1 + 1 = i /\ s[i] = RowOf(i - 1, f)
      BY <1>1, SizeAssumption
    <3>2. w[i] = CellsTo((i - 1) * Width, f) \o s[i]
      BY <2>1, <3>1
    <3>3. CASE i = 1
      <4>1. (i - 1) * Width = 0 /\ CellsTo(0, f) = <<>>
        BY <3>3, SizeAssumption DEF CellsTo
      <4>4. n \in 0 .. Height
        BY SizeAssumption
      <4>5. RowOf(i - 1, f) \in Seq(S)
        BY <3>1, <4>4, RowsType
      <4>2. s[i] \in Seq(S)
        BY <3>1, <4>5
      <4>3. <<>> \o s[i] = s[i]
        BY <4>2
      <4> QED BY <3>2, <3>3, <4>1, <4>3
    <3>4. CASE i # 1
      <4>1. i - 1 \in 1 .. n
        BY <1>1, <3>4
      <4> QED BY <3>2, <3>4, <4>1
    <3> QED BY <3>3, <3>4
  <2>3. Flattens(w, s)
    <3>1. w = [i \in 1 .. n |-> w[i]]
      OBVIOUS
    <3> HIDE DEF w, s
    <3>2. [i \in 1 .. n |-> w[i]] = [i \in 1 .. n |-> IF i = 1 THEN s[i] ELSE w[i - 1] \o s[i]]
      BY <2>2
    <3> QED BY <1>1, <3>1, <3>2 DEF Flattens
  <2> DEFINE g == CHOOSE h : Flattens(h, s)
  <2>4. Flattens(g, s)
    BY <2>3
  <2> HIDE DEF g
  <2>5. g[n] = w[n]
    <3> DEFINE Same == {k \in 0 .. n - 1 : g[k + 1] = w[k + 1]}
    <3>0. n - 1 \in Nat /\ \A k \in 0 .. n - 1 : k + 1 \in 1 .. n /\ k + 1 - 1 = k
      BY <1>1, <1>3
    <3> HIDE DEF w, s
    <3>1. \A i \in 1 .. n : g[i] = IF i = 1 THEN s[i] ELSE g[i - 1] \o s[i]
      BY <1>1, <2>4 DEF Flattens
    <3>2. 0 \in Same
      <4>1. 0 + 1 = 1 /\ 1 \in 1 .. n /\ 0 \in 0 .. n - 1
        BY <1>1, <1>3
      <4>2. g[1] = w[1]
        BY <2>2, <3>1, <4>1
      <4> QED BY <4>1, <4>2
    <3>3. ASSUME NEW k \in 0 .. n - 1 - 1, k \in Same PROVE k + 1 \in Same
      <4>1. k + 1 \in 0 .. n - 1 /\ k + 1 + 1 \in 1 .. n /\ k + 1 + 1 # 1 /\ k + 1 + 1 - 1 = k + 1
        BY <1>1, <1>3, <3>0
      <4>2. g[k + 1 + 1] = w[k + 1 + 1]
        BY <2>2, <3>1, <3>3, <4>1
      <4> QED BY <4>1, <4>2
    <3>4. 0 .. n - 1 \subseteq Same
      <4> HIDE DEF Same
      <4> QED BY <3>0, <3>2, <3>3, UpTo
    <3>5. n - 1 \in 0 .. n - 1 /\ n - 1 + 1 = n
      BY <1>1, <3>0
    <3> QED BY <3>4, <3>5
  <2>6. FlattenSeq(s) = g[n]
    BY <1>1, <1>3, FlattenIs DEF g
  <2>7. n \in 1 .. n
    BY <1>1, <1>3
  <2> QED BY <2>5, <2>6, <2>7
<1> QED BY <1>2, <1>3

LEMMA ShownIs ==
  ASSUME NEW S, ScreenTypeOK(S)
  PROVE  /\ Shown \in Seq(S) /\ Len(Shown) = Place
         /\ \A k \in 1 .. Place : Shown[k] = cells[k - 1]
<1>1. row \in 0 .. Height - 1 /\ column \in 0 .. Width /\ cells \in [Cells -> S]
  BY ScreenFacts
<1>2. Shown = CellsTo(Place, cells)
  BY <1>1, RowsAre, FlattenedRows, RowJoins DEF Shown, Place
<1>3. Place \in 0 .. Width * Height
  BY <1>1, OffsetIs DEF Place
<1> QED BY <1>1, <1>2, <1>3, CellsToType


\* What stands before place p ends like t.
Ends(f, p, t) == \A i \in 1 .. Len(t) : i <= p => f[p - i] = t[Len(t) + 1 - i]

LEMMA EndsAgree ==
  ASSUME NEW S, ScreenTypeOK(S), NEW T, NEW t \in Seq(T), Ends(cells, Place, t)
  PROVE  AgreeAtEnd(Shown, t)
<1>1. Len(Shown) = Place /\ Place \in Nat /\ Len(t) \in Nat
      /\ \A k \in 1 .. Place : Shown[k] = cells[k - 1]
  BY ShownIs, ScreenFacts
<1> DEFINE p == Place
           n == Len(t)
           m == IF p <= n THEN p ELSE n
<1>2. Min({p, n}) = m
  <2> DEFINE both == {p, n}
  <2>1. both \subseteq Int /\ m \in both /\ \A e \in both : m <= e
    BY <1>1
  <2> HIDE DEF m, both
  <2>2. Min(both) = m
    BY <2>1, MinIs
  <2> QED BY <2>2 DEF both
<1>3. ASSUME NEW i \in 1 .. m PROVE Shown[p + 1 - i] = t[n + 1 - i]
  <2>1. i \in 1 .. n /\ i <= p /\ p + 1 - i \in 1 .. p /\ p + 1 - i - 1 = p - i
    BY <1>1
  <2>2. Shown[p + 1 - i] = cells[p - i]
    BY <1>1, <2>1
  <2>3. cells[p - i] = t[n + 1 - i]
    BY <2>1 DEF Ends
  <2> QED BY <2>2, <2>3
<1> HIDE DEF m
<1> QED BY <1>1, <1>2, <1>3 DEF AgreeAtEnd

\* What PutChar and Backspace do, counted in places.
LEMMA PutShifts ==
  ASSUME NEW S, Blank \in S, ScreenTypeOK(S), NEW ch \in S, PutChar(ch)
  PROVE  \E d \in Nat : /\ d <= Place /\ Place' = Place - d + 1
                        /\ cells'[Place - d] = ch
                        /\ \A i \in 0 .. Place - d - 1 : cells'[i] = cells[i + d]
<1>1. /\ row \in 0 .. Height - 1 /\ column \in 0 .. Width /\ column \in Nat
      /\ cells \in [Cells -> S] /\ Width \in Nat \ {0} /\ Height \in Nat \ {0}
      /\ Place \in Nat /\ Place = row * Width + column /\ row * Width \in Nat
      /\ Place \in 0 .. Width * Height
  BY ScreenFacts, SizeAssumption, OffsetIs DEF Place
<1>p. Place' = Offset(row', column')
  BY DEF Place
<1>2. CASE column >= Width
  <2> DEFINE r == NewlineRow
             g == NewlineCells
             p == Offset(r, 0)
  <2>1. r \in 0 .. Height - 1 /\ g \in [Cells -> S] /\ 0 < Width /\ 0 \in 0 .. Width /\ 1 \in 0 .. Width
    BY <1>1, ScreenTypes
  <2>2. row' = r /\ cells' = [g EXCEPT ![p] = ch] /\ column' = 1 /\ column = Width
    BY <1>1, <1>2 DEF PutChar
  <2> HIDE DEF r, g
  <2>3. p \in Cells /\ p = r * Width + 0 /\ r * Width \in Nat /\ Offset(r, 1) = r * Width + 1
    BY <2>1, OffsetIs
  <2>4. cells'[p] = ch /\ \A i \in Cells : i # p => cells'[i] = g[i]
    BY <2>1, <2>2, <2>3
  <2>5. \A i \in 0 .. p - 1 : i \in Cells /\ i # p
    <3> DEFINE total == Width * Height
    <3>1. p \in 0 .. total - 1 /\ total \in Nat
      BY <2>3, ScreenSize DEF Cells
    <3> HIDE DEF total, p
    <3>2. \A i \in 0 .. p - 1 : i \in 0 .. total - 1 /\ i # p
      BY <3>1
    <3> QED BY <3>2 DEF Cells, total
  <2>6. p \in Nat /\ Place' = p + 1
    <3>1. p = r * Width /\ Offset(r, 1) = r * Width + 1 /\ r * Width \in Nat
      BY <2>3
    <3> QED BY <1>p, <2>2, <3>1
  <2>7. CASE row < Height - 1
    <3>1. r = row + 1 /\ g = cells
      BY <2>7 DEF r, g, NewlineRow, NewlineCells
    <3>2. (row + 1) * Width = row * Width + Width
      BY <1>1, OffsetIs
    <3>3. Place = p
      BY <1>1, <2>2, <2>3, <3>1, <3>2
    <3> HIDE DEF p
    <3>4. 0 \in Nat /\ 0 <= Place /\ Place' = Place - 0 + 1 /\ Place - 0 = Place
          /\ \A i \in 0 .. Place - 0 - 1 : i \in 0 .. p - 1 /\ i + 0 = i
      BY <2>6, <3>3
    <3>5. cells'[Place - 0] = ch /\ \A i \in 0 .. Place - 0 - 1 : cells'[i] = cells[i + 0]
      BY <2>4, <2>5, <3>1, <3>3, <3>4
    <3> QED BY <3>4, <3>5
  <2>8. CASE ~ (row < Height - 1)
    <3>1. r = Height - 1 /\ g = Scrolled /\ row = Height - 1
      BY <1>1, <2>8 DEF r, g, NewlineRow, NewlineCells
    <3>2. Place = p + Width /\ Place - Width = p /\ Width \in Nat /\ Width <= Place
      <4>1. p = r * Width /\ Place = r * Width + Width /\ r * Width \in Nat /\ Width \in Nat
        BY <1>1, <2>2, <2>3, <3>1
      <4> HIDE DEF p
      <4> QED BY <2>6, <4>1
    <3>3. ASSUME NEW i \in 0 .. Place - Width - 1 PROVE cells'[i] = cells[i + Width]
      <4>1. i \in 0 .. p - 1
        BY <3>2
      <4>2. i + Width \in Cells
        <5> DEFINE total == Width * Height
        <5>1. Place \in 0 .. total /\ total \in Nat
          BY <1>1, ScreenSize
        <5> HIDE DEF total, p
        <5>2. i + Width \in 0 .. total - 1
          BY <2>6, <3>2, <4>1, <5>1
        <5> QED BY <5>2 DEF Cells, total
      <4>3. Scrolled[i] = cells[i + Width]
        BY <2>5, <4>1, <4>2 DEF Scrolled
      <4> QED BY <2>4, <2>5, <3>1, <4>1, <4>3
    <3>4. cells'[Place - Width] = ch
      BY <2>4, <3>2
    <3>5. Place' = Place - Width + 1
      BY <2>6, <3>2
    <3> QED BY <3>2, <3>3, <3>4, <3>5
  <2> QED BY <2>7, <2>8
<1>3. CASE ~ (column >= Width)
  <2>1. column < Width
    BY <1>1, <1>3
  <2>2. row' = row /\ cells' = [cells EXCEPT ![Place] = ch] /\ column' = column + 1
    BY <1>3 DEF PutChar, Place
  <2>3. Place \in Cells
    BY <1>1, <2>1, OffsetIs DEF Place
  <2>4. cells'[Place] = ch /\ \A i \in Cells : i # Place => cells'[i] = cells[i]
    BY <1>1, <2>2, <2>3
  <2>5. \A i \in 0 .. Place - 1 : i \in Cells /\ i # Place
    <3> DEFINE total == Width * Height
    <3>1. Place \in 0 .. total - 1 /\ total \in Nat
      BY <2>3, ScreenSize DEF Cells
    <3> HIDE DEF total
    <3>2. \A i \in 0 .. Place - 1 : i \in 0 .. total - 1 /\ i # Place
      BY <3>1
    <3> QED BY <3>2 DEF Cells, total
  <2>6. Place' = Place + 1
    <3>1. Place' = row * Width + (column + 1) /\ Place = row * Width + column /\ row * Width \in Nat
      BY <1>1, <1>p, <2>2 DEF Offset
    <3> QED BY <1>1, <3>1
  <2>7. 0 \in Nat /\ 0 <= Place /\ Place' = Place - 0 + 1 /\ Place - 0 = Place
        /\ \A i \in 0 .. Place - 0 - 1 : i \in 0 .. Place - 1 /\ i + 0 = i
    BY <1>1, <2>6
  <2>8. cells'[Place - 0] = ch /\ \A i \in 0 .. Place - 0 - 1 : cells'[i] = cells[i + 0]
    BY <2>4, <2>5, <2>7
  <2> QED BY <2>7, <2>8
<1> QED BY <1>2, <1>3


LEMMA BackspaceSteps ==
  ASSUME NEW S, Blank \in S, ScreenTypeOK(S), Backspace
  PROVE  /\ Place' = IF Place = 0 THEN 0 ELSE Place - 1
         /\ \A i \in 0 .. Place - 2 : cells'[i] = cells[i]
<1>1. /\ row \in Nat /\ column \in Nat /\ Place \in Nat /\ Place \in 0 .. Width * Height
      /\ Place = row * Width + column /\ row * Width \in Nat
      /\ Width \in Nat \ {0}
  BY ScreenFacts, SizeAssumption, OffsetIs DEF Place
<1>2. CASE column = 0 /\ row = 0
  <2>1. UNCHANGED <<row, column, cells>>
    BY <1>2 DEF Backspace
  <2>2. Place = 0 /\ Place' = Place
    BY <1>1, <1>2, <2>1 DEF Place
  <2> QED BY <2>1, <2>2
<1>3. CASE ~ (column = 0 /\ row = 0)
  <2> DEFINE p == Offset(row', column')
             total == Width * Height
  <2>1. /\ p + 1 = Place /\ p \in 0 .. total - 1
        /\ \A i \in Cells : i # p => cells'[i] = cells[i]
    BY <1>3, BackspaceCell DEF Cells
  <2>2. Place' = p
    BY DEF Place
  <2>3. total \in Nat
    BY ScreenSize
  <2> HIDE DEF p, total
  <2>4. Place' = IF Place = 0 THEN 0 ELSE Place - 1
    BY <2>1, <2>2, <2>3
  <2>5. \A i \in 0 .. Place - 2 : i \in 0 .. total - 1 /\ i # p
    BY <2>1, <2>3
  <2> QED BY <2>1, <2>4, <2>5 DEF Cells, total
<1> QED BY <1>2, <1>3

LEMMA PutEnds ==
  ASSUME NEW S, Blank \in S, ScreenTypeOK(S), NEW ch \in S, PutChar(ch),
         NEW T, NEW t \in Seq(T), ch \in T, Ends(cells, Place, t)
  PROVE  Ends(cells', Place', Append(t, ch))
<1>1. PICK d \in Nat : /\ d <= Place /\ Place' = Place - d + 1
                       /\ cells'[Place - d] = ch
                       /\ \A i \in 0 .. Place - d - 1 : cells'[i] = cells[i + d]
  BY PutShifts
<1> DEFINE n == Len(t)
           s == Append(t, ch)
           p == Place
           q == Place'
<1>2. p \in Nat /\ n \in Nat
  BY ScreenFacts
<1>3. Len(s) = n + 1 /\ s[n + 1] = ch /\ \A i \in 1 .. n : s[i] = t[i]
  OBVIOUS
<1>4. d <= p /\ q = p - d + 1
  BY <1>1
<1> HIDE DEF n, s, q, p
<1>5. ASSUME NEW i \in 1 .. n + 1, i <= q PROVE cells'[q - i] = s[n + 1 + 1 - i]
  <2>1. CASE i = 1
    <3>1. q - i = p - d /\ n + 1 + 1 - i = n + 1
      BY <1>2, <1>4, <2>1
    <3> QED BY <1>1, <1>3, <3>1 DEF p
  <2>2. CASE i # 1
    <3>1. q - i \in 0 .. p - d - 1 /\ q - i + d = p - (i - 1) /\ i - 1 \in 1 .. n /\ i - 1 <= p
          /\ n + 1 + 1 - i = n + 1 - (i - 1) /\ n + 1 - (i - 1) \in 1 .. n
      BY <1>2, <1>4, <1>5, <2>2
    <3>2. cells'[q - i] = cells[p - (i - 1)]
      BY <1>1, <3>1 DEF p
    <3>3. cells[p - (i - 1)] = t[n + 1 - (i - 1)]
      BY <3>1 DEF Ends, p, n
    <3> QED BY <1>3, <3>1, <3>2, <3>3
  <2> QED BY <2>1, <2>2
<1> QED BY <1>3, <1>5 DEF Ends, s, q

LEMMA RubEnds ==
  ASSUME NEW S, Blank \in S, ScreenTypeOK(S), Backspace,
         NEW T, NEW t \in Seq(T), NEW ch \in T, Ends(cells, Place, Append(t, ch))
  PROVE  Ends(cells', Place', t)
<1>1. Place' = (IF Place = 0 THEN 0 ELSE Place - 1) /\ \A i \in 0 .. Place - 2 : cells'[i] = cells[i]
  BY BackspaceSteps
<1> DEFINE n == Len(t)
           s == Append(t, ch)
           p == Place
           q == Place'
<1>2. p \in Nat /\ n \in Nat
  BY ScreenFacts
<1>3. Len(s) = n + 1 /\ \A i \in 1 .. n : s[i] = t[i]
  OBVIOUS
<1>4. q = IF p = 0 THEN 0 ELSE p - 1
  BY <1>1
<1> HIDE DEF n, s, q, p
<1>5. ASSUME NEW i \in 1 .. n, i <= q PROVE cells'[q - i] = t[n + 1 - i]
  <2>1. q - i \in 0 .. p - 2 /\ q - i = p - (i + 1) /\ i + 1 \in 1 .. n + 1 /\ i + 1 <= p
        /\ n + 1 + 1 - (i + 1) = n + 1 - i /\ n + 1 - i \in 1 .. n
    BY <1>2, <1>4, <1>5
  <2>2. cells[p - (i + 1)] = s[n + 1 + 1 - (i + 1)]
    BY <1>3, <2>1 DEF Ends, p, s
  <2>3. cells'[q - i] = cells[p - (i + 1)]
    BY <1>1, <2>1 DEF p
  <2> QED BY <1>3, <2>1, <2>2, <2>3
<1> QED BY <1>5 DEF Ends, n, q

LEMMA EmptyEnds == \A f, p : Ends(f, p, <<>>)
BY DEF Ends

LEMMA Concatenation ==
  ASSUME NEW T
  PROVE  /\ \A s \in Seq(T), e \in T : /\ Front(Append(s, e)) = s /\ Append(s, e) # <<>>
                                       /\ Append(s, e) = s \o <<e>>
         /\ \A s \in Seq(T) : s # <<>> =>
              /\ Front(s) \in Seq(T) /\ Last(s) \in T /\ s = Append(Front(s), Last(s))
              /\ Head(s) \in T /\ Tail(s) \in Seq(T)
         /\ \A s \in Seq(T), t \in Seq(T), e \in T : s \o Append(t, e) = Append(s \o t, e)
         /\ \A s \in Seq(T), t \in Seq(T) : s # <<>> =>
              /\ s \o t # <<>> /\ Head(s \o t) = Head(s) /\ Tail(s \o t) = Tail(s) \o t
         /\ \A s \in Seq(T), t \in Seq(T) : t # <<>> => Append(s, Head(t)) \o Tail(t) = s \o t
         /\ \A s \in Seq(T) : <<>> \o s = s /\ s \o <<>> = s
<1>1. ASSUME NEW s \in Seq(T), NEW e \in T
      PROVE  Front(Append(s, e)) = s /\ Append(s, e) # <<>> /\ Append(s, e) = s \o <<e>>
  <2>1. Append(s, e) # <<>> /\ Append(s, e) \in Seq(T) /\ Len(Append(s, e)) = Len(s) + 1
        /\ SubSeq(Append(s, e), 1, Len(s)) = s /\ Len(s) + 1 - 1 = Len(s)
    OBVIOUS
  <2>2. Append(s, e) = s \o <<e>>
    OBVIOUS
  <2> QED BY <2>1, <2>2 DEF Front
<1>2. ASSUME NEW s \in Seq(T), s # <<>>
      PROVE  /\ Front(s) \in Seq(T) /\ Last(s) \in T /\ s = Append(Front(s), Last(s))
             /\ Head(s) \in T /\ Tail(s) \in Seq(T)
  <2>1. /\ Front(s) \in Seq(T) /\ Len(Front(s)) = Len(s) - 1 /\ Last(s) \in T
        /\ \A i \in 1 .. Len(s) - 1 : Front(s)[i] = s[i]
        /\ Len(s) \in Nat \ {0} /\ Last(s) = s[Len(s)]
    BY <1>2, FrontIs
  <2> DEFINE f == Front(s)
             e == Last(s)
  <2> HIDE DEF f, e
  <2>2. \A t \in Seq(T), x \in T : /\ Append(t, x) \in Seq(T) /\ Len(Append(t, x)) = Len(t) + 1
                                   /\ Append(t, x)[Len(t) + 1] = x
                                   /\ \A i \in 1 .. Len(t) : Append(t, x)[i] = t[i]
    OBVIOUS
  <2>3. /\ f \in Seq(T) /\ e \in T /\ Len(f) = Len(s) - 1 /\ e = s[Len(s)]
        /\ \A i \in 1 .. Len(s) - 1 : f[i] = s[i]
    BY <2>1 DEF f, e
  <2> DEFINE a == Append(f, e)
  <2>4. /\ a \in Seq(T) /\ Len(a) = Len(s) /\ a[Len(s)] = e
        /\ \A i \in 1 .. Len(s) - 1 : a[i] = s[i]
    BY <2>1, <2>2, <2>3
  <2> HIDE DEF a
  <2>5. \A i \in 1 .. Len(s) : a[i] = s[i]
    <3> TAKE i \in 1 .. Len(s)
    <3>1. i = Len(s) \/ i \in 1 .. Len(s) - 1
      OBVIOUS
    <3> QED BY <2>3, <2>4, <3>1
  <2>6. a = s
    BY <2>4, <2>5
  <2>7. Head(s) \in T /\ Tail(s) \in Seq(T)
    BY <1>2
  <2> QED BY <2>1, <2>6, <2>7 DEF a, f, e
<1>3. ASSUME NEW s \in Seq(T), NEW t \in Seq(T), NEW e \in T
      PROVE  s \o Append(t, e) = Append(s \o t, e)
  OBVIOUS
<1>4. ASSUME NEW s \in Seq(T), NEW t \in Seq(T), s # <<>>
      PROVE  s \o t # <<>> /\ Head(s \o t) = Head(s) /\ Tail(s \o t) = Tail(s) \o t
  <2>1. s \o t # <<>> /\ Head(s \o t) = Head(s)
    BY <1>4
  <2>2. Tail(s \o t) = Tail(s) \o t
    BY <1>4
  <2> QED BY <2>1, <2>2
<1>5. ASSUME NEW s \in Seq(T), NEW t \in Seq(T), t # <<>>
      PROVE  Append(s, Head(t)) \o Tail(t) = s \o t
  BY <1>5
<1>6. \A s \in Seq(T) : <<>> \o s = s /\ s \o <<>> = s
  OBVIOUS
<1> QED BY <1>1, <1>2, <1>3, <1>4, <1>5, <1>6

\* The last k characters of a text.
Ending(t, k) == SubSeq(t, Len(t) + 1 - k, Len(t))

LEMMA EndingIs ==
  ASSUME NEW T, NEW t \in Seq(T)
  PROVE  /\ Ending(t, 0) = <<>>
         /\ \A k \in 0 .. Len(t) : Ending(t, k) \in Seq(T)
         /\ \A k \in 0 .. Len(t), c \in T : Ending(Append(t, c), k + 1) = Append(Ending(t, k), c)
         /\ Ending(t, Len(CurrentLine(t))) = CurrentLine(t)
<1>n. Len(t) \in Nat
  OBVIOUS
<1>1. Ending(t, 0) = <<>>
  BY DEF Ending
<1>2. ASSUME NEW k \in 0 .. Len(t)
      PROVE  /\ Ending(t, k) \in Seq(T) /\ Len(Ending(t, k)) = k
             /\ \A i \in 1 .. k : Ending(t, k)[i] = t[Len(t) - k + i]
  <2> DEFINE a == Len(t) + 1 - k
             b == Len(t)
  <2>1. a \in 1 .. b + 1 /\ b - a + 1 = k /\ b \in Nat
    BY <1>n
  <2> HIDE DEF a
  <2>2. /\ SubSeq(t, a, b) \in Seq(T) /\ Len(SubSeq(t, a, b)) = k
        /\ \A i \in 1 .. k : SubSeq(t, a, b)[i] = t[a + i - 1]
    BY <2>1
  <2>3. \A i \in 1 .. k : a + i - 1 = Len(t) - k + i
    BY <1>n DEF a
  <2> QED BY <2>2, <2>3 DEF Ending, a
<1>3. ASSUME NEW k \in 0 .. Len(t), NEW c \in T
      PROVE  Ending(Append(t, c), k + 1) = Append(Ending(t, k), c)
  <2> DEFINE u == Append(t, c)
             n == Len(t)
             a == n + 1 + 1 - (k + 1)
             x == SubSeq(u, a, n + 1)
             e == Ending(t, k)
             y == Append(e, c)
  <2>1. u \in Seq(T) /\ Len(u) = n + 1 /\ u[n + 1] = c /\ \A i \in 1 .. n : u[i] = t[i]
    OBVIOUS
  <2>2. a \in 1 .. n + 1 /\ n + 1 - a + 1 = k + 1 /\ n \in Nat /\ k \in Nat /\ a = n + 1 - k
    BY <1>n
  <2>3. e \in Seq(T) /\ Len(e) = k /\ \A i \in 1 .. k : e[i] = t[n - k + i]
    BY <1>2
  <2> HIDE DEF u, a, e
  <2>4. x \in Seq(T) /\ Len(x) = k + 1 /\ \A i \in 1 .. k + 1 : x[i] = u[a + i - 1]
    BY <2>1, <2>2
  <2>5. y \in Seq(T) /\ Len(y) = k + 1 /\ y[k + 1] = c /\ \A i \in 1 .. k : y[i] = e[i]
    BY <2>3
  <2> HIDE DEF x, y, n
  <2>6. ASSUME NEW i \in 1 .. k + 1 PROVE x[i] = y[i]
    <3>1. CASE i = k + 1
      <4>1. a + i - 1 = n + 1
        BY <2>2, <3>1
      <4> QED BY <2>1, <2>4, <2>5, <3>1, <4>1
    <3>2. CASE i # k + 1
      <4>1. i \in 1 .. k /\ a + i - 1 = n - k + i /\ n - k + i \in 1 .. n
        BY <2>2, <3>2 DEF n
      <4> QED BY <2>1, <2>3, <2>4, <2>5, <4>1
    <3> QED BY <3>1, <3>2
  <2>7. x = y
    BY <2>4, <2>5, <2>6
  <2> QED BY <2>1, <2>7 DEF Ending, x, y, a, e, u, n
<1>4. Ending(t, Len(CurrentLine(t))) = CurrentLine(t)
  <2>1. Len(CurrentLine(t)) = Len(t) - LineStart(t) /\ LineStart(t) \in 0 .. Len(t)
    BY CurrentLineIs, LineStartIs DEF Starts
  <2>2. Len(t) + 1 - (Len(t) - LineStart(t)) = LineStart(t) + 1
    BY <1>n, <2>1
  <2> QED BY <2>1, <2>2 DEF Ending, CurrentLine
<1> QED BY <1>1, <1>2, <1>3, <1>4

LEMMA CurrentLineGrows ==
  ASSUME NEW T, NEW t \in Seq(T), NEW c \in T
  PROVE  CurrentLine(Append(t, c)) = IF c = EndOfLine THEN <<>> ELSE Append(CurrentLine(t), c)
<1> DEFINE u == Append(t, c)
           n == Len(t)
           m == LineStart(t)
<1>1. u \in Seq(T) /\ Len(u) = n + 1 /\ u[n + 1] = c /\ n \in Nat /\ \A i \in 1 .. n : u[i] = t[i]
  OBVIOUS
<1>2. m \in 0 .. n /\ LineStart(u) = IF c = EndOfLine THEN n + 1 ELSE m
  BY AppendStarts, LineStartIs DEF Starts
<1>3. CASE c = EndOfLine
  <2>1. LineStart(u) = n + 1
    BY <1>2, <1>3
  <2> HIDE DEF u
  <2>2. SubSeq(u, n + 1 + 1, n + 1) = <<>>
    BY <1>1
  <2> QED BY <1>1, <1>3, <2>1, <2>2 DEF CurrentLine, u
<1>4. CASE c # EndOfLine
  <2>1. LineStart(u) = m
    BY <1>2, <1>4
  <2>2. n - m \in 0 .. n /\ n + 1 - (n - m) = m + 1 /\ n + 1 + 1 - (n - m + 1) = m + 1
    BY <1>1, <1>2
  <2>3. Ending(u, n - m + 1) = Append(Ending(t, n - m), c)
    BY <2>2, EndingIs
  <2>4. Ending(u, n - m + 1) = CurrentLine(u) /\ Ending(t, n - m) = CurrentLine(t)
    BY <1>1, <2>1, <2>2 DEF Ending, CurrentLine
  <2> QED BY <1>4, <2>3, <2>4
<1> QED BY <1>3, <1>4

\* On the way to the screen: the prompt and the command line; the text of the
\* editor as it is typed; a text that is loaded, p of which is shown already.
CommandShows ==
  \/ out = <<>> /\ Ends(cells, Place, <<Prompt>> \o buffer)
  \/ \E b \in Seq(Typed), c \in Typed :
       buffer = Append(b, c) /\ out = <<c>> /\ Ends(cells, Place, <<Prompt>> \o b)
  \/ \E c \in Typed : out = <<Rub>> /\ Ends(cells, Place, Append(<<Prompt>> \o buffer, c))
  \/ buffer = <<>> /\ \E s \in Seq(Marks) : out = Append(s, Prompt)

Loading ==
  \/ \E s \in Seq(Marks) : s # <<>> /\ out = s \o editor_buffer
  \/ \E p \in Seq(Letterings), q \in Seq(Letterings) :
       editor_buffer = p \o q /\ out = q /\ Ends(cells, Place, CurrentLine(p))

EditorShows ==
  \/ out = <<>> /\ Ends(cells, Place, Ending(editor_buffer, fresh))
  \/ \E t \in Seq(Letterings), c \in Typed, k \in Nat :
       /\ k <= Len(t) /\ editor_buffer = Append(t, c) /\ fresh = k + 1
       /\ out = <<c>> /\ Ends(cells, Place, Ending(t, k))
  \/ \E c \in Letterings : out = <<Rub>> /\ Ends(cells, Place, Append(Ending(editor_buffer, fresh), c))
  \/ fresh = 0
  \/ fresh = Len(CurrentLine(editor_buffer)) /\ Loading

LineInv ==
  /\ mode # "command" => buffer = <<>>
  /\ mode = "command" => CommandShows
  /\ mode = "editor" => EditorShows

LEMMA Included ==
  /\ Typed \subseteq Letterings /\ Letterings \subseteq Marks /\ Prompt \in Marks
  /\ Typed \subseteq Glyphs /\ Prompt \in Glyphs /\ Glyphs \subseteq Marks
  /\ Seq(Typed) \subseteq Seq(Marks) /\ Seq(Letterings) \subseteq Seq(Marks)
  /\ <<Prompt>> \in Seq(Marks) /\ <<>> \in Seq(Marks)
  /\ \A c \in Letterings : c \in Typed \/ c = EndOfLine
<1>1. /\ Typed \subseteq Letterings /\ Letterings \subseteq Marks /\ Prompt \in Marks
      /\ Typed \subseteq Glyphs /\ Prompt \in Glyphs /\ Glyphs \subseteq Marks
      /\ \A c \in Letterings : c \in Typed \/ c = EndOfLine
  BY DEF Letterings, Marks, Glyphs
<1> HIDE DEF Letterings, Marks, Glyphs
<1> QED BY <1>1

\* The next character is put behind what is shown, or the last one taken off.
LEMMA PrintsGlyph ==
  ASSUME TypeInv, PrintNext, Head(out) \in Glyphs, NEW t \in Seq(Marks), Ends(cells, Place, t)
  PROVE  Ends(cells', Place', Append(t, Head(out)))
<1>1. ScreenTypeOK(Glyphs) /\ Blank \in Glyphs /\ Head(out) \in Marks
  BY Included DEF TypeInv, Glyphs, Typed
<1>2. PutChar(Head(out))
  BY MarksDiffer DEF PrintNext
<1> QED BY <1>1, <1>2, PutEnds

LEMMA PrintsRub ==
  ASSUME TypeInv, PrintNext, Head(out) = Rub,
         NEW t \in Seq(Marks), NEW c \in Marks, Ends(cells, Place, Append(t, c))
  PROVE  Ends(cells', Place', t)
<1>1. ScreenTypeOK(Glyphs) /\ Blank \in Glyphs
  BY DEF TypeInv, Glyphs, Typed
<1>2. Backspace
  BY MarksDiffer DEF PrintNext, Glyphs
<1> QED BY <1>1, <1>2, RubEnds

LEMMA CommandPrints ==
  ASSUME TypeInv, CommandShows, PrintNext
  PROVE  CommandShows'
<1>1. out # <<>> /\ out' = Tail(out) /\ buffer' = buffer /\ buffer \in Seq(Typed)
  BY DEF PrintNext, text, TypeInv, TextsTyped
<1>2. ASSUME NEW b \in Seq(Typed), NEW c \in Typed, buffer = Append(b, c), out = <<c>>,
             Ends(cells, Place, <<Prompt>> \o b)
      PROVE  CommandShows'
  <2>1. Head(out) = c /\ out' = <<>>
    BY <1>1, <1>2
  <2>2. <<Prompt>> \o b \in Seq(Marks) /\ c \in Glyphs /\ c \in Marks /\ b \in Seq(Marks)
    BY Included, Concatenation
  <2>3. Ends(cells', Place', Append(<<Prompt>> \o b, c))
    BY <1>2, <2>1, <2>2, PrintsGlyph
  <2>4. Append(<<Prompt>> \o b, c) = <<Prompt>> \o buffer
    BY <1>2, <2>2, Included, Concatenation
  <2> QED BY <1>1, <2>1, <2>3, <2>4 DEF CommandShows
<1>3. ASSUME NEW c \in Typed, out = <<Rub>>, Ends(cells, Place, Append(<<Prompt>> \o buffer, c))
      PROVE  CommandShows'
  <2>1. Head(out) = Rub /\ out' = <<>>
    BY <1>1, <1>3
  <2>2. <<Prompt>> \o buffer \in Seq(Marks) /\ c \in Marks
    BY <1>1, Included
  <2>3. Ends(cells', Place', <<Prompt>> \o buffer)
    BY <1>3, <2>1, <2>2, PrintsRub
  <2> QED BY <1>1, <2>1, <2>3 DEF CommandShows
<1>4. ASSUME buffer = <<>>, NEW s \in Seq(Marks), out = Append(s, Prompt)
      PROVE  CommandShows'
  <2>1. CASE s = <<>>
    <3>1. Head(out) = Prompt /\ out' = <<>> /\ Append(<<>>, Prompt) = <<Prompt>>
          /\ <<Prompt>> \o <<>> = <<Prompt>>
      BY <1>1, <1>4, <2>1
    <3>2. Ends(cells', Place', <<Prompt>>)
      BY <3>1, EmptyEnds, Included, PrintsGlyph
    <3> QED BY <1>1, <1>4, <3>1, <3>2 DEF CommandShows
  <2>2. CASE s # <<>>
    <3>1. out = s \o <<Prompt>>
      BY <1>4, Included, Concatenation
    <3>2. Tail(out) = Tail(s) \o <<Prompt>> /\ Tail(s) \in Seq(Marks)
      BY <2>2, <3>1, Included, Concatenation
    <3>3. out' = Append(Tail(s), Prompt)
      <4>1. \A u \in Seq(Marks) : Append(u, Prompt) = u \o <<Prompt>>
        BY Included
      <4> QED BY <1>1, <3>2, <4>1
    <3> QED BY <1>1, <1>4, <3>2, <3>3 DEF CommandShows
  <2> QED BY <2>1, <2>2
<1> QED BY <1>1, <1>2, <1>3, <1>4 DEF CommandShows

LEMMA LoadingPrints ==
  ASSUME TypeInv, Loading, PrintNext
  PROVE  Loading'
<1>1. /\ out # <<>> /\ out' = Tail(out) /\ editor_buffer' = editor_buffer
      /\ editor_buffer \in Seq(Letterings) /\ editor_buffer \in Seq(Marks)
  BY TextsAre, Included DEF PrintNext, text, TypeInv, TextsTyped
<1>2. ASSUME NEW s \in Seq(Marks), s # <<>>, out = s \o editor_buffer
      PROVE  Loading'
  <2>1. out' = Tail(s) \o editor_buffer /\ Tail(s) \in Seq(Marks)
    BY <1>1, <1>2, Concatenation
  <2>2. CASE Tail(s) = <<>>
    <3>1. out' = editor_buffer /\ editor_buffer = <<>> \o editor_buffer /\ <<>> \in Seq(Letterings)
      <4>1. editor_buffer = <<>> \o editor_buffer /\ <<>> \in Seq(Letterings)
        BY <1>1, Concatenation
      <4> QED BY <2>1, <2>2, <4>1
    <3>2. CurrentLine(<<>>) = <<>>
      <4>1. CurrentLine(<<>>) \in Seq(Letterings) /\ Len(CurrentLine(<<>>)) = 0 - LineStart(<<>>)
            /\ LineStart(<<>>) \in 0 .. 0
        <5>1. \A t \in Seq(Letterings) :
                /\ CurrentLine(t) \in Seq(Letterings) /\ Len(CurrentLine(t)) = Len(t) - LineStart(t)
                /\ LineStart(t) \in 0 .. Len(t)
          BY CurrentLineIs, LineStartIs DEF Starts
        <5>2. Len(<<>>) = 0
          OBVIOUS
        <5> QED BY <3>1, <5>1, <5>2
      <4> DEFINE l == CurrentLine(<<>>)
      <4> HIDE DEF l
      <4>2. l \in Seq(Letterings) /\ Len(l) = 0
        BY <4>1 DEF l
      <4> QED BY <4>2 DEF l
    <3>3. Ends(cells', Place', CurrentLine(<<>>))
      BY <3>2, EmptyEnds
    <3> QED BY <1>1, <3>1, <3>3 DEF Loading
  <2>3. CASE Tail(s) # <<>>
    BY <1>1, <2>1, <2>3 DEF Loading
  <2> QED BY <2>2, <2>3
<1>3. ASSUME NEW p \in Seq(Letterings), NEW q \in Seq(Letterings),
             editor_buffer = p \o q, out = q, Ends(cells, Place, CurrentLine(p))
      PROVE  Loading'
  <2> DEFINE c == Head(q)
  <2>1. /\ c \in Letterings /\ Tail(q) \in Seq(Letterings) /\ Append(p, c) \in Seq(Letterings)
        /\ Append(p, c) \o Tail(q) = editor_buffer
    <3>1. q # <<>> /\ Head(q) \in Letterings /\ Tail(q) \in Seq(Letterings)
      BY <1>1, <1>3, Concatenation
    <3>2. Append(p, Head(q)) \o Tail(q) = p \o q
      BY <3>1, Concatenation
    <3> QED BY <1>3, <3>1, <3>2
  <2>2. Head(out) = c /\ out' = Tail(q)
    BY <1>1, <1>3
  <2> HIDE DEF c
  <2>3. Ends(cells', Place', CurrentLine(Append(p, c)))
    <3>1. CASE c = EndOfLine
      <4>1. CurrentLine(Append(p, c)) = <<>>
        BY <2>1, <3>1, CurrentLineGrows
      <4> QED BY <4>1, EmptyEnds
    <3>2. CASE c # EndOfLine
      <4>1. CurrentLine(Append(p, c)) = Append(CurrentLine(p), c)
        BY <2>1, <3>2, CurrentLineGrows
      <4>2. CurrentLine(p) \in Seq(Marks) /\ Head(out) \in Glyphs
        <5>1. CurrentLine(p) \in Seq(Letterings)
          BY CurrentLineIs
        <5> QED BY <2>1, <2>2, <3>2, <5>1, Included
      <4>3. Ends(cells', Place', Append(CurrentLine(p), Head(out)))
        BY <1>3, <4>2, PrintsGlyph
      <4> QED BY <2>2, <4>1, <4>3
    <3> QED BY <3>1, <3>2
  <2> QED BY <1>1, <2>1, <2>2, <2>3 DEF Loading
<1> QED BY <1>2, <1>3 DEF Loading

LEMMA EditorPrints ==
  ASSUME TypeInv, EditorShows, PrintNext
  PROVE  EditorShows'
<1>1. /\ out # <<>> /\ out' = Tail(out) /\ editor_buffer' = editor_buffer /\ fresh' = fresh
      /\ editor_buffer \in Seq(Letterings)
      /\ fresh \in 0 .. Len(editor_buffer)
  BY TextsAre DEF PrintNext, text, TypeInv, TextsTyped
<1>2. ASSUME NEW t \in Seq(Letterings), NEW c \in Typed, NEW k \in Nat, k <= Len(t),
             editor_buffer = Append(t, c), fresh = k + 1, out = <<c>>,
             Ends(cells, Place, Ending(t, k))
      PROVE  EditorShows'
  <2>1. Head(out) = c /\ out' = <<>> /\ k \in 0 .. Len(t)
    BY <1>1, <1>2
  <2>2. c \in Letterings /\ Ending(t, k) \in Seq(Marks) /\ Head(out) \in Glyphs
    BY <2>1, EndingIs, Included
  <2>3. Ends(cells', Place', Append(Ending(t, k), c))
    BY <1>2, <2>1, <2>2, PrintsGlyph
  <2>4. Append(Ending(t, k), c) = Ending(editor_buffer, fresh)
    BY <1>2, <2>1, <2>2, EndingIs
  <2> QED BY <1>1, <2>1, <2>3, <2>4 DEF EditorShows
<1>3. ASSUME NEW c \in Letterings, out = <<Rub>>,
             Ends(cells, Place, Append(Ending(editor_buffer, fresh), c))
      PROVE  EditorShows'
  <2>1. Head(out) = Rub /\ out' = <<>>
    BY <1>1, <1>3
  <2>2. Ending(editor_buffer, fresh) \in Seq(Marks) /\ c \in Marks
    BY <1>1, EndingIs, Included
  <2>3. Ends(cells', Place', Ending(editor_buffer, fresh))
    BY <1>3, <2>1, <2>2, PrintsRub
  <2> QED BY <1>1, <2>1, <2>3 DEF EditorShows
<1>4. CASE fresh = 0
  BY <1>1, <1>4 DEF EditorShows
<1>5. CASE fresh = Len(CurrentLine(editor_buffer)) /\ Loading
  BY <1>1, <1>5, LoadingPrints DEF EditorShows
<1> QED BY <1>1, <1>2, <1>3, <1>4, <1>5 DEF EditorShows

\* Every key that a handler answers.
LEMMA CommandKeyShows ==
  ASSUME TypeInv, LineInv, mode = "command", CommandKey
  PROVE  LineInv'
<1>1. /\ out = <<>> /\ UNCHANGED screen /\ buffer \in Seq(Typed) /\ buffer \in Seq(Marks)
      /\ editor_buffer \in Seq(Letterings) /\ file \in Seq(Letterings)
      /\ file \in Seq(Marks)
  BY TextsAre, Included
     DEF TypeInv, TextsTyped, CommandKey, CommandChar, CommandBackspace, CommandEscape, CommandEnter, Key
<1>2. cells' = cells /\ Place' = Place
  BY <1>1 DEF screen, Place
<1>4. Ends(cells, Place, <<Prompt>> \o buffer)
  <2>1. \A c \in Typed : out # <<c>>
    BY <1>1
  <2>2. out # <<Rub>> /\ \A s \in Seq(Marks) : out # Append(s, Prompt)
    BY <1>1
  <2> QED BY <2>1, <2>2 DEF LineInv, CommandShows
<1>5. ASSUME NEW c \in Typed, CommandChar(c) PROVE LineInv'
  <2>1. buffer' = Append(buffer, c) /\ out' = <<c>> /\ mode' = "command"
    BY <1>5 DEF CommandChar, Key
  <2> QED BY <1>1, <1>2, <1>4, <2>1 DEF LineInv, CommandShows
<1>6. CASE CommandBackspace
  <2>1. buffer' = Front(buffer) /\ out' = <<Rub>> /\ mode' = "command" /\ buffer # <<>>
    BY <1>6 DEF CommandBackspace, Key
  <2>2. /\ Front(buffer) \in Seq(Typed) /\ Last(buffer) \in Typed
        /\ buffer = Append(Front(buffer), Last(buffer))
    BY <1>1, <2>1, Concatenation
  <2>3. <<Prompt>> \o buffer = Append(<<Prompt>> \o Front(buffer), Last(buffer))
    <3>1. \A t \in Seq(Marks), e \in Marks : <<Prompt>> \o Append(t, e) = Append(<<Prompt>> \o t, e)
      BY Included, Concatenation
    <3> QED BY <2>2, <3>1, Included
  <2> QED BY <1>2, <1>4, <2>1, <2>2, <2>3 DEF LineInv, CommandShows
<1>p. ASSUME NEW s \in Seq(Marks), buffer' = <<>>, mode' = "command", out' = s \o <<Prompt>>
      PROVE  LineInv'
  <2>1. out' = Append(s, Prompt)
    BY <1>p, Included
  <2> QED BY <1>p, <2>1 DEF LineInv, CommandShows
<1>7. CASE CommandEscape
  <2>1. buffer' = <<>> /\ out' = Println \o <<Prompt>> /\ mode' = "command"
    BY <1>7 DEF CommandEscape, Key
  <2> QED BY <1>p, <2>1, Printed
<1>8. CASE CommandEnter
  <2>0. buffer' = <<>>
    BY <1>8 DEF CommandEnter
  <2>1. CASE mode' = mode /\ out' = <<EndOfLine, Prompt>>
    <3>1. <<EndOfLine, Prompt>> = <<EndOfLine>> \o <<Prompt>>
      OBVIOUS
    <3> QED BY <1>p, <2>0, <2>1, <3>1, Printed
  <2>2. CASE mode' = mode /\ out' = <<EndOfLine>> \o Println \o <<Prompt>>
    <3>1. <<EndOfLine>> \o Println \in Seq(Marks)
      BY Printed
    <3> QED BY <1>p, <2>0, <2>2, <3>1
  <2>3. CASE mode' = mode /\ out' = <<EndOfLine, Wipe, Prompt>>
    <3>1. <<EndOfLine, Wipe, Prompt>> = <<EndOfLine, Wipe>> \o <<Prompt>>
      OBVIOUS
    <3> QED BY <1>p, <2>0, <2>3, <3>1, Printed
  <2>4. CASE /\ mode' = "editor" /\ out' = <<EndOfLine, Wipe>> \o Println \o file
             /\ editor_buffer' = file /\ fresh' = Len(CurrentLine(file))
    <3>1. <<EndOfLine, Wipe>> \o Println \in Seq(Marks)
      BY Printed
    <3>2. <<EndOfLine, Wipe>> \o Println # <<>>
      BY DEF Println
    <3>3. Loading'
      BY <2>4, <3>1, <3>2 DEF Loading
    <3> QED BY <2>0, <2>4, <3>3 DEF LineInv, EditorShows
  <2>5. CASE mode' = "app"
    BY <2>0, <2>5 DEF LineInv
  <2> QED BY <1>8, <2>1, <2>2, <2>3, <2>4, <2>5 DEF CommandEnter, Key
<1> QED BY <1>5, <1>6, <1>7, <1>8 DEF CommandKey

\* With nothing left to print, what is typed freshly is shown.
LEMMA EditorIdle ==
  ASSUME EditorShows, out = <<>>, editor_buffer \in Seq(Letterings)
  PROVE  Ends(cells, Place, Ending(editor_buffer, fresh))
<1>1. editor_buffer \in Seq(Letterings) /\ out = <<>>
  OBVIOUS
<1>2. \A c : out # <<c>>
  BY <1>1
<1>3. CASE fresh = 0
  <2>1. Ending(editor_buffer, fresh) = <<>>
    BY <1>1, <1>3, EndingIs
  <2> QED BY <2>1, EmptyEnds
<1>4. CASE fresh = Len(CurrentLine(editor_buffer)) /\ Loading
  <2>1. Ending(editor_buffer, fresh) = CurrentLine(editor_buffer)
    BY <1>1, <1>4, EndingIs
  <2>2. \A s \in Seq(Marks) : s # <<>> => out # s \o editor_buffer
    <3>1. editor_buffer \in Seq(Marks)
      BY <1>1, Included
    <3> SUFFICES ASSUME NEW s \in Seq(Marks), s # <<>> PROVE s \o editor_buffer # <<>>
      BY <1>1
    <3> QED BY <3>1, Concatenation
  <2>3. PICK p \in Seq(Letterings), q \in Seq(Letterings) :
          editor_buffer = p \o q /\ out = q /\ Ends(cells, Place, CurrentLine(p))
    BY <1>4, <2>2 DEF Loading
  <2>4. editor_buffer = p
    BY <1>1, <2>3, Concatenation
  <2> QED BY <2>1, <2>3, <2>4
<1> QED BY <1>2, <1>3, <1>4 DEF EditorShows

LEMMA EditorKeyShows ==
  ASSUME TypeInv, LineInv, mode = "editor", EditorKey
  PROVE  LineInv'
<1>1. /\ out = <<>> /\ UNCHANGED screen /\ buffer = <<>>
      /\ editor_buffer \in Seq(Letterings)
      /\ fresh \in 0 .. Len(editor_buffer)
  BY TextsAre DEF TypeInv, TextsTyped, LineInv, EditorKey, EditorChar, EditorBackspace, EditorEscape,
                  CtrlS, CtrlK, EditorEnter, Leave, Notice, Key
<1>2. cells' = cells /\ Place' = Place
  BY <1>1 DEF screen, Place
<1>3. Ends(cells, Place, Ending(editor_buffer, fresh))
  BY <1>1, EditorIdle DEF LineInv
<1>l. ASSUME NEW s \in Seq(Marks), Leave(s \o <<Prompt>>) PROVE LineInv'
  <2>1. buffer' = <<>> /\ mode' = "command" /\ out' = s \o <<Prompt>>
    BY <1>1, <1>l DEF Leave, Key
  <2>2. out' = Append(s, Prompt)
    BY <2>1, Included
  <2> QED BY <2>1, <2>2 DEF LineInv, CommandShows
<1>z. ASSUME buffer' = buffer, fresh' = 0, mode' = mode PROVE LineInv'
  BY <1>1, <1>z DEF LineInv, EditorShows
<1>p. /\ <<EndOfLine>> \o Println \in Seq(Marks) /\ Println \in Seq(Marks)
      /\ <<EndOfLine, EndOfLine>> \o Println \in Seq(Marks)
  BY Printed
<1>4. ASSUME NEW c \in Typed, EditorChar(c) PROVE LineInv'
  <2>1. /\ editor_buffer' = Append(editor_buffer, c) /\ out' = <<c>> /\ mode' = "editor"
        /\ fresh' = fresh + 1 /\ buffer' = <<>> /\ fresh \in Nat /\ fresh <= Len(editor_buffer)
    BY <1>1, <1>4 DEF EditorChar, Key
  <2>2. EditorShows'
    BY <1>1, <1>2, <1>3, <2>1 DEF EditorShows
  <2> QED BY <2>1, <2>2 DEF LineInv
<1>5. CASE EditorBackspace
  <2>1. /\ editor_buffer' = Front(editor_buffer) /\ editor_buffer # <<>> /\ out' = <<Rub>>
        /\ mode' = "editor" /\ buffer' = <<>> /\ fresh' = IF fresh = 0 THEN 0 ELSE fresh - 1
    BY <1>1, <1>5 DEF EditorBackspace, Key
  <2>2. CASE fresh' = 0
    BY <2>1, <2>2 DEF LineInv, EditorShows
  <2>3. CASE fresh' # 0
    <3> DEFINE t == Front(editor_buffer)
               c == Last(editor_buffer)
               k == fresh - 1
    <3>1. t \in Seq(Letterings) /\ c \in Letterings /\ editor_buffer = Append(t, c)
          /\ Len(editor_buffer) = Len(t) + 1
      <4>1. Len(Front(editor_buffer)) = Len(editor_buffer) - 1 /\ Len(editor_buffer) \in Nat \ {0}
        BY <1>1, <2>1, FrontIs
      <4>2. /\ Front(editor_buffer) \in Seq(Letterings) /\ Last(editor_buffer) \in Letterings
            /\ editor_buffer = Append(Front(editor_buffer), Last(editor_buffer))
        BY <1>1, <2>1, Concatenation
      <4>3. Len(editor_buffer) = Len(Front(editor_buffer)) + 1
        BY <4>1
      <4> QED BY <4>2, <4>3
    <3>2. k \in 0 .. Len(t) /\ fresh = k + 1 /\ fresh' = k
      BY <1>1, <2>1, <2>3, <3>1
    <3> HIDE DEF t, c, k
    <3>3. Ending(editor_buffer, fresh) = Append(Ending(t, k), c)
      BY <3>1, <3>2, EndingIs
    <3>4. Ends(cells', Place', Append(Ending(editor_buffer', fresh'), c))
      BY <1>2, <1>3, <2>1, <3>2, <3>3 DEF t
    <3> QED BY <2>1, <3>1, <3>4 DEF LineInv, EditorShows
  <2> QED BY <2>2, <2>3
<1>6. CASE EditorEscape
  BY <1>6, <1>l, <1>p DEF EditorEscape
<1>7. CASE CtrlS
  BY <1>7, <1>z DEF CtrlS, Notice
<1>8. CASE CtrlK
  <2>1. CASE Notice
    BY <1>z, <2>1 DEF Notice
  <2>2. CASE Leave(<<EndOfLine>> \o Println \o <<Prompt>>) \/ Leave(Println \o <<Prompt>>)
    BY <1>l, <1>p, <2>2
  <2> QED BY <1>8, <2>1, <2>2 DEF CtrlK
<1>9. CASE EditorEnter
  <2>1. CASE \/ Leave(<<EndOfLine, EndOfLine>> \o Println \o <<Prompt>>)
             \/ Leave(<<EndOfLine>> \o Println \o <<Prompt>>)
    BY <1>l, <1>p, <2>1
  <2>2. CASE fresh' = 0 /\ UNCHANGED <<mode, buffer>>
    BY <1>z, <2>2
  <2> QED BY <1>9, <2>1, <2>2 DEF EditorEnter
<1> QED BY <1>4, <1>5, <1>6, <1>7, <1>8, <1>9 DEF EditorKey

LEMMA LineStep == TypeInv /\ LineInv /\ [TypingNext]_typing => LineInv'
<1>. SUFFICES ASSUME TypeInv, LineInv, [TypingNext]_typing PROVE LineInv'
  OBVIOUS
<1>1. CASE PrintNext
  <2>1. mode' = mode /\ buffer' = buffer
    BY <1>1 DEF PrintNext, text
  <2> QED BY <1>1, <2>1, CommandPrints, EditorPrints DEF LineInv
<1>2. CASE mode = "command" /\ CommandKey
  BY <1>2, CommandKeyShows
<1>3. CASE mode = "editor" /\ EditorKey
  BY <1>3, EditorKeyShows
<1>4. CASE mode = "app" /\ AppLeave
  <2>1. mode' = "command" /\ buffer' = <<>>
    BY <1>4 DEF AppLeave, LineInv
  <2>2. PICK said \in {<<>>, Println} : out' = <<Wipe>> \o said \o <<Prompt>>
    BY <1>4 DEF AppLeave, Key
  <2>3. <<Wipe>> \o said \in Seq(Marks)
    BY Printed
  <2>4. out' = Append(<<Wipe>> \o said, Prompt)
    BY <2>2, <2>3, Included
  <2> QED BY <2>1, <2>3, <2>4 DEF LineInv, CommandShows
<1>5. CASE UNCHANGED typing
  <2>1. UNCHANGED <<row, column, cells, out, mode, buffer, editor_buffer, fresh>>
    BY <1>5 DEF typing, screen, text
  <2> QED BY <2>1 DEF LineInv, CommandShows, EditorShows, Loading, Place
<1> QED BY <1>1, <1>2, <1>3, <1>4, <1>5 DEF TypingNext

LEMMA LineShown == TypeInv /\ LineInv => LineOnScreen
<1>. SUFFICES ASSUME TypeInv, LineInv, out = <<>> PROVE
        /\ mode = "command" => AgreeAtEnd(Shown, <<Prompt>> \o buffer)
        /\ mode = "editor" => AgreeAtEnd(Shown, Ending(editor_buffer, fresh))
  BY DEF LineOnScreen, Ending
<1>1. /\ ScreenTypeOK(Glyphs) /\ buffer \in Seq(Marks) /\ editor_buffer \in Seq(Letterings)
      /\ fresh \in 0 .. Len(editor_buffer)
  BY TextsAre, Included DEF TypeInv, TextsTyped
<1>2. ASSUME mode = "command" PROVE AgreeAtEnd(Shown, <<Prompt>> \o buffer)
  <2>4. out = <<>>
    OBVIOUS
  <2>5. \A c : out # <<c>>
    BY <2>4
  <2>1. \A s \in Seq(Marks) : out # Append(s, Prompt)
    <3>1. \A s \in Seq(Marks), e \in Marks : Append(s, e) # <<>>
      BY Concatenation
    <3> QED BY <2>4, <3>1, Included
  <2>2. Ends(cells, Place, <<Prompt>> \o buffer)
    BY <1>2, <2>1, <2>5 DEF LineInv, CommandShows
  <2>3. <<Prompt>> \o buffer \in Seq(Marks)
    BY <1>1, Included
  <2> QED BY <1>1, <2>2, <2>3, EndsAgree
<1>3. ASSUME mode = "editor" PROVE AgreeAtEnd(Shown, Ending(editor_buffer, fresh))
  <2>1. Ends(cells, Place, Ending(editor_buffer, fresh))
    BY <1>1, <1>3, EditorIdle DEF LineInv
  <2>2. Ending(editor_buffer, fresh) \in Seq(Letterings)
    BY <1>1, EndingIs
  <2> QED BY <1>1, <2>1, <2>2, EndsAgree
<1> QED BY <1>2, <1>3

\* The command line and what is typed into the editor stand on the screen
\* whenever nothing is left to print.
THEOREM LineAlwaysOnScreen == TypingSpec => []LineOnScreen
<1>1. TypingInit => LineInv
  <2> SUFFICES ASSUME TypingInit PROVE LineInv
    OBVIOUS
  <2>1. out = Append(<<>>, Prompt) /\ buffer = <<>> /\ mode = "command"
    BY DEF TypingInit
  <2> QED BY <2>1, Included DEF LineInv, CommandShows
<1> QED BY <1>1, LineStep, LineShown, TypeHolds, PTL DEF TypingSpec

=============================================================================

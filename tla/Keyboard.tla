------------------------------ MODULE Keyboard ------------------------------
(***************************************************************************)
(* The keyboard driver of keyboard.rs: the flags of the modifier keys, and *)
(* the event that translate makes of a scancode.  A scancode is a key's    *)
(* kind and the release bit; which letter or digit it is does not matter   *)
(* here, only which of its two characters it gives.  num_lock and          *)
(* scroll_lock are never set, and a code without a meaning is "other".     *)
(*                                                                         *)
(* An operator marked "Slip" is not the code: it is a mistake one could    *)
(* make in the definition after it, and a property has to notice it.       *)
(***************************************************************************)
VARIABLES shift, ctrl, alt, caps_lock, caps_lock_pressed, event

flags == <<shift, ctrl, alt, caps_lock, caps_lock_pressed>>

Kinds == {"shift", "ctrl", "alt", "caps", "letter", "symbol",
          "enter", "space", "backspace", "escape", "other"}

NoEvent == [kind |-> "none", pressed |-> FALSE, upper |-> FALSE]

\* An event: the kind of key, Press or Release, and for a letter or symbol
\* whether it is the one typed with Shift.
Events == [kind : Kinds, pressed : BOOLEAN, upper : BOOLEAN] \cup {NoEvent}

KeyboardTypeOK ==
  /\ \A flag \in {shift, ctrl, alt, caps_lock, caps_lock_pressed} : flag \in BOOLEAN
  /\ event \in Events

Reset ==
  /\ shift = FALSE /\ ctrl = FALSE /\ alt = FALSE
  /\ caps_lock = FALSE /\ caps_lock_pressed = FALSE
  /\ event = NoEvent

\* Slip: CapsLock turns over at every make code.
Translate_CapsRepeats(kind, released) ==
  /\ caps_lock' = IF kind = "caps" /\ ~released THEN ~caps_lock ELSE caps_lock
  /\ caps_lock_pressed' = IF kind = "caps" THEN ~released ELSE caps_lock_pressed
  /\ UNCHANGED <<shift, ctrl, alt, event>>

\* Slip: a modifier turns over at each of its codes instead of following the
\* release bit.
Translate_Toggles(kind, released) ==
  /\ shift' = IF kind = "shift" THEN ~shift ELSE shift
  /\ ctrl' = IF kind = "ctrl" THEN ~ctrl ELSE ctrl
  /\ event' = [kind |-> kind, pressed |-> ~released,
               upper |-> kind = "letter" /\ (caps_lock \/ shift)]
  /\ UNCHANGED <<alt, caps_lock, caps_lock_pressed>>

\* Slip: the release bit is not masked, and the code with it names no key.
Translate_BitKept(kind, released) ==
  /\ event' = [kind |-> IF released THEN "unknown" ELSE kind,
               pressed |-> ~released, upper |-> FALSE]
  /\ UNCHANGED flags

\* Held keys repeat their make code; CapsLock turns over at the first one.
Translate(kind, released) ==
  /\ shift' = IF kind = "shift" THEN ~released ELSE shift
  /\ ctrl' = IF kind = "ctrl" THEN ~released ELSE ctrl
  /\ alt' = IF kind = "alt" THEN ~released ELSE alt
  /\ caps_lock' =
       IF kind = "caps" /\ ~released /\ ~caps_lock_pressed THEN ~caps_lock ELSE caps_lock
  /\ caps_lock_pressed' = IF kind = "caps" THEN ~released ELSE caps_lock_pressed
  /\ event' = [kind |-> kind, pressed |-> ~released,
               upper |-> \/ kind = "letter" /\ (caps_lock \/ shift)
                         \/ kind = "symbol" /\ shift]
=============================================================================

--------------------------- MODULE ScancodeQueue ---------------------------
(***************************************************************************)
(* What the scancode buffer of interrupts.rs promises its two users: a     *)
(* first-in first-out queue of at most Capacity bytes that discards the    *)
(* newest byte when it is full.  ScancodeBuffer implements it.             *)
(***************************************************************************)
EXTENDS Naturals, Sequences

CONSTANTS Bytes,     \* the scancodes
          NoByte,    \* what pop returns when there is nothing to return
          Capacity   \* how many bytes the queue holds, a natural number

VARIABLES queue,     \* the bytes waiting, oldest first
          popped     \* what the last pop returned

vars == <<queue, popped>>

TypeOK ==
  /\ queue \in Seq(Bytes)
  /\ Len(queue) <= Capacity
  /\ popped \in Bytes \cup {NoByte}

Init ==
  /\ queue = <<>>
  /\ popped = NoByte

Push(b) ==
  /\ \/ /\ Len(queue) < Capacity
        /\ queue' = Append(queue, b)
     \/ /\ Len(queue) = Capacity
        /\ queue' = queue
  /\ popped' = popped

Pop ==
  \/ /\ queue = <<>>
     /\ popped' = NoByte
     /\ queue' = queue
  \/ /\ queue # <<>>
     /\ popped' = Head(queue)
     /\ queue' = Tail(queue)

Next == Pop \/ \E b \in Bytes : Push(b)

Spec == Init /\ [][Next]_vars
=============================================================================

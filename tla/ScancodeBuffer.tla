--------------------------- MODULE ScancodeBuffer ---------------------------
(***************************************************************************)
(* The ring buffer between the IRQ1 handler and the readers of the         *)
(* keyboard (struct ScancodeBuffer of interrupts.rs), operation by         *)
(* operation.  One slot is always kept free, so that head = tail can only  *)
(* mean empty.  InputPath adds the lock, the handler and the reader.       *)
(*                                                                         *)
(* An operator marked "Slip" is not the code: it is a mistake one could    *)
(* make in the definition after it, and a property has to notice it.       *)
(***************************************************************************)
EXTENDS Naturals, Sequences

CONSTANTS N,         \* slots in the array (256 in the code)
          Bytes,     \* the scancodes; 0 fills the array at boot
          NoByte     \* the None that pop returns

ASSUME NAssumption == N \in Nat \ {0}
ASSUME BytesAssumption == 0 \in Bytes /\ NoByte \notin Bytes

VARIABLES buffer,    \* the array
          head,      \* next slot push writes
          tail,      \* next slot pop reads
          popped     \* what the last pop returned

vars == <<buffer, head, tail, popped>>

Slots == 0 .. N - 1

TypeOK ==
  /\ buffer \in [Slots -> Bytes]
  /\ head \in Slots
  /\ tail \in Slots
  /\ popped \in Bytes \cup {NoByte}

Init ==
  /\ buffer = [i \in Slots |-> 0]
  /\ head = 0
  /\ tail = 0
  /\ popped = NoByte

Succ_Unwrapped(i) == i + 1       \* Slip
Succ(i) == (i + 1) % N

Full == Succ(head) = tail

\* Slip: a full buffer keeps the newest byte in place of the oldest.
Push_OverOldest(b) ==
  /\ buffer' = [buffer EXCEPT ![IF Full THEN tail ELSE head] = b]
  /\ head' = IF Full THEN head ELSE Succ(head)
  /\ UNCHANGED <<tail, popped>>

\* A full buffer drops the new byte and tells nobody.
Push(b) ==
  /\ \/ /\ ~Full
        /\ buffer' = [buffer EXCEPT ![head] = b]
        /\ head' = Succ(head)
     \/ /\ Full
        /\ UNCHANGED <<buffer, head>>
  /\ UNCHANGED <<tail, popped>>

\* Slip: the byte is returned and stays.
Pop_Peeks ==
  /\ popped' = IF head = tail THEN NoByte ELSE buffer[tail]
  /\ UNCHANGED <<buffer, head, tail>>

Pop ==
  /\ \/ /\ head = tail
        /\ popped' = NoByte
        /\ tail' = tail
     \/ /\ head # tail
        /\ popped' = buffer[tail]
        /\ tail' = Succ(tail)
  /\ UNCHANGED <<buffer, head>>

Next == Pop \/ \E b \in Bytes : Push(b)

Spec == Init /\ [][Next]_vars

-----------------------------------------------------------------------------
\* The queue the ring represents: Count bytes, the oldest at tail.
Count == IF tail <= head THEN head - tail ELSE head + N - tail

At(i) == IF tail + i <= N THEN tail + i - 1 ELSE tail + i - 1 - N

Contents == [i \in 1 .. Count |-> buffer[At(i)]]

Queue == INSTANCE ScancodeQueue
           WITH queue <- Contents, Capacity <- N - 1

\* The ring behaves as the bounded queue: across every wrap of head and tail
\* pop returns the bytes in the order push accepted them, and push drops a
\* byte only when N - 1 bytes are waiting (push and pop of interrupts.rs).
QueueRefinement == Queue!Spec
=============================================================================

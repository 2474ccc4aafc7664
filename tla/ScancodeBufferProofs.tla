------------------------ MODULE ScancodeBufferProofs ------------------------
(***************************************************************************)
(* Proofs about ScancodeBuffer: its type invariant, and that the ring      *)
(* implements the bounded queue for every number of slots.                 *)
(***************************************************************************)
EXTENDS ScancodeBuffer, TLAPS

\* What % 256 does to an index of the array.
LEMMA SuccIf ==
  ASSUME NEW i \in Slots
  PROVE  /\ Succ(i) = IF i = N - 1 THEN 0 ELSE i + 1
         /\ Succ(i) \in Slots
<1>1. CASE i = N - 1
  <2>1. N % N = 0
    BY NAssumption, SMT
  <2> QED BY <1>1, <2>1, NAssumption DEF Succ, Slots
<1>2. CASE i # N - 1
  <2>1. i + 1 \in 0 .. N - 1
    BY <1>2, NAssumption DEF Slots
  <2>2. (i + 1) % N = i + 1
    BY <2>1, NAssumption, SMT
  <2> QED BY <1>2, <2>1, <2>2 DEF Succ, Slots
<1> QED BY <1>1, <1>2

LEMMA TypeStep == TypeOK /\ [Next]_vars => TypeOK'
<1> SUFFICES ASSUME TypeOK, [Next]_vars PROVE TypeOK'
  OBVIOUS
<1>1. CASE Pop
  BY <1>1, SuccIf DEF TypeOK, Pop
<1>2. ASSUME NEW b \in Bytes, Push(b) PROVE TypeOK'
  <2>1. head' \in Slots
    BY <1>2, SuccIf DEF TypeOK, Push
  <2>2. buffer' \in [Slots -> Bytes]
    BY <1>2 DEF TypeOK, Push
  <2> QED BY <1>2, <2>1, <2>2 DEF TypeOK, Push
<1>3. CASE UNCHANGED vars
  BY <1>3 DEF TypeOK, vars
<1> QED BY <1>1, <1>2, <1>3 DEF Next

\* Type correctness: head and tail never leave the array, whatever is pushed
\* and popped (push and pop of interrupts.rs index it without a check).
THEOREM TypeCorrect == Spec => []TypeOK
<1>1. Init => TypeOK
  BY NAssumption, BytesAssumption DEF Init, TypeOK, Slots
<1> QED BY <1>1, TypeStep, PTL DEF Spec
-----------------------------------------------------------------------------
LEMMA CountType ==
  ASSUME TypeOK
  PROVE  Count \in 0 .. N - 1
BY NAssumption DEF TypeOK, Count, Slots

LEMMA AtType ==
  ASSUME TypeOK, NEW i \in 1 .. Count
  PROVE  /\ At(i) \in Slots
         /\ At(i) # head
BY NAssumption DEF TypeOK, Count, At, Slots

LEMMA ContentsType ==
  ASSUME TypeOK
  PROVE  /\ Contents \in Seq(Bytes)
         /\ Len(Contents) = Count
<1>1. \A i \in 1 .. Count : buffer[At(i)] \in Bytes
  BY AtType DEF TypeOK
<1>2. Count \in Nat
  BY CountType, NAssumption
<1> QED BY <1>1, <1>2 DEF Contents

\* The full test of push says exactly that N - 1 bytes are waiting.
LEMMA FullIsCount ==
  ASSUME TypeOK
  PROVE  /\ Full <=> Count = N - 1
         /\ head = tail <=> Count = 0
<1>1. Succ(head) = IF head = N - 1 THEN 0 ELSE head + 1
  BY SuccIf DEF TypeOK
<1> QED BY <1>1, NAssumption DEF TypeOK, Count, Full, Slots

LEMMA PushAppends ==
  ASSUME TypeOK, NEW b \in Bytes, Push(b), ~Full
  PROVE  Contents' = Append(Contents, b)
<1>1. Succ(head) = IF head = N - 1 THEN 0 ELSE head + 1
  BY SuccIf DEF TypeOK
<1>2. /\ head' = Succ(head)
      /\ tail' = tail
      /\ buffer' = [buffer EXCEPT ![head] = b]
  BY DEF Push
<1>3. Count' = Count + 1
  BY <1>1, <1>2, NAssumption DEF TypeOK, Count, Full, Slots
<1>4. At(Count + 1) = head
  BY NAssumption DEF TypeOK, Count, At, Slots
<1>5. \A i : At(i)' = At(i)
  BY <1>2 DEF At
<1>6. \A i \in 1 .. Count : buffer'[At(i)] = buffer[At(i)]
  BY <1>2, AtType DEF TypeOK
<1>7. buffer'[head] = b
  BY <1>2 DEF TypeOK
<1>8. Count \in Nat
  BY CountType, NAssumption
<1>9. Contents' = [i \in 1 .. Count + 1 |-> buffer'[At(i)]]
  BY <1>3, <1>5 DEF Contents
<1>10. Append(Contents, b) =
         [i \in 1 .. Count + 1 |-> IF i <= Count THEN buffer[At(i)] ELSE b]
  <2>1. /\ Contents \in Seq(Bytes)
        /\ Len(Contents) = Count
    BY ContentsType
  <2> QED BY <2>1, <1>8 DEF Contents
<1>11. \A i \in 1 .. Count + 1 :
         buffer'[At(i)] = IF i <= Count THEN buffer[At(i)] ELSE b
  BY <1>4, <1>6, <1>7, <1>8
<1> QED BY <1>9, <1>10, <1>11

LEMMA PopTakesHead ==
  ASSUME TypeOK, Pop, head # tail
  PROVE  /\ popped' = Head(Contents)
         /\ Contents' = Tail(Contents)
<1>1. Succ(tail) = IF tail = N - 1 THEN 0 ELSE tail + 1
  BY SuccIf DEF TypeOK
<1>2. /\ tail' = Succ(tail)
      /\ popped' = buffer[tail]
      /\ UNCHANGED <<buffer, head>>
  BY DEF Pop
<1>3. /\ Count \in Nat
      /\ Count > 0
      /\ Count' = Count - 1
  BY <1>1, <1>2, NAssumption DEF TypeOK, Count, Slots
<1>4. At(1) = tail
  BY NAssumption DEF TypeOK, At, Slots
<1>5. \A i \in 1 .. Count - 1 : At(i)' = At(i + 1)
  BY <1>1, <1>2, NAssumption DEF TypeOK, Count, At, Slots
<1>6. /\ Contents \in Seq(Bytes)
      /\ Len(Contents) = Count
  BY ContentsType
<1>7. Head(Contents) = buffer[tail]
  BY <1>3, <1>4, <1>6 DEF Contents
<1>8. Tail(Contents) = [i \in 1 .. Count - 1 |-> buffer[At(i + 1)]]
  BY <1>3, <1>6 DEF Contents
<1>9. Contents' = [i \in 1 .. Count - 1 |-> buffer[At(i + 1)]]
  BY <1>2, <1>3, <1>5 DEF Contents
<1> QED BY <1>2, <1>7, <1>8, <1>9
-----------------------------------------------------------------------------
LEMMA StepRefines ==
  ASSUME TypeOK, [Next]_vars
  PROVE  [Queue!Next]_(Queue!vars)
<1>0. /\ Contents \in Seq(Bytes)
      /\ Len(Contents) = Count
      /\ Count \in Nat
  BY ContentsType, CountType, NAssumption
<1>1. ASSUME NEW b \in Bytes, Push(b) PROVE Queue!Push(b)
  <2>1. CASE Full
    <3>1. Contents' = Contents
      <4>1. UNCHANGED <<buffer, head, tail, popped>>
        BY <1>1, <2>1 DEF Push
      <4> QED BY <4>1 DEF Contents, Count, At
    <3>2. Len(Contents) = N - 1
      BY <1>0, <2>1, FullIsCount
    <3> QED BY <1>1, <3>1, <3>2 DEF Push, Queue!Push
  <2>2. CASE ~Full
    <3>1. Len(Contents) < N - 1
      BY <1>0, <2>2, FullIsCount, CountType, NAssumption
    <3> QED BY <1>1, <2>2, <3>1, PushAppends DEF Push, Queue!Push
  <2> QED BY <2>1, <2>2
<1>2. ASSUME Pop PROVE Queue!Pop
  <2>1. CASE head = tail
    <3>1. Contents' = Contents
      <4>1. UNCHANGED <<buffer, head, tail>>
        BY <1>2, <2>1 DEF Pop
      <4> QED BY <4>1 DEF Contents, Count, At
    <3>2. Contents = <<>>
      BY <1>0, <2>1, FullIsCount
    <3> QED BY <1>2, <2>1, <3>1, <3>2 DEF Pop, Queue!Pop
  <2>2. CASE head # tail
    <3>1. Contents # <<>>
      BY <1>0, <2>2, FullIsCount
    <3> QED BY <1>2, <2>2, <3>1, PopTakesHead DEF Queue!Pop
  <2> QED BY <2>1, <2>2
<1>3. CASE UNCHANGED vars
  BY <1>3 DEF vars, Queue!vars, Contents, Count, At
<1> QED BY <1>1, <1>2, <1>3 DEF Next, Queue!Next

\* For every number of slots and every run of pushes and pops, the ring is the
\* bounded queue of N - 1 bytes: it returns the accepted bytes in the order of
\* their arrival, and drops a byte only when it is full.
THEOREM RingImplementsQueue == Spec => QueueRefinement
<1>1. Init => Queue!Init
  <2> SUFFICES ASSUME Init PROVE Queue!Init
    OBVIOUS
  <2>1. Count = 0
    BY DEF Init, Count
  <2> QED BY <2>1 DEF Init, Contents, Queue!Init
<1>2. TypeOK /\ [Next]_vars => [Queue!Next]_(Queue!vars)
  BY StepRefines
<1> QED BY <1>1, <1>2, TypeCorrect, PTL DEF Spec, QueueRefinement, Queue!Spec
=============================================================================

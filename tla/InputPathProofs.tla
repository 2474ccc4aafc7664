-------------------------- MODULE InputPathProofs --------------------------
(***************************************************************************)
(* Proofs about InputPath, for every size of the ring and every number of  *)
(* bytes: types, mutual exclusion, that no byte disappears, and that the   *)
(* ring keeps the order of the keyboard.                                   *)
(***************************************************************************)
EXTENDS InputPath, FiniteSetTheorems, TLAPS

\* The lemmas about the ring alone, and the names they give to its parts.
Lemmas == INSTANCE ScancodeBufferProofs WITH popped <- code

LEMMA SameRing ==
  /\ Ring!TypeOK <=> Lemmas!TypeOK
  /\ Ring!Full <=> Lemmas!Full
  /\ Ring!Contents = Lemmas!Contents
  /\ Ring!Contents' = Lemmas!Contents'
  /\ Ring!Count = Lemmas!Count
  /\ Ring!Pop <=> Lemmas!Pop
  /\ \A b : Ring!Push(b) <=> Lemmas!Push(b)
<1> USE DEF Ring!Succ, Lemmas!Succ, Ring!Slots, Lemmas!Slots, Ring!At, Lemmas!At,
            Ring!Count, Lemmas!Count, Ring!Full, Lemmas!Full
<1>1. Ring!TypeOK <=> Lemmas!TypeOK
  BY DEF Ring!TypeOK, Lemmas!TypeOK
<1>2. Ring!Full <=> Lemmas!Full
  OBVIOUS
<1>3. Ring!Contents = Lemmas!Contents
  BY DEF Ring!Contents, Lemmas!Contents
<1>4. Ring!Contents' = Lemmas!Contents'
  BY DEF Ring!Contents, Lemmas!Contents
<1>5. Ring!Pop <=> Lemmas!Pop
  BY DEF Ring!Pop, Lemmas!Pop
<1>6. \A b : Ring!Push(b) <=> Lemmas!Push(b)
  BY DEF Ring!Push, Lemmas!Push
<1> QED BY <1>1, <1>2, <1>3, <1>4, <1>5, <1>6

LEMMA Assumptions == Lemmas!NAssumption /\ Lemmas!BytesAssumption
BY SizeAssumption, MaxBytesAssumption, NoByteAssumption
   DEF Bytes, Lemmas!NAssumption, Lemmas!BytesAssumption

LEMMA RingTyped ==
  ASSUME TypeOK
  PROVE  /\ Ring!Contents \in Seq(Bytes)
         /\ Len(Ring!Contents) = Ring!Count
         /\ Ring!Count \in Nat
<1>1. Lemmas!TypeOK
  BY SameRing DEF TypeOK
<1>2. Lemmas!Count \in 0 .. N - 1
  BY <1>1, Assumptions, Lemmas!CountType
<1>3. Lemmas!Contents \in Seq(Bytes) /\ Len(Lemmas!Contents) = Lemmas!Count
  BY <1>1, Assumptions, Lemmas!ContentsType
<1> QED BY <1>2, <1>3, SameRing, SizeAssumption

LEMMA RingPush ==
  ASSUME TypeOK, NEW b \in Bytes, Ring!Push(b)
  PROVE  Ring!Contents' = IF Ring!Full THEN Ring!Contents
                                       ELSE Append(Ring!Contents, b)
<1>1. CASE Ring!Full
  BY <1>1 DEF Ring!Push, Ring!Contents, Ring!Count, Ring!At
<1>2. CASE ~Ring!Full
  <2>1. Lemmas!TypeOK /\ Lemmas!Push(b) /\ ~Lemmas!Full
    BY <1>2, SameRing DEF TypeOK
  <2>2. Lemmas!Contents' = Append(Lemmas!Contents, b)
    BY <2>1, Assumptions, Lemmas!PushAppends
  <2> QED BY <1>2, <2>2, SameRing
<1> QED BY <1>1, <1>2

LEMMA RingPop ==
  ASSUME TypeOK, Ring!Pop
  PROVE  \/ /\ Ring!Contents = <<>>
            /\ code' = NoByte
            /\ Ring!Contents' = Ring!Contents
         \/ /\ Ring!Contents # <<>>
            /\ code' = Head(Ring!Contents)
            /\ Ring!Contents' = Tail(Ring!Contents)
<1>1. Lemmas!TypeOK /\ Lemmas!Pop
  BY SameRing DEF TypeOK
<1>2. head = tail <=> Ring!Contents = <<>>
  <2>1. head = tail <=> Lemmas!Count = 0
    BY <1>1, Assumptions, Lemmas!FullIsCount
  <2> QED BY <2>1, SameRing, RingTyped
<1>3. CASE head = tail
  BY <1>2, <1>3 DEF Ring!Pop, Ring!Contents, Ring!Count, Ring!At
<1>4. CASE head # tail
  <2>1. code' = Head(Lemmas!Contents) /\ Lemmas!Contents' = Tail(Lemmas!Contents)
    BY <1>1, <1>4, Assumptions, Lemmas!PopTakesHead
  <2> QED BY <1>2, <1>4, <2>1, SameRing
<1> QED BY <1>3, <1>4

LEMMA RingStays ==
  ASSUME UNCHANGED ring
  PROVE  /\ Ring!Contents' = Ring!Contents
         /\ Ring!Count' = Ring!Count
BY DEF ring, Ring!Contents, Ring!Count, Ring!At

-----------------------------------------------------------------------------
LEMMA RingTypeStep ==
  ASSUME TypeOK, Ring!Pop \/ \E b \in Bytes : Ring!Push(b)
  PROVE  Ring!TypeOK'
<1>1. \A i \in Ring!Slots : Ring!Succ(i) \in Ring!Slots
  <2>1. \A i \in Lemmas!Slots : Lemmas!Succ(i) \in Lemmas!Slots
    BY Assumptions, Lemmas!SuccIf
  <2> QED BY <2>1 DEF Ring!Succ, Lemmas!Succ, Ring!Slots, Lemmas!Slots
<1>2. CASE Ring!Pop
  BY <1>1, <1>2 DEF TypeOK, Ring!TypeOK, Ring!Pop
<1>3. ASSUME NEW b \in Bytes, Ring!Push(b) PROVE Ring!TypeOK'
  <2>1. head' \in Ring!Slots
    BY <1>1, <1>3 DEF TypeOK, Ring!TypeOK, Ring!Push
  <2>2. buffer' \in [Ring!Slots -> Bytes]
    BY <1>3 DEF TypeOK, Ring!TypeOK, Ring!Push
  <2> QED BY <1>3, <2>1, <2>2 DEF TypeOK, Ring!TypeOK, Ring!Push
<1> QED BY <1>2, <1>3

LEMMA BootTypeStep ==
  ASSUME BootTypeOK, LoadByte \/ Start
  PROVE  BootTypeOK'
<1> USE DEF BootTypeOK, keyboard, pic, cpu
<1>1. CASE LoadByte
  BY <1>1, MaxBytesAssumption DEF LoadByte
<1>2. CASE SetupIdt
  BY <1>2 DEF SetupIdt, Vectors
<1>3. CASE SetupPic
  <2>1. \A i \in 1 .. 4 : PicWords[i] \in 0 .. 255
    BY DEF PicWords
  <2>2. irr' \in BOOLEAN /\ masked' \in BOOLEAN /\ base' \in 0 .. 255 /\ expects' \in Words
    <3>1. CASE boot = 1
      BY <1>3, <3>1 DEF SetupPic, PicCommand, Words
    <3>2. CASE boot # 1
      <4>1. PicWords[boot - 1] \in 0 .. 255 /\ PicData(PicWords[boot - 1])
        BY <1>3, <2>1, <3>2 DEF SetupPic
      <4>2. base' \in 0 .. 255 /\ expects' \in Words
        BY <4>1 DEF PicData, Words
      <4>3. irr' \in BOOLEAN /\ masked' \in BOOLEAN
        BY <4>1, Zenon DEF PicData
      <4> QED BY <4>2, <4>3
    <3> QED BY <3>1, <3>2
  <2>3. UNCHANGED <<port, obf, gates, enabled>> /\ boot' \in 0 .. 7
    BY <1>3 DEF SetupPic
  <2> QED BY <2>2, <2>3
<1>4. CASE Sti
  BY <1>4 DEF Sti
<1> QED BY <1>1, <1>2, <1>3, <1>4 DEF Start

\* The other actions take a byte or a request, or leave the machine alone.
LEMMA BootTypeKept ==
  ASSUME BootTypeOK, UNCHANGED <<port, masked, base, expects, cpu>>,
         irr' = irr \/ irr' = FALSE, obf' = obf \/ obf' = FALSE
  PROVE  BootTypeOK'
BY DEF BootTypeOK, cpu

LEMMA TypeStep == TypeOK /\ [Next]_vars => TypeOK'
<1> SUFFICES ASSUME TypeOK, [Next]_vars PROVE TypeOK'
  OBVIOUS
<1>b. BootTypeOK'
  <2> USE DEF machine, keyboard, pic, cpu
  <2>1. CASE Keyboard \/ Starting
    BY <2>1, BootTypeStep DEF TypeOK, Keyboard, Starting
  <2>2. CASE Irq
    BY <2>2, BootTypeKept
       DEF TypeOK, Irq, IrqEnter, IrqRead, IrqLock, IrqPush, IrqReturn
  <2>3. CASE KernelRun
    BY <2>3, BootTypeKept
       DEF TypeOK, KernelRun, Lock, Pop, Unlock, OutputReady, ReadScancode, Deliver
  <2>4. CASE UNCHANGED vars
    BY <2>4, BootTypeKept DEF TypeOK, vars
  <2> QED BY <2>1, <2>2, <2>3, <2>4 DEF Next, Kernel
<1> USE DEF TypeOK, ring, reader, handler, history
<1>p. BootTypeOK => port \in Bytes
  BY DEF BootTypeOK, Bytes
<1>0. CASE Starting
  BY <1>0, <1>b DEF Starting, Ring!TypeOK
<1>1. CASE Keyboard
  BY <1>1, <1>b DEF Keyboard, Ring!TypeOK
<1>2. CASE IrqEnter
  BY <1>2, <1>b DEF IrqEnter, Ring!TypeOK
<1>3. CASE IrqRead
  BY <1>3, <1>b, <1>p DEF IrqRead, Ring!TypeOK
<1>4. CASE IrqLock
  BY <1>4, <1>b DEF IrqLock, Ring!TypeOK
<1>5. CASE IrqPush
  <2>1. Ring!TypeOK'
    BY <1>5, RingTypeStep DEF IrqPush
  <2> QED BY <1>5, <1>b, <2>1 DEF IrqPush, Ring!Push
<1>6. CASE IrqReturn
  BY <1>6, <1>b DEF IrqReturn, Ring!TypeOK
<1>7. CASE Lock
  BY <1>7, <1>b DEF Lock, Ring!TypeOK
<1>8. CASE Pop
  <2>1. Ring!TypeOK'
    BY <1>8, RingTypeStep DEF Pop
  <2> QED BY <1>8, <1>b, <2>1 DEF Pop
<1>9. CASE Unlock
  BY <1>9, <1>b DEF Unlock, Ring!TypeOK
<1>10. CASE OutputReady
  BY <1>10, <1>b DEF OutputReady, Ring!TypeOK
<1>11. CASE ReadScancode
  BY <1>11, <1>b, <1>p DEF ReadScancode, Ring!TypeOK
<1>12. CASE Deliver
  BY <1>12, <1>b DEF Deliver, Ring!TypeOK
<1>13. CASE UNCHANGED vars
  BY <1>13, <1>b DEF vars, Ring!TypeOK
<1> QED BY <1>0, <1>1, <1>2, <1>3, <1>4, <1>5, <1>6, <1>7, <1>8, <1>9, <1>10, <1>11,
           <1>12, <1>13 DEF Next, Irq, Kernel, KernelRun

\* Type correctness of the whole path; translate is only ever given a byte.
THEOREM TypeCorrect == Spec => []TypeOK
<1>1. Init => TypeOK
  <2> SUFFICES ASSUME Init PROVE TypeOK
    OBVIOUS
  <2>0. BootTypeOK
    <3>1. port \in 0 .. MaxBytes /\ base \in 0 .. 255 /\ expects \in Words /\ boot \in 0 .. 7
      BY MaxBytesAssumption DEF Init, BootInit, Words
    <3> QED BY <3>1, Zenon DEF Init, BootInit, BootTypeOK
  <2>1. 0 \in Bytes /\ 0 \in Ring!Slots
    BY SizeAssumption, MaxBytesAssumption DEF Bytes, Ring!Slots
  <2>2. Ring!TypeOK
    BY <2>1 DEF Init, Ring!Init, Ring!TypeOK
  <2>3. delivered \in Seq(Bytes)
    BY DEF Init
  <2> QED BY <2>0, <2>1, <2>2, <2>3, Zenon DEF Init, TypeOK
<1> QED BY <1>1, TypeStep, PTL DEF Spec

-----------------------------------------------------------------------------
LEMMA LockStep == TypeOK /\ LockDiscipline /\ [Next]_vars => LockDiscipline'
<1> SUFFICES ASSUME TypeOK, LockDiscipline, [Next]_vars PROVE LockDiscipline'
  OBVIOUS
<1> USE DEF LockDiscipline, KernelInside, HandlerInside, TypeOK,
            machine, keyboard, pic, cpu, ring, reader, handler, history
<1>0. CASE Starting
  BY <1>0 DEF Starting
<1>1. CASE Keyboard
  BY <1>1 DEF Keyboard
<1>2. CASE Irq
  BY <1>2 DEF Irq, IrqEnter, IrqRead, IrqLock, IrqPush, IrqReturn
<1>3. CASE Kernel
  BY <1>0, <1>3 DEF Kernel, KernelRun, Lock, Pop, Unlock, OutputReady, ReadScancode, Deliver
<1>4. CASE UNCHANGED vars
  BY <1>4 DEF vars
<1> QED BY <1>1, <1>2, <1>3, <1>4 DEF Next

\* Mutual exclusion of the handler and the kernel inside the ring.
THEOREM LockHeld == Spec => []LockDiscipline
<1>1. Init => LockDiscipline
  BY DEF Init, LockDiscipline, KernelInside, HandlerInside
<1> QED BY <1>1, LockStep, TypeCorrect, PTL DEF Spec

-----------------------------------------------------------------------------
\* What the operations of the ring do to the set of the bytes in it.
LEMMA SetAppend ==
  ASSUME NEW S, NEW s \in Seq(S), NEW e \in S
  PROVE  ToSet(Append(s, e)) = ToSet(s) \cup {e}
<1>1. DOMAIN Append(s, e) = DOMAIN s \cup {Len(s) + 1}
  OBVIOUS
<1>2. \A i \in DOMAIN s : Append(s, e)[i] = s[i]
  OBVIOUS
<1>3. Append(s, e)[Len(s) + 1] = e
  OBVIOUS
<1> QED BY <1>1, <1>2, <1>3, Zenon DEF ToSet

LEMMA SetTail ==
  ASSUME NEW S, NEW s \in Seq(S), s # <<>>
  PROVE  /\ ToSet(s) = {Head(s)} \cup ToSet(Tail(s))
         /\ Tail(s) \in Seq(S)
         /\ Head(s) \in S
<1>1. \A i \in DOMAIN s : i = 1 \/ i - 1 \in DOMAIN Tail(s)
  OBVIOUS
<1>2. \A i \in DOMAIN Tail(s) : i + 1 \in DOMAIN s /\ Tail(s)[i] = s[i + 1]
  OBVIOUS
<1>3. 1 \in DOMAIN s /\ Head(s) = s[1]
  OBVIOUS
<1>4. \A i \in DOMAIN s : s[i] = Head(s) \/ s[i] = Tail(s)[i - 1]
  OBVIOUS
<1> QED BY <1>1, <1>2, <1>3, <1>4 DEF ToSet

LEMMA LostStep == TypeOK /\ NothingLost /\ [Next]_vars => NothingLost'
<1> SUFFICES ASSUME TypeOK, NothingLost, [Next]_vars,
                    NEW b \in (1 .. port)'
             PROVE  (InController(b) \/ InHandler(b) \/ InRing(b)
                       \/ InReader(b) \/ Answered(b))'
  BY DEF NothingLost
<1>t. /\ port \in Nat /\ port' \in Nat /\ b \in Nat
      /\ b # NoByte
      /\ Ring!Contents \in Seq(Bytes)
      /\ delivered \in Seq(Bytes)
      /\ TypeOK'
  BY TypeStep, RingTyped, NoByteAssumption DEF TypeOK, BootTypeOK, Bytes
<1> USE DEF InController, InHandler, InRing, InReader, Answered, NothingLost,
            machine, keyboard, pic, cpu, ring, reader, handler, history
<1>0. CASE Starting
  <2>1. UNCHANGED keyboard
    BY <1>0 DEF Starting, Start, SetupIdt, SetupPic, Sti
  <2> QED BY <1>0, <1>t, <2>1, RingStays DEF Starting
<1>1. CASE Keyboard
  BY <1>1, <1>t, RingStays DEF Keyboard, LoadByte
<1>2. CASE IrqEnter
  BY <1>2, RingStays DEF IrqEnter
<1>3. CASE IrqRead
  BY <1>3, RingStays DEF IrqRead
<1>4. CASE IrqLock
  BY <1>4, RingStays DEF IrqLock
<1>5. CASE IrqPush
  <2>1. byte \in Bytes /\ Ring!Push(byte)
    BY <1>5 DEF IrqPush, TypeOK
  <2>2. CASE Ring!Full
    <3>1. Ring!Contents' = Ring!Contents
      BY <2>1, <2>2, RingPush
    <3> QED BY <1>5, <2>2, <3>1 DEF IrqPush, Ring!Push
  <2>3. CASE ~Ring!Full
    <3>1. Ring!Contents' = Append(Ring!Contents, byte)
      BY <2>1, <2>3, RingPush
    <3>2. ToSet(Ring!Contents') = ToSet(Ring!Contents) \cup {byte}
      BY <1>t, <2>1, <3>1, SetAppend
    <3> QED BY <1>5, <3>2 DEF IrqPush, Ring!Push
  <2> QED BY <2>2, <2>3
<1>6. CASE IrqReturn
  BY <1>6, RingStays DEF IrqReturn
<1>7. CASE Lock
  BY <1>7, RingStays DEF Lock
<1>8. CASE Pop
  <2>1. ToSet(Ring!Contents) \subseteq ToSet(Ring!Contents)' \cup {code'}
    BY <1>8, <1>t, RingPop, SetTail DEF Pop
  <2> QED BY <1>8, <2>1 DEF Pop
<1>9. CASE Unlock
  BY <1>9, <1>t, RingStays DEF Unlock
<1>10. CASE OutputReady
  BY <1>10, RingStays DEF OutputReady
<1>11. CASE ReadScancode
  BY <1>11, RingStays DEF ReadScancode
<1>12. CASE Deliver
  <2>1. ToSet(delivered)' = ToSet(delivered) \cup {code}
    BY <1>12, <1>t, SetAppend DEF Deliver, TypeOK
  <2> QED BY <1>12, <2>1, RingStays DEF Deliver
<1>13. CASE UNCHANGED vars
  BY <1>13, RingStays DEF vars
<1> QED BY <1>0, <1>1, <1>2, <1>3, <1>4, <1>5, <1>6, <1>7, <1>8, <1>9, <1>10, <1>11,
           <1>12, <1>13 DEF Next, Irq, Kernel, KernelRun

\* No byte the keyboard sends disappears, whatever the interleaving of
\* handler and kernel.
THEOREM NothingEverLost == Spec => []NothingLost
<1>1. Init => NothingLost
  BY DEF Init, BootInit, NothingLost
<1> QED BY <1>1, LostStep, TypeCorrect, PTL DEF Spec

-----------------------------------------------------------------------------
\* A sequence in ascending order of numbers that do not exceed m.
Ascending(s, m) ==
  /\ \A b \in ToSet(s) : b <= m
  /\ \A i, j \in DOMAIN s : i <= j => s[i] <= s[j]

LEMMA SeqSubset ==
  ASSUME NEW S, NEW T, S \subseteq T, NEW s \in Seq(S)
  PROVE  s \in Seq(T)
<1>1. s \in [1 .. Len(s) -> S] /\ Len(s) \in Nat
  OBVIOUS
<1>2. s \in [1 .. Len(s) -> T]
  BY <1>1
<1> QED BY <1>1, <1>2

LEMMA AscendingAppend ==
  ASSUME NEW s \in Seq(Nat), NEW e \in Nat, Ascending(s, e)
  PROVE  Ascending(Append(s, e), e)
<1>1. \A b \in ToSet(Append(s, e)) : b <= e
  BY SetAppend DEF Ascending
<1>2. \A i \in DOMAIN s : s[i] <= e
  BY DEF Ascending, ToSet
<1>3. \A i, j \in DOMAIN Append(s, e) :
        i <= j => Append(s, e)[i] <= Append(s, e)[j]
  BY <1>2 DEF Ascending
<1> QED BY <1>1, <1>3 DEF Ascending

LEMMA AscendingTail ==
  ASSUME NEW s \in Seq(Nat), s # <<>>, NEW m \in Nat, Ascending(s, m)
  PROVE  Ascending(Tail(s), m)
<1>1. \A b \in ToSet(Tail(s)) : b <= m
  BY SetTail DEF Ascending
<1>2. \A i, j \in DOMAIN Tail(s) : i <= j => Tail(s)[i] <= Tail(s)[j]
  BY DEF Ascending
<1> QED BY <1>1, <1>2 DEF Ascending

LEMMA AscendingGrows ==
  ASSUME NEW s \in Seq(Nat), NEW m \in Nat, NEW n \in Nat, m <= n, Ascending(s, m)
  PROVE  Ascending(s, n)
<1>1. \A b \in ToSet(s) : b \in Nat
  BY DEF ToSet
<1> QED BY <1>1 DEF Ascending

LEMMA OrderStep == TypeOK /\ BufferedInOrder /\ [Next]_vars => BufferedInOrder'
<1> SUFFICES ASSUME TypeOK, BufferedInOrder, [Next]_vars PROVE BufferedInOrder'
  OBVIOUS
<1>t. /\ port \in Nat /\ byte \in Nat /\ port' \in Nat /\ byte' \in Nat
      /\ Ring!Contents \in Seq(Nat)
  <2>1. Bytes \subseteq Nat
    BY DEF Bytes
  <2>2. Ring!Contents \in Seq(Nat)
    BY <2>1, RingTyped, SeqSubset
  <2>3. TypeOK'
    BY TypeStep
  <2>4. port \in Nat /\ port' \in Nat
    BY <2>3 DEF TypeOK, BootTypeOK
  <2>5. byte \in Nat /\ byte' \in Nat
    BY <2>1, <2>3 DEF TypeOK
  <2> QED BY <2>2, <2>4, <2>5
<1>o. /\ byte <= port
      /\ Ascending(Ring!Contents, Newest)
  BY DEF BufferedInOrder, Ascending
<1>s. SUFFICES /\ byte' <= port'
               /\ Ascending(Ring!Contents', Newest')
  BY DEF BufferedInOrder, Ascending
<1> USE DEF machine, keyboard, pic, cpu, ring, reader, handler, history
<1>1. ASSUME UNCHANGED <<ring, byte>>, Newest' \in Nat, Newest <= Newest', port <= port'
      PROVE  byte' <= port' /\ Ascending(Ring!Contents', Newest')
  BY <1>1, <1>t, <1>o, RingStays, AscendingGrows DEF Newest
<1>0. CASE Starting
  <2>1. UNCHANGED keyboard
    BY <1>0 DEF Starting, Start, SetupIdt, SetupPic, Sti
  <2> QED BY <1>0, <1>1, <1>t, <1>o, <2>1 DEF Starting, Newest
<1>2. CASE Keyboard
  BY <1>1, <1>2, <1>t, <1>o DEF Keyboard, LoadByte, Newest
<1>3. CASE IrqEnter \/ IrqLock \/ IrqReturn
  BY <1>1, <1>3, <1>t, <1>o DEF IrqEnter, IrqLock, IrqReturn, Newest
<1>4. CASE IrqRead
  BY <1>4, <1>t, <1>o, RingStays DEF IrqRead, Newest
<1>5. CASE IrqPush
  <2>1. byte \in Bytes /\ Ring!Push(byte) /\ Newest = byte /\ Newest' = port
    BY <1>5 DEF IrqPush, TypeOK, Newest
  <2>2. Ascending(Ring!Contents', byte)
    BY <2>1, <1>t, <1>o, RingPush, AscendingAppend
  <2>3. Ring!Contents' \in Seq(Nat)
    <3>1. Append(Ring!Contents, byte) \in Seq(Nat)
      BY <1>t
    <3> QED BY <2>1, <3>1, <1>t, RingPush
  <2> QED BY <1>5, <1>t, <1>o, <2>1, <2>2, <2>3, AscendingGrows DEF IrqPush
<1>6. CASE Lock \/ Unlock \/ OutputReady \/ ReadScancode \/ Deliver
  BY <1>1, <1>6, <1>t, <1>o
     DEF Lock, Unlock, OutputReady, ReadScancode, Deliver, Newest
<1>7. CASE Pop
  <2>1. Newest' = Newest /\ byte' <= port'
    BY <1>7, <1>o DEF Pop, Newest
  <2> QED BY <1>7, <2>1, <1>t, <1>o, RingPop, AscendingTail DEF Pop, Newest
<1>8. CASE UNCHANGED vars
  BY <1>1, <1>8, <1>t, <1>o DEF vars, Newest
<1> QED BY <1>0, <1>2, <1>3, <1>4, <1>5, <1>6, <1>7, <1>8
        DEF Next, Irq, Kernel, KernelRun

\* The ring keeps the keyboard's order, stale reads of the handler included.
THEOREM RingInOrder == Spec => []BufferedInOrder
<1>1. Init => BufferedInOrder
  <2> SUFFICES ASSUME Init PROVE BufferedInOrder
    OBVIOUS
  <2>1. Ring!Contents = <<>>
    BY DEF Init, Ring!Init, Ring!Contents, Ring!Count
  <2> QED BY <2>1 DEF Init, BootInit, BufferedInOrder, ToSet
<1> QED BY <1>1, OrderStep, TypeCorrect, PTL DEF Spec

-----------------------------------------------------------------------------
\* How far the interrupt controller is at each step of _start, and that neither
\* the interrupt flag nor the handler runs ahead of it.
BootInv ==
  /\ boot \in 0 .. 7
  /\ boot >= 1 => KeyboardGate \in gates
  /\ boot = 2 => expects = "icw2"
  /\ boot >= 3 => base = 32
  /\ boot = 3 => expects = "icw3"
  /\ boot = 4 => expects = "icw4"
  /\ boot \in 5 .. 7 => expects = "mask"
  /\ enabled => Running
  /\ NeverAstray

LEMMA BootStep == BootInv /\ [Next]_vars => BootInv'
<1> SUFFICES ASSUME BootInv, [Next]_vars PROVE BootInv'
  OBVIOUS
<1> USE DEF BootInv, NeverAstray, Running, machine, keyboard, pic, cpu, handler
<1>1. CASE Keyboard
  BY <1>1 DEF Keyboard, LoadByte
<1>2. CASE Starting
  <2>1. CASE SetupIdt
    BY <1>2, <2>1 DEF Starting, SetupIdt, Vectors, KeyboardGate
  <2>2. CASE SetupPic /\ boot = 1
    BY <1>2, <2>2 DEF Starting, SetupPic, PicCommand
  <2>3. CASE SetupPic /\ boot # 1
    <3>1. PicWords[1] = 32
      BY DEF PicWords
    <3>2. PicData(PicWords[boot - 1]) /\ boot \in 2 .. 5
      BY <2>3 DEF SetupPic
    <3>3. boot = 2 => base' = 32 /\ expects' = "icw3"
      BY <3>1, <3>2 DEF PicData
    <3>4. boot = 3 => base' = base /\ expects' = "icw4"
      BY <3>2 DEF PicData
    <3>5. boot \in 4 .. 5 => base' = base /\ expects' = "mask"
      BY <3>2 DEF PicData
    <3> QED BY <1>2, <2>3, <3>2, <3>3, <3>4, <3>5 DEF Starting, SetupPic
  <2>4. CASE Sti
    BY <1>2, <2>4 DEF Starting, Sti
  <2> QED BY <1>2, <2>1, <2>2, <2>3, <2>4 DEF Starting, Start
<1>3. CASE IrqEnter
  BY <1>3 DEF IrqEnter, Interrupting, Vector, KeyboardGate
<1>4. CASE IrqRead \/ IrqLock \/ IrqPush \/ IrqReturn
  BY <1>4 DEF IrqRead, IrqLock, IrqPush, IrqReturn
<1>5. CASE KernelRun
  BY <1>5 DEF KernelRun, Lock, Pop, Unlock, OutputReady, ReadScancode, Deliver
<1>6. CASE UNCHANGED vars
  BY <1>6 DEF vars
<1> QED BY <1>1, <1>2, <1>3, <1>4, <1>5, <1>6 DEF Next, Irq, Kernel

\* No request of the keyboard is ever taken for an exception, at whatever step
\* of the boot it is made.
THEOREM NeverGoesAstray == Spec => []NeverAstray
<1>1. Init => BootInv
  BY DEF Init, BootInit, BootInv, NeverAstray, Running
<1>2. BootInv => NeverAstray
  BY DEF BootInv
<1> QED BY <1>1, <1>2, BootStep, PTL DEF Spec

-----------------------------------------------------------------------------
\* How often a byte occurs in what an operation leaves of a sequence.
LEMMA TimesType ==
  ASSUME NEW S, NEW s \in Seq(S), NEW b
  PROVE  /\ IsFiniteSet({i \in DOMAIN s : s[i] = b})
         /\ Times(s, b) \in Nat
<1>1. Len(s) \in Nat /\ DOMAIN s = 1 .. Len(s)
  OBVIOUS
<1>2. IsFiniteSet(1 .. Len(s))
  BY <1>1, FS_Interval
<1>3. {i \in DOMAIN s : s[i] = b} \in SUBSET (1 .. Len(s))
  BY <1>1
<1>4. IsFiniteSet({i \in DOMAIN s : s[i] = b})
  BY <1>2, <1>3, FS_Subset
<1> QED BY <1>4, FS_CardinalityType DEF Times

\* 1 for a byte that is there, and 0 for one that is not.
One(there) == IF there THEN 1 ELSE 0

LEMMA TimesAppend ==
  ASSUME NEW S, NEW s \in Seq(S), NEW e \in S, NEW b
  PROVE  Times(Append(s, e), b) = Times(s, b) + One(e = b)
<1> DEFINE old == {i \in DOMAIN s : s[i] = b}
           new == {i \in DOMAIN Append(s, e) : Append(s, e)[i] = b}
<1>1. DOMAIN Append(s, e) = DOMAIN s \cup {Len(s) + 1} /\ Len(s) + 1 \notin DOMAIN s
  OBVIOUS
<1>2. /\ \A i \in DOMAIN s : Append(s, e)[i] = s[i]
      /\ Append(s, e)[Len(s) + 1] = e
  OBVIOUS
<1>3. IsFiniteSet(old) /\ Times(s, b) = Cardinality(old) /\ Times(s, b) \in Nat
  BY TimesType DEF Times
<1>4. Times(Append(s, e), b) = Cardinality(new)
  BY DEF Times
<1>5. CASE e = b
  <2>1. new = old \cup {Len(s) + 1} /\ Len(s) + 1 \notin old
    BY <1>1, <1>2, <1>5
  <2>2. Cardinality(new) = Cardinality(old) + 1
    BY <1>3, <2>1, FS_AddElement
  <2> QED BY <1>3, <1>4, <1>5, <2>2 DEF One
<1>6. CASE e # b
  <2>1. new = old
    BY <1>1, <1>2, <1>6
  <2>2. Cardinality(new) = Cardinality(old)
    BY <2>1
  <2> HIDE DEF new, old
  <2> QED BY <1>3, <1>4, <1>6, <2>2 DEF One
<1> QED BY <1>5, <1>6

LEMMA TimesTail ==
  ASSUME NEW S, NEW s \in Seq(S), s # <<>>, NEW b
  PROVE  Times(s, b) = Times(Tail(s), b) + One(Head(s) = b)
<1> DEFINE old == {i \in DOMAIN s : s[i] = b}
           rest == {i \in DOMAIN s : i # 1 /\ s[i] = b}
           new == {i \in DOMAIN Tail(s) : Tail(s)[i] = b}
           f == [i \in new |-> i + 1]
<1>1. /\ Tail(s) \in Seq(S) /\ Head(s) = s[1] /\ 1 \in DOMAIN s
      /\ DOMAIN s = 1 .. Len(s) /\ Len(s) \in Nat \ {0}
      /\ DOMAIN Tail(s) = 1 .. Len(s) - 1
      /\ \A i \in DOMAIN Tail(s) : Tail(s)[i] = s[i + 1]
  OBVIOUS
<1>2. IsFiniteSet(old) /\ Times(s, b) = Cardinality(old) /\ Times(s, b) \in Nat
  BY TimesType DEF Times
<1>3. IsFiniteSet(new) /\ Times(Tail(s), b) = Cardinality(new) /\ Times(Tail(s), b) \in Nat
  BY <1>1, TimesType DEF Times
<1>4. Cardinality(rest) = Cardinality(new) /\ IsFiniteSet(rest)
  <2>1. f \in [new -> rest]
    BY <1>1
  <2>2. \A i, j \in new : f[i] = f[j] => i = j
    BY <1>1
  <2>3. \A k \in rest : \E i \in new : f[i] = k
    <3>1. ASSUME NEW k \in rest PROVE k - 1 \in new /\ f[k - 1] = k
      BY <1>1
    <3> QED BY <3>1
  <2>4. f \in Bijection(new, rest)
    <3> HIDE DEF new, rest, f
    <3>1. DOMAIN f = new
      BY <2>1
    <3> QED BY <3>1, <2>1, <2>2, <2>3 DEF Bijection, Injection, Surjection, IsInjective
  <2>5. ExistsBijection(new, rest)
    BY <2>4 DEF ExistsBijection
  <2> QED BY <1>3, <2>5, FS_Bijection
<1>5. CASE Head(s) = b
  <2>1. old = rest \cup {1} /\ 1 \notin rest
    BY <1>1, <1>5
  <2>2. Cardinality(old) = Cardinality(rest) + 1
    BY <1>4, <2>1, FS_AddElement
  <2> QED BY <1>2, <1>3, <1>4, <1>5, <2>2 DEF One
<1>6. CASE Head(s) # b
  <2>1. old = rest
    BY <1>1, <1>6
  <2>2. Cardinality(old) = Cardinality(rest)
    BY <2>1
  <2> HIDE DEF new, old, rest
  <2> QED BY <1>2, <1>3, <1>4, <1>6, <2>2 DEF One
<1> QED BY <1>5, <1>6

-----------------------------------------------------------------------------
\* The copies of a byte on its way and delivered, and the reads of port 0x60 that
\* may still come before the keyboard sends another: that of a handler entered
\* already, that of one to be entered, and one of read_key.
Copies(b) ==
  Times(delivered, b) + Times(Ring!Contents, b) + One(InHandler(b)) + One(InReader(b))

ReadsLeft ==
  One(irq = "read") + One(irr) + One(pc = "data" \/ (obf /\ irq # "read"))

\* A controller just emptied is not read by both of them.
CopiesInv ==
  /\ \A b \in Nat : Copies(b) <= IF b > port THEN 0 ELSE 2
  /\ \A b \in Nat : b = port => Copies(b) + ReadsLeft <= 2
  /\ ~obf /\ (irr \/ irq = "read") => pc # "data"
  /\ ~(irq = "read" /\ irr /\ pc = "data")

CountsOK ==
  \A b \in Nat : Times(delivered, b) \in Nat /\ Times(Ring!Contents, b) \in Nat

LEMMA CountsTyped == TypeOK => CountsOK
BY TimesType, RingTyped DEF TypeOK, CountsOK

LEMMA CountsTypedNext == TypeOK /\ [Next]_vars => CountsOK'
BY CountsTyped, TypeStep, PTL

\* Only a read of the port makes a copy, and it makes one of the last byte sent.
LEMMA CopiesStep ==
  ASSUME TypeOK, [Next]_vars, NEW b \in Nat
  PROVE  \/ Copies(b)' <= Copies(b)
         \/ /\ IrqRead \/ (irq = "idle" /\ ReadScancode)
            /\ b = port /\ Copies(b)' = Copies(b) + 1
<1>t. /\ Times(delivered, b) \in Nat /\ Times(delivered, b)' \in Nat
      /\ Times(Ring!Contents, b) \in Nat /\ Times(Ring!Contents, b)' \in Nat
      /\ Ring!Contents \in Seq(Bytes) /\ delivered \in Seq(Bytes)
  BY CountsTyped, CountsTypedNext, RingTyped DEF TypeOK, CountsOK
<1> USE DEF Copies, One, InHandler, InReader, ring, reader, handler, history
<1>1. CASE Keyboard \/ Starting \/ UNCHANGED vars
  BY <1>1, <1>t, RingStays DEF Keyboard, Starting, vars
<1>2. CASE IrqEnter \/ IrqLock \/ IrqReturn
  BY <1>2, <1>t, RingStays DEF IrqEnter, IrqLock, IrqReturn
<1>3. CASE IrqRead
  <2>1. /\ ~InHandler(b) /\ (InHandler(b)' <=> b = port)
        /\ InReader(b)' = InReader(b)
        /\ Times(delivered, b)' = Times(delivered, b)
        /\ Times(Ring!Contents, b)' = Times(Ring!Contents, b)
    BY <1>3, RingStays DEF IrqRead
  <2>2. Times(delivered, b) + Times(Ring!Contents, b) \in Nat
    BY <1>t
  <2> HIDE DEF InHandler, InReader
  <2> QED BY <1>3, <2>1, <2>2
<1>4. CASE IrqPush
  <2>1. byte \in Bytes /\ Ring!Push(byte)
    BY <1>4 DEF IrqPush, TypeOK
  <2>2. Times(Ring!Contents, b)' <= Times(Ring!Contents, b) + One(byte = b)
    <3>1. CASE Ring!Full
      BY <1>t, <2>1, <3>1, RingPush
    <3>2. CASE ~Ring!Full
      <4>1. Ring!Contents' = Append(Ring!Contents, byte)
        BY <2>1, <3>2, RingPush
      <4> QED BY <1>t, <2>1, <4>1, TimesAppend
    <3> QED BY <3>1, <3>2
  <2> QED BY <1>4, <1>t, <2>2 DEF IrqPush, Ring!Push
<1>5. CASE Lock \/ Unlock \/ OutputReady
  BY <1>5, <1>t, RingStays DEF Lock, Unlock, OutputReady
<1>6. CASE Pop
  <2>1. \/ code' = NoByte /\ Ring!Contents' = Ring!Contents
        \/ Times(Ring!Contents, b) = Times(Ring!Contents, b)' + One(code' = b)
    <3>1. CASE Ring!Contents = <<>>
      BY <1>6, <3>1, RingPop DEF Pop
    <3>2. CASE Ring!Contents # <<>>
      <4>1. Times(Ring!Contents, b) = Times(Tail(Ring!Contents), b)
                                        + One(Head(Ring!Contents) = b)
        BY <1>t, <3>2, TimesTail
      <4>2. Ring!Contents' = Tail(Ring!Contents) /\ code' = Head(Ring!Contents)
        BY <1>6, <3>2, RingPop DEF Pop
      <4> QED BY <4>1, <4>2
    <3> QED BY <3>1, <3>2
  <2>2. b # NoByte
    BY NoByteAssumption
  <2> QED BY <1>6, <1>t, <2>1, <2>2 DEF Pop
<1>7. CASE irq = "idle" /\ ReadScancode
  BY <1>7, <1>t, RingStays DEF ReadScancode
<1>8. CASE Deliver
  <2>1. Times(delivered, b)' = Times(delivered, b) + One(code = b)
    BY <1>8, <1>t, TimesAppend DEF Deliver, TypeOK
  <2> QED BY <1>8, <1>t, <2>1, RingStays DEF Deliver
<1> QED BY <1>1, <1>2, <1>3, <1>4, <1>5, <1>6, <1>7, <1>8
        DEF Next, Irq, Kernel, KernelRun

\* A read takes one from the reads left, and only the keyboard adds to them.
LEMMA ReadCounts ==
  ASSUME TypeOK, IrqRead \/ (irq = "idle" /\ ReadScancode)
  PROVE  port' = port /\ ReadsLeft' < ReadsLeft
<1>1. CASE IrqRead
  <2>1. /\ irq = "read" /\ irq' = "lock" /\ ~obf' /\ irr' = irr
        /\ port' = port /\ pc' = pc
    BY <1>1 DEF IrqRead, pic, reader
  <2>2. (pc = "data" \/ (obf /\ irq # "read"))' <=> pc = "data"
    BY <2>1
  <2> QED BY <2>1, <2>2 DEF ReadsLeft, One
<1>2. CASE irq = "idle" /\ ReadScancode
  <2>1. /\ irq = "idle" /\ irq' = "idle" /\ ~obf' /\ irr' = irr
        /\ port' = port /\ pc = "data" /\ pc' = "deliver"
    BY <1>2 DEF ReadScancode, pic, handler
  <2>2. ~(pc = "data" \/ (obf /\ irq # "read"))'
    BY <2>1
  <2> QED BY <2>1, <2>2 DEF ReadsLeft, One
<1> QED BY <1>1, <1>2

\* What the other steps do to the reads left.
LEMMA ReadsFew ==
  ASSUME TypeOK, CopiesInv, [Next]_vars
  PROVE  \/ port' = port + 1 /\ ReadsLeft' <= 2
         \/ port' = port /\ ReadsLeft' <= ReadsLeft
<1> USE DEF machine, keyboard, pic, cpu, reader, handler
<1>1. CASE Keyboard
  <2>1. /\ port' = port + 1 /\ irq' = irq
        /\ irq = "read" => ~(pc = "data" \/ (obf /\ irq # "read"))'
    BY <1>1 DEF Keyboard, LoadByte, CopiesInv
  <2> DEFINE entered == One(irq' = "read")
             asked == One(irr')
             polled == One((pc = "data" \/ (obf /\ irq # "read"))')
  <2>2. ReadsLeft' = entered + asked + polled
    BY DEF ReadsLeft
  <2>3. asked \in 0 .. 1 /\ entered \in 0 .. 1 /\ polled \in 0 .. 1
    BY DEF One
  <2>4. entered = 0 \/ polled = 0
    BY <2>1 DEF One
  <2> HIDE DEF entered, asked, polled
  <2>5. ReadsLeft' <= 2
    BY <2>2, <2>3, <2>4
  <2> QED BY <2>1, <2>5
<1>2. CASE IrqRead \/ (irq = "idle" /\ ReadScancode)
  <2>1. ReadsLeft \in Nat /\ ReadsLeft' \in Nat
    BY DEF ReadsLeft, One
  <2>2. port' = port /\ ReadsLeft' < ReadsLeft
    BY <1>2, ReadCounts
  <2> QED BY <2>1, <2>2
<1>3. ASSUME irr' => irr,
             (pc = "data" \/ (obf /\ irq # "read"))' => pc = "data" \/ (obf /\ irq # "read"),
             irq' = "read" => irq = "read" \/ (irr /\ ~irr')
      PROVE  ReadsLeft' <= ReadsLeft
  BY <1>3 DEF ReadsLeft, One
<1>4. CASE Starting
  <2>1. UNCHANGED keyboard /\ (irr' = irr \/ irr' = FALSE)
    BY <1>4 DEF Starting, Start, SetupIdt, SetupPic, Sti, PicCommand, PicData
  <2> QED BY <1>3, <1>4, <2>1 DEF Starting
<1>5. CASE IrqEnter
  BY <1>3, <1>5 DEF IrqEnter, Interrupting
<1>6. CASE IrqLock \/ IrqPush \/ IrqReturn
  BY <1>3, <1>6 DEF IrqLock, IrqPush, IrqReturn
<1>7. CASE irq = "idle" /\ (Lock \/ Pop \/ Unlock \/ OutputReady \/ Deliver)
  BY <1>3, <1>7 DEF Lock, Pop, Unlock, OutputReady, Deliver
<1>8. CASE UNCHANGED vars
  BY <1>3, <1>8 DEF vars
<1> QED BY <1>1, <1>2, <1>4, <1>5, <1>6, <1>7, <1>8 DEF Next, Irq, Kernel, KernelRun

\* A byte the handler or read_key has taken is not there for the other as well.
LEMMA EmptiedStep ==
  ASSUME TypeOK, CopiesInv, [Next]_vars
  PROVE  /\ (~obf /\ (irr \/ irq = "read") => pc # "data")'
         /\ (~(irq = "read" /\ irr /\ pc = "data"))'
<1> USE DEF CopiesInv, machine, keyboard, pic, cpu, reader, handler
<1>1. CASE Keyboard
  BY <1>1 DEF Keyboard, LoadByte
<1>2. CASE Starting
  <2>1. UNCHANGED keyboard /\ (irr' = irr \/ irr' = FALSE)
    BY <1>2 DEF Starting, Start, SetupIdt, SetupPic, Sti, PicCommand, PicData
  <2> QED BY <1>2, <2>1 DEF Starting
<1>3. CASE IrqEnter
  BY <1>3 DEF IrqEnter, Interrupting
<1>4. CASE IrqRead \/ IrqLock \/ IrqPush \/ IrqReturn
  BY <1>4 DEF IrqRead, IrqLock, IrqPush, IrqReturn
<1>5. CASE irq = "idle" /\ (Lock \/ Pop \/ Unlock \/ OutputReady \/ ReadScancode \/ Deliver)
  BY <1>5 DEF Lock, Pop, Unlock, OutputReady, ReadScancode, Deliver
<1>6. CASE UNCHANGED vars
  BY <1>6 DEF vars
<1> QED BY <1>1, <1>2, <1>3, <1>4, <1>5, <1>6 DEF Next, Irq, Kernel, KernelRun

LEMMA CopiesInvStep == TypeOK /\ CopiesInv /\ [Next]_vars => CopiesInv'
<1> SUFFICES ASSUME TypeOK, CopiesInv, [Next]_vars PROVE CopiesInv'
  OBVIOUS
<1>t. /\ ReadsLeft \in Nat /\ ReadsLeft' \in Nat
      /\ \A b \in Nat : Copies(b) \in Nat /\ Copies(b)' \in Nat
      /\ port \in Nat /\ port' \in Nat
  <2>1. \A b \in Nat : Copies(b) \in Nat
    BY CountsTyped DEF CountsOK, Copies, One
  <2>2. \A b \in Nat : Copies(b)' \in Nat
    BY CountsTypedNext DEF CountsOK, Copies, One
  <2>3. TypeOK /\ TypeOK'
    BY TypeStep
  <2>4. port \in Nat /\ port' \in Nat
    BY <2>3 DEF TypeOK, BootTypeOK
  <2> QED BY <2>1, <2>2, <2>4 DEF ReadsLeft, One
<1>i. /\ \A b \in Nat : Copies(b) <= IF b > port THEN 0 ELSE 2
      /\ \A b \in Nat : b = port => Copies(b) + ReadsLeft <= 2
  BY DEF CopiesInv
<1>1. ASSUME NEW b \in Nat
      PROVE  /\ Copies(b)' <= IF b > port' THEN 0 ELSE 2
             /\ b = port' => Copies(b)' + ReadsLeft' <= 2
  <2>1. CASE Copies(b)' <= Copies(b)
    BY <1>t, <1>i, <2>1, ReadsFew
  <2>2. CASE /\ IrqRead \/ (irq = "idle" /\ ReadScancode)
             /\ b = port /\ Copies(b)' = Copies(b) + 1
    <3>1. port' = port /\ ReadsLeft' < ReadsLeft
      BY <2>2, ReadCounts
    <3>2. Copies(b) + ReadsLeft <= 2
      BY <1>i, <2>2
    <3>3. Copies(b) \in Nat /\ ReadsLeft \in Nat /\ ReadsLeft' \in Nat
      BY <1>t
    <3>4. Copies(b)' + ReadsLeft' <= 2 /\ Copies(b)' <= 2
      BY <2>2, <3>1, <3>2, <3>3
    <3> QED BY <1>t, <2>2, <3>1, <3>4
  <2> QED BY <2>1, <2>2, CopiesStep
<1> QED BY <1>1, EmptiedStep DEF CopiesInv

\* The race for port 0x60 hands the shell no byte a third time, however often
\* handler and read_key meet at it.
THEOREM NeverMoreThanTwice == Spec => []AtMostTwice
<1>1. Init => CopiesInv
  <2> SUFFICES ASSUME Init PROVE CopiesInv
    OBVIOUS
  <2>1. delivered = <<>> /\ Ring!Contents = <<>>
    BY DEF Init, Ring!Init, Ring!Contents, Ring!Count
  <2>2. \A b : Times(<<>>, b) = 0
    BY FS_EmptySet DEF Times
  <2> QED BY <2>1, <2>2
          DEF Init, BootInit, CopiesInv, Copies, ReadsLeft, One, InHandler, InReader
<1>2. TypeOK /\ CopiesInv => AtMostTwice
  <2> SUFFICES ASSUME TypeOK, CopiesInv, NEW b \in 1 .. port
               PROVE  Times(delivered, b) <= 2
    BY DEF AtMostTwice
  <2>1. b \in Nat /\ port \in Nat /\ ~(b > port)
    BY DEF TypeOK, BootTypeOK
  <2>2. Copies(b) <= 2
    BY <2>1 DEF CopiesInv
  <2>3. Times(delivered, b) \in Nat /\ Times(Ring!Contents, b) \in Nat
    BY <2>1, CountsTyped DEF CountsOK
  <2>4. One(InHandler(b)) \in Nat /\ One(InReader(b)) \in Nat
    BY DEF One
  <2> QED BY <2>2, <2>3, <2>4 DEF Copies
<1> QED BY <1>1, <1>2, CopiesInvStep, TypeCorrect, PTL DEF Spec
=============================================================================

----------------------------- MODULE InputPath -----------------------------
(***************************************************************************)
(* The way of a scancode from the keyboard controller to the kernel: the   *)
(* IRQ1 handler of interrupts.rs, the ring buffer behind its spinlock, and *)
(* Keyboard::read_key, called in a loop by Kernel::run, on the machine     *)
(* that module Boot sets up.                                               *)
(*                                                                         *)
(* There is one CPU.  The handler runs behind an interrupt gate, with      *)
(* interrupts disabled, so the kernel takes no step until it returns; it   *)
(* may start between any two steps of the kernel, which never disables     *)
(* interrupts.                                                             *)
(*                                                                         *)
(* An operator marked "Slip" is not the code: it is a mistake one could    *)
(* make in the definition after it, and a property has to notice it.       *)
(***************************************************************************)
EXTENDS Boot, SequencesExt

CONSTANTS N,         \* slots of the ring buffer
          NoByte     \* the None of pop_scancode

ASSUME SizeAssumption == N \in Nat \ {0}
ASSUME NoByteAssumption == NoByte \notin Nat

VARIABLES
  \* static SCANCODES: Locked<ScancodeBuffer>
  buffer, head, tail, locked,
  \* the kernel's loop: its next step, and the byte in its hands
  pc, code,
  \* the IRQ1 handler: its next step, and the byte in its hands
  irq, byte,
  \* history
  delivered,         \* the bytes read_key translated, in order
  dropped            \* the bytes push refused because the ring was full

ring == <<buffer, head, tail>>
reader == <<pc, code>>
handler == <<irq, byte>>
history == <<delivered, dropped>>
vars == <<machine, ring, locked, reader, handler, history>>

Bytes == 0 .. MaxBytes

Ring == INSTANCE ScancodeBuffer WITH popped <- code

TypeOK ==
  /\ Ring!TypeOK
  /\ pc = "deliver" => code \in Bytes
  /\ BootTypeOK
  /\ locked \in BOOLEAN
  /\ pc \in {"lock", "pop", "unlock", "status", "data", "deliver"}
  /\ irq \in {"idle", "read", "lock", "push", "eoi", "astray"}
  /\ byte \in Bytes
  /\ delivered \in Seq(Bytes)
  /\ dropped \subseteq Bytes

Init ==
  /\ Ring!Init
  /\ BootInit
  /\ locked = FALSE
  /\ pc = "lock"
  /\ irq = "idle"
  /\ byte = 0
  /\ delivered = <<>>
  /\ dropped = {}

-----------------------------------------------------------------------------
\* The keyboard and _start, beside the rest.
Keyboard == LoadByte /\ UNCHANGED <<ring, locked, reader, handler, history>>

Starting == Start /\ UNCHANGED <<ring, locked, reader, handler, history>>

-----------------------------------------------------------------------------
\* keyboard_interrupt_inner, if the request for IRQ1 finds its way there.
IrqEnter ==
  /\ irq = "idle"
  /\ Interrupting
  /\ irr' = FALSE
  /\ irq' = IF Vector = KeyboardGate /\ Vector \in gates THEN "read" ELSE "astray"
  /\ UNCHANGED <<keyboard, masked, base, expects, cpu, ring, locked, reader, byte, history>>

IrqRead ==
  /\ irq = "read"
  /\ byte' = port
  /\ obf' = FALSE
  /\ irq' = "lock"
  /\ UNCHANGED <<port, pic, cpu, ring, locked, reader, history>>

\* Slip: the lock is taken without waiting for it.
IrqLock_Barging ==
  /\ irq = "lock"
  /\ locked' = TRUE
  /\ irq' = "push"
  /\ UNCHANGED <<machine, ring, reader, byte, history>>

\* SCANCODES.lock() spins until it sees the lock free.
IrqLock ==
  /\ irq = "lock"
  /\ ~locked
  /\ locked' = TRUE
  /\ irq' = "push"
  /\ UNCHANGED <<machine, ring, reader, byte, history>>

\* The guard is a temporary: the lock is released when push returns.
IrqPush ==
  /\ irq = "push"
  /\ Ring!Push(byte)
  /\ dropped' = IF Ring!Full THEN dropped \cup {byte} ELSE dropped
  /\ locked' = FALSE
  /\ irq' = "eoi"
  /\ UNCHANGED <<machine, pc, byte, delivered>>

IrqReturn ==
  /\ irq = "eoi"
  /\ irq' = "idle"
  /\ UNCHANGED <<machine, ring, locked, reader, byte, history>>

-----------------------------------------------------------------------------
\* pop_scancode, called by read_key
Lock ==
  /\ pc = "lock"
  /\ ~locked
  /\ locked' = TRUE
  /\ pc' = "pop"
  /\ UNCHANGED <<machine, ring, code, handler, history>>

Pop ==
  /\ pc = "pop"
  /\ Ring!Pop
  /\ pc' = "unlock"
  /\ UNCHANGED <<machine, locked, handler, history>>

\* Slip: what pop_scancode returned is not looked at.
Unlock_Unchecked ==
  /\ pc = "unlock"
  /\ locked' = FALSE
  /\ pc' = "deliver"
  /\ UNCHANGED <<machine, ring, code, handler, history>>

\* Slip: read_key always goes on to the port.
Unlock_Polls ==
  /\ pc = "unlock"
  /\ locked' = FALSE
  /\ pc' = "status"
  /\ UNCHANGED <<machine, ring, code, handler, history>>

Unlock ==
  /\ pc = "unlock"
  /\ locked' = FALSE
  /\ pc' = IF code = NoByte THEN "status" ELSE "deliver"
  /\ UNCHANGED <<machine, ring, code, handler, history>>

\* The fallback of read_key: output_ready, then read_scancode.
\* Slip: the ring is trusted to hold every byte, as the comment at keyboard.rs:120 says.
OutputReady_Never ==
  /\ pc = "status"
  /\ pc' = "lock"
  /\ UNCHANGED <<machine, ring, locked, code, handler, history>>

OutputReady ==
  /\ pc = "status"
  /\ pc' = IF obf THEN "data" ELSE "lock"
  /\ UNCHANGED <<machine, ring, locked, code, handler, history>>

ReadScancode ==
  /\ pc = "data"
  /\ code' = port
  /\ obf' = FALSE
  /\ pc' = "deliver"
  /\ UNCHANGED <<port, pic, cpu, ring, locked, handler, history>>

\* translate and handle_key_event
Deliver ==
  /\ pc = "deliver"
  /\ delivered' = Append(delivered, code)
  /\ pc' = "lock"
  /\ UNCHANGED <<machine, ring, locked, code, handler, dropped>>

-----------------------------------------------------------------------------
Irq == IrqEnter \/ IrqRead \/ IrqLock \/ IrqPush \/ IrqReturn

\* The kernel runs only while no handler does, and enters its loop after sti.
KernelRun ==
  /\ Running
  /\ Lock \/ Pop \/ Unlock \/ OutputReady \/ ReadScancode \/ Deliver

Kernel ==
  /\ irq = "idle"
  /\ Starting \/ KernelRun

Next == Keyboard \/ Irq \/ Kernel

Spec == Init /\ [][Next]_vars

\* The CPU executes instructions as long as it is on, and takes a pending
\* interrupt while interrupts are enabled.  The keyboard owes nothing.
FairSpec == Spec /\ WF_vars(Irq) /\ WF_vars(Kernel)

-----------------------------------------------------------------------------
\* Mutual exclusion: handler and kernel are never both inside the ring, and the
\* lock is held exactly while one of them is.  (Locked::lock, vga.rs; its two
\* users are keyboard_interrupt_inner and pop_scancode.)
KernelInside == pc \in {"pop", "unlock"}
HandlerInside == irq = "push"

LockDiscipline ==
  /\ ~(KernelInside /\ HandlerInside)
  /\ locked <=> KernelInside \/ HandlerInside

\* Where a byte can be between the controller and the shell.
InController(b) == obf /\ port = b
InHandler(b) == irq \in {"lock", "push"} /\ byte = b
InRing(b) == b \in ToSet(Ring!Contents)
InReader(b) == pc \in {"unlock", "deliver"} /\ code = b

Answered(b) == b \in ToSet(delivered) \/ b \in dropped

\* No byte disappears: at every step each byte sent is still on its way, has
\* been delivered, or was refused by a full ring.  Neither the race for port
\* 0x60 between handler and read_key nor a wrap of the ring loses one.
NothingLost ==
  \A b \in 1 .. port :
    InController(b) \/ InHandler(b) \/ InRing(b) \/ InReader(b) \/ Answered(b)

\* The ring never holds bytes in another order than the keyboard sent them,
\* although the handler may read a byte again that read_key polled away: what
\* the ring holds is never newer than the byte the handler is about to push.
Newest == IF irq \in {"lock", "push"} THEN byte ELSE port

BufferedInOrder ==
  /\ byte <= port
  /\ \A b \in ToSet(Ring!Contents) : b <= Newest
  /\ \A i, j \in DOMAIN Ring!Contents : i <= j => Ring!Contents[i] <= Ring!Contents[j]

\* The polling race gives the shell a byte at most once more than it was sent:
\* a byte is read once by the handler and at most once by read_key, or twice by a
\* handler that was entered for a byte read_key had polled away.
Times(s, b) == Cardinality({i \in DOMAIN s : s[i] = b})

AtMostTwice == \A b \in 1 .. port : Times(delivered, b) <= 2

\* The handler waits for a lock that only the kernel it interrupted can release.
Collided == irq = "lock" /\ locked

\* Every byte sent reaches the shell or is refused by a full ring, unless the
\* handler ever interrupts the kernel inside pop_scancode.  That includes a byte
\* sent during boot whose request setup_pic wipes out: no interrupt will ever
\* come for it, or for any byte after it, until read_key polls it.
EveryByteAnswered ==
  \A b \in 1 .. MaxBytes : port >= b ~> Answered(b) \/ Collided

\* interrupts.rs:398 promises of the handler that it "guarantees the PS/2
\* controller buffer never overflows or locks up typing": a byte in the
\* controller is always taken out of it again.
ControllerDrained == obf ~> ~obf

\* A request for IRQ1 is never taken as an exception of the CPU, and never goes
\* to a gate that is not there: interrupts.rs:257 remaps the controller "to avoid
\* collision with CPU exceptions 0-31", and sti comes after the last of its bytes.
NeverAstray == irq # "astray"
=============================================================================

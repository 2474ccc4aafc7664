-------------------------------- MODULE Boot --------------------------------
(***************************************************************************)
(* The hardware between the keyboard and the CPU, and how _start sets it   *)
(* up: interrupts::init fills the IDT and reprograms the interrupt         *)
(* controller, byte after byte, and the last thing before Kernel::run is   *)
(* sti.  The keyboard may send a byte between any two of these steps.      *)
(*                                                                         *)
(* The keyboard numbers its bytes 1, 2, ... in the order it sends them, so *)
(* that a byte and its place in the order are one thing.  Of the two       *)
(* interrupt controllers only the first is modelled: IRQ1 is one of its    *)
(* lines.                                                                  *)
(*                                                                         *)
(* An operator marked "Slip" is not the code: it is a mistake one could    *)
(* make in the definition after it, and a property has to notice it.       *)
(***************************************************************************)
EXTENDS Naturals, Sequences

CONSTANT MaxBytes    \* bound: bytes the keyboard sends in one behaviour

ASSUME MaxBytesAssumption == MaxBytes \in Nat

VARIABLES
  \* keyboard controller (external)
  port,              \* last byte sent: what a read of port 0x60 returns
  obf,               \* output buffer full: bit 0 of port 0x64
  \* interrupt controller (external)
  irr,               \* IRQ1 requested and not yet taken
  masked,            \* bit 1 of the interrupt mask
  base,              \* vector of IRQ0
  expects,           \* what the next byte to its data port means
  \* CPU
  gates,             \* the vectors the IDT has a handler for
  enabled,           \* the interrupt flag
  boot               \* steps of _start behind us

keyboard == <<port, obf>>
pic == <<irr, masked, base, expects>>
cpu == <<gates, enabled, boot>>
machine == <<keyboard, pic, cpu>>

Words == {"icw2", "icw3", "icw4", "mask"}

BootTypeOK ==
  /\ port \in 0 .. MaxBytes
  /\ obf \in BOOLEAN /\ irr \in BOOLEAN /\ masked \in BOOLEAN
  /\ base \in 0 .. 255 /\ expects \in Words
  /\ gates \subseteq 0 .. 255
  /\ enabled \in BOOLEAN
  /\ boot \in 0 .. 7

\* What the BIOS and the boot loader leave: IRQ0 on vector 8, interrupts off.
BootInit ==
  /\ port = 0 /\ obf = FALSE
  /\ irr = FALSE /\ masked \in BOOLEAN
  /\ base = 8 /\ expects = "mask"
  /\ gates = {} /\ enabled = FALSE
  /\ boot = 0

-----------------------------------------------------------------------------
\* The controller shows its next byte once the last one has been read.  The
\* request for IRQ1 is latched on the edge: reading the byte does not withdraw it.
LoadByte ==
  /\ ~obf
  /\ port < MaxBytes
  /\ port' = port + 1
  /\ obf' = TRUE
  /\ irr' = TRUE
  /\ UNCHANGED <<masked, base, expects, cpu>>

\* A byte on the command port starts the initialisation: it forgets what was
\* requested before, and unmasks every line.
PicCommand ==
  /\ irr' = FALSE
  /\ masked' = FALSE
  /\ expects' = "icw2"
  /\ UNCHANGED base

PicData(v) ==
  \/ expects = "icw2" /\ base' = v /\ expects' = "icw3" /\ UNCHANGED <<irr, masked>>
  \/ expects = "icw3" /\ expects' = "icw4" /\ UNCHANGED <<irr, masked, base>>
  \/ expects = "icw4" /\ expects' = "mask" /\ UNCHANGED <<irr, masked, base>>
  \/ expects = "mask" /\ masked' = (v \div 2 % 2 = 1) /\ UNCHANGED <<irr, base, expects>>

-----------------------------------------------------------------------------
Vectors == {0, 8, 14, 32, 33}
KeyboardGate == 33

SetupIdt ==
  /\ boot = 0
  /\ gates' = gates \cup Vectors
  /\ boot' = 1
  /\ UNCHANGED <<keyboard, pic, enabled>>

\* What setup_pic writes after the command 0x11.
\* Slip: the controller keeps the vectors of the BIOS.
PicWords_Unmapped == <<8, 4, 1, 252>>

PicWords == <<32, 4, 1, 252>>

SetupPic ==
  /\ boot \in 1 .. 5
  /\ IF boot = 1 THEN PicCommand ELSE PicData(PicWords[boot - 1])
  /\ boot' = boot + 1
  /\ UNCHANGED <<keyboard, gates, enabled>>

Sti ==
  /\ boot = 6
  /\ enabled' = TRUE
  /\ boot' = 7
  /\ UNCHANGED <<keyboard, pic, gates>>

Start == SetupIdt \/ SetupPic \/ Sti

Running == boot = 7

\* The controller interrupts the CPU, which goes to the gate of its vector.
Interrupting == enabled /\ irr /\ ~masked /\ expects = "mask"
Vector == base + 1
=============================================================================

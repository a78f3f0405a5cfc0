------------------------------ MODULE QemuEdu -------------------------------
(***************************************************************************)
(* qemu_edu.c, a driver of QEMU's edu PCI device: its interrupt handler    *)
(* against the device, which raises bits of its status register and keeps  *)
(* the interrupt up while one is set, and a program with the register file *)
(* that the driver offers.                                                 *)
(***************************************************************************)
EXTENDS Naturals

CONSTANT Bits    \* What a program raises: bits of the status register.

IO_IRQ_STATUS == 36   \* 0x24; 0x60 and 0x64 are the other two of interest.
IO_IRQ_RAISE  == 96
IO_IRQ_ACK    == 100
DmaBit        == "dma"

VARIABLES
  driver,      \* "none", "probing" or "bound", which a failed probe is too.
  held,        \* What pci_probe took from the kernel and nobody gave back.
  dma,         \* The device copies, and will raise DmaBit.
  status,      \* The status register of the device: the set of its bits.
  handler, irq_status,   \* irq_handler, and its local variable.
  off, cat,    \* The file position, and what the program does with the file.
  unseen       \* Bits that rose and that no handler has read (a ghost).

vars == <<driver, held, dma, status, handler, irq_status, off, cat, unseen>>

Init == /\ driver = "none" /\ held = {} /\ dma = FALSE
        /\ status = {} /\ handler = "idle" /\ irq_status = {}
        /\ off = 0 /\ cat = "closed" /\ unseen = {}

Rise(bits) == /\ status' = status \cup bits
              /\ unseen' = unseen \cup (bits \ (status \cup irq_status))

-----------------------------------------------------------------------------
(* pci_probe, from myinit or when the device is plugged in.  Its steps in  *)
(* order; the chrdev and the mapping are not checked.                      *)
Needs == [chrdev  |-> {},
          enabled |-> {"chrdev"},
          region  |-> {"chrdev", "enabled"},
          irq     |-> {"chrdev", "enabled", "region"}]

Probe == /\ driver = "none" /\ driver' = "probing"
         /\ UNCHANGED held
         /\ UNCHANGED <<dma, status, handler, irq_status, off, cat, unseen>>

Take(r) == /\ driver = "probing" /\ r \notin held \ {"enabled"} /\ Needs[r] \subseteq held
           /\ held' = held \cup {r} \cup (IF r = "region" THEN {"mmio"} ELSE {})
           /\ UNCHANGED <<driver, dma, status, handler, irq_status, off, cat, unseen>>

(* The label error: 1 is returned, which the PCI core takes for success.   *)
TakeFails == /\ driver = "probing" /\ "chrdev" \in held /\ "irq" \notin held
             /\ driver' = "bound"
             /\ UNCHANGED <<held, dma, status, handler, irq_status, off, cat, unseen>>

(* The DMA test at the end of pci_probe.                                   *)
Probed == /\ driver = "probing" /\ "irq" \in held
          /\ driver' = "bound" /\ dma' = TRUE
          /\ UNCHANGED <<held, status, handler, irq_status, off, cat, unseen>>

(* pci_remove: free_irq waits for a handler that runs.  An open file keeps *)
(* the module, and rmmod with it.                                          *)
Remove == /\ driver = "bound" /\ handler = "idle" /\ cat = "closed"
          /\ driver' = "none" /\ held' = held \ {"irq", "region", "chrdev"}
          /\ UNCHANGED <<dma, status, handler, irq_status, off, cat, unseen>>

-----------------------------------------------------------------------------
DmaDone == /\ dma /\ dma' = FALSE /\ Rise({DmaBit})
           /\ UNCHANGED <<driver, held, handler, irq_status, off, cat>>

HandlerReads ==
  /\ "irq" \in held /\ status # {} /\ handler = "idle"
  /\ handler' = "ack" /\ irq_status' = status /\ unseen' = unseen \ status
  /\ UNCHANGED <<driver, held, dma, status, off, cat>>

(* Mutants: every bit is acknowledged, or none is.                         *)
AcksAll  == {}
AcksNone == status
Acked    == status \ irq_status

HandlerAcks ==
  /\ handler = "ack" /\ handler' = "idle"
  /\ status' = Acked /\ irq_status' = {}
  /\ UNCHANGED <<driver, held, dma, off, cat, unseen>>

-----------------------------------------------------------------------------
(* A program that seeks, writes a register, or reads until the end: cat.   *)
Open == /\ "chrdev" \in held /\ cat = "closed" /\ cat' = "open" /\ off' = 0
        /\ UNCHANGED <<driver, held, dma, status, handler, irq_status, unseen>>

Llseek(to) == /\ cat = "open" /\ off' = to
              /\ UNCHANGED <<driver, held, dma, status, handler, irq_status, cat, unseen>>

Write(bits) ==
  /\ cat = "open" /\ "mmio" \in held
  /\ CASE off = IO_IRQ_RAISE -> Rise(bits)
       [] off = IO_IRQ_ACK   -> status' = status \ bits /\ unseen' = unseen \ bits
       [] OTHER              -> UNCHANGED <<status, unseen>>
  /\ UNCHANGED <<driver, held, dma, handler, irq_status, off, cat>>

StartCat == /\ cat = "open" /\ cat' = "reading"
            /\ UNCHANGED <<driver, held, dma, status, handler, irq_status, off, unseen>>

(* Mutant: the position stays where it is.                                 *)
Stays   == off
Advance == off + 1

(* A read that copies 4 bytes leaves a misaligned position, which is EOF.  *)
Read ==
  /\ cat = "reading" /\ (off % 4 = 0 => "mmio" \in held)
  /\ \/ off % 4 = 0 /\ off' = Advance /\ UNCHANGED cat
     \/ off % 4 # 0 /\ off' = 0 /\ cat' = "closed"
  /\ UNCHANGED <<driver, held, dma, status, handler, irq_status, unseen>>

(* The registers are not mapped when the probe failed early: an oops.      *)
Oops == /\ cat \in {"open", "reading"} /\ "mmio" \notin held /\ off % 4 = 0
        /\ driver' = "none" /\ held' = {} /\ dma' = FALSE
        /\ status' = {} /\ handler' = "idle" /\ irq_status' = {}
        /\ off' = 0 /\ cat' = "closed" /\ unseen' = {}

Close == /\ cat = "open" /\ cat' = "closed" /\ off' = 0
         /\ UNCHANGED <<driver, held, dma, status, handler, irq_status, unseen>>

Next ==
  \/ Probe \/ (\E r \in DOMAIN Needs : Take(r)) \/ TakeFails \/ Probed \/ Remove
  \/ DmaDone \/ HandlerReads \/ HandlerAcks
  \/ Open \/ (\E to \in {IO_IRQ_STATUS, IO_IRQ_RAISE, IO_IRQ_ACK} : Llseek(to))
  \/ (\E bits \in SUBSET Bits : Write(bits)) \/ StartCat \/ Read \/ Oops \/ Close

(* The processor takes interrupts, and cat runs.                           *)
Fairness == WF_vars(HandlerReads) /\ WF_vars(HandlerAcks) /\ WF_vars(Read \/ Oops)

Spec == Init /\ [][Next]_vars /\ Fairness

-----------------------------------------------------------------------------
(* An acknowledgement swallows no bit but those that the handler read: one *)
(* that rises after the read of the register fires again.                  *)
NoLostInterrupt == unseen \subseteq status

(* The inductive invariant: what the handler has read and not yet          *)
(* acknowledged is not unseen, and it is empty outside the handler.        *)
TypeOK ==
  /\ driver \in {"none", "probing", "bound"} /\ dma \in BOOLEAN
  /\ held \subseteq {"chrdev", "enabled", "region", "mmio", "irq"}
  /\ status \subseteq Bits \cup {DmaBit} /\ irq_status \subseteq Bits \cup {DmaBit}
  /\ handler \in {"idle", "ack"} /\ off \in Nat
  /\ cat \in {"closed", "open", "reading"}

HandlerKnows ==
  /\ unseen \subseteq status \ irq_status
  /\ handler = "idle" => irq_status = {}

IInv == TypeOK /\ HandlerKnows

(* The interrupt does not keep firing: a bit is cleared, or its handler is *)
(* taken away.                                                             *)
InterruptsQuiesce ==
  \A b \in Bits \cup {DmaBit} :
    b \in status /\ "irq" \in held ~> b \notin status \/ "irq" \notin held

(* A program that reads until the end of the file gets there.              *)
CatEnds == cat = "reading" ~> cat # "reading"

=============================================================================

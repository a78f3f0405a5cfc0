------------------------------ MODULE GicTimer ------------------------------
(***************************************************************************)
(* lkmc/gic.h and baremetal/arch/aarch64/timer.c: one CPU sets up the      *)
(* interrupt controller and then takes an interrupt of the virtual timer   *)
(* every second.  The registers of the controller are files of fields; a   *)
(* field of an interrupt is reached by a division and a remainder.         *)
(***************************************************************************)
EXTENDS Naturals, FiniteSets

CONSTANTS INT_MAX,    \* GIC_INT_MAX.
          TIMER_IRQ,
          PPI0, SPI0  \* Where private and shared interrupts start.

Irqs   == 0 .. INT_MAX - 1
Lowest == 255         \* All ones in a priority field.
Edge   == 2           \* GIC_GICD_ICFGR_EDGE.
Level  == 0

VARIABLES
  enabled, pending,   \* ISENABLER and ISPENDR, as sets of interrupts.
  IPRIORITYR, ITARGETSR, ICFGR,   \* Register -> field -> value.
  cntv,               \* The timer is enabled (CNTV_CTL).
  expired,            \* CNTVCT >= CNTV_CVAL.
  cpu,                \* Where the CPU is.
  irq,                \* What the handler found, or INT_MAX.
  fresh               \* The timer expired and no handler has come for it.

gicvars == <<enabled, pending, IPRIORITYR, ITARGETSR, ICFGR, cntv, expired,
             cpu, irq, fresh>>
regs == <<IPRIORITYR, ITARGETSR, ICFGR>>

(* The number of registers with n interrupts each.                         *)
NrRegs(n) == (INT_MAX + n - 1) \div n
File(n, v) == [i \in 0 .. NrRegs(n) - 1 |-> [k \in 0 .. n - 1 |-> v]]

(* Whatever ran before has left the distributor as it likes, and the timer *)
(* off; its compare value may have been passed.                            *)
Init == /\ enabled \in {{}, Irqs} /\ pending \in {{}, Irqs}
        /\ IPRIORITYR = File(4, 0) /\ ITARGETSR = File(4, 0) /\ ICFGR = File(16, Edge)
        /\ cntv = FALSE /\ expired \in BOOLEAN /\ cpu = "reset" /\ irq = INT_MAX
        /\ fresh = expired

(* All fields of the registers from interrupt first on.                    *)
Fill(file, n, first, v) ==
  [i \in DOMAIN file |-> IF i >= first \div n /\ i < NrRegs(n)
                         THEN [k \in 0 .. n - 1 |-> v] ELSE file[i]]
(* The bits of whole registers of 32 that the loops write.                 *)
Covered == {i \in Irqs : i \div 32 < NrRegs(32)}

(* init_gicd.                                                              *)
InitGicd == /\ cpu = "reset" /\ cpu' = "gicc"
            /\ enabled' = enabled \ Covered /\ pending' = pending \ Covered
            /\ IPRIORITYR' = Fill(IPRIORITYR, 4, 0, Lowest)
            /\ ITARGETSR' = Fill(ITARGETSR, 4, SPI0, 1)
            /\ ICFGR' = Fill(ICFGR, 16, PPI0, Level)
            /\ UNCHANGED <<cntv, expired, irq, fresh>>

(* init_gicc acknowledges interrupts until it reads 1023; none is enabled. *)
InitGicc == /\ cpu = "gicc" /\ enabled \cap pending = {} /\ cpu' = "config"
            /\ UNCHANGED <<enabled, pending, regs, cntv, expired, irq, fresh>>

(* Mutant: the field of every interrupt of the register is written.        *)
SetRegister(file, n, i, v) == [file EXCEPT ![i \div n] = [k \in 0 .. n - 1 |-> v]]
SetField(file, n, i, v) == [file EXCEPT ![i \div n][i % n] = v]

(* The rest of gic_initialize.                                             *)
Configure ==
  /\ cpu = "config" /\ cpu' = "start"
  /\ ICFGR' = SetField(ICFGR, 16, TIMER_IRQ, Edge)
  /\ IPRIORITYR' = SetField(IPRIORITYR, 4, TIMER_IRQ, 0)
  /\ ITARGETSR' = SetField(ITARGETSR, 4, TIMER_IRQ, 1)
  /\ pending' = pending \ {TIMER_IRQ} /\ enabled' = enabled \cup {TIMER_IRQ}
  /\ UNCHANGED <<cntv, expired, irq, fresh>>

-----------------------------------------------------------------------------
(* The line of the timer is the conjunction of the two; the interrupt is   *)
(* latched when it rises.                                                  *)
Line == cntv /\ expired
Latch == pending' = IF ~Line /\ (cntv' /\ expired') THEN pending \cup {TIMER_IRQ} ELSE pending

Tick == /\ cpu \notin {"reset", "gicc", "config"} /\ ~expired
        /\ expired' = TRUE /\ fresh' = TRUE
        /\ UNCHANGED <<enabled, regs, cntv, cpu, irq>> /\ Latch

(* enable_cntv, enable_irq and wfi in main.                                *)
Main == /\ cpu = "start" /\ cpu' = "wfi" /\ cntv' = TRUE
        /\ UNCHANGED <<enabled, regs, expired, irq, fresh>> /\ Latch

(* lkmc_vector_trap_handler: gic_find_pending_irq.                         *)
Trap == /\ cpu = "wfi" /\ pending \cap enabled # {}
        /\ irq' = CHOOSE i \in pending : \A j \in pending : i <= j
        /\ cpu' = "found" /\ fresh' = FALSE
        /\ UNCHANGED <<enabled, pending, regs, cntv, expired>>

(* gicd_disable_int, gic_eoi.                                              *)
Disable == /\ cpu = "found" /\ cpu' = "timer"
           /\ enabled' = enabled \ {irq} /\ pending' = pending \ {irq}
           /\ UNCHANGED <<regs, cntv, expired, irq, fresh>>

DisableCntv == /\ cntv' = FALSE /\ pending' = pending \ {TIMER_IRQ} /\ UNCHANGED expired
WriteCval   == expired' = FALSE /\ UNCHANGED <<cntv, pending>>
EnableCntv  == cntv' = TRUE /\ UNCHANGED expired /\ Latch

(* Mutant: the timer is enabled again before it has its next value.        *)
EnableFirst ==
  \/ cpu = "timer"  /\ cpu' = "cval"   /\ DisableCntv
  \/ cpu = "cval"   /\ cpu' = "enable" /\ EnableCntv
  \/ cpu = "enable" /\ cpu' = "irq"    /\ WriteCval
NextPeriod ==
  \/ cpu = "timer"  /\ cpu' = "cval"   /\ DisableCntv
  \/ cpu = "cval"   /\ cpu' = "enable" /\ WriteCval
  \/ cpu = "enable" /\ cpu' = "irq"    /\ EnableCntv

Timer == NextPeriod /\ UNCHANGED <<enabled, regs, irq, fresh>>

(* Mutant: the interrupt stays disabled.                                   *)
StaysOff == UNCHANGED enabled
EnableInt == enabled' = enabled \cup {irq}

(* gicd_enable_int; psw_restore_interrupt and the return from the trap.    *)
Return == /\ cpu = "irq" /\ cpu' = "wfi" /\ EnableInt /\ irq' = INT_MAX
          /\ UNCHANGED <<pending, regs, cntv, expired, fresh>>

Cpu == InitGicd \/ InitGicc \/ Configure \/ Main \/ Trap \/ Disable \/ Timer \/ Return
Next == Cpu \/ Tick

(* The CPU runs and time passes.                                           *)
Fairness == WF_gicvars(Cpu) /\ WF_gicvars(Tick)
Spec == Init /\ [][Next]_gicvars /\ Fairness

-----------------------------------------------------------------------------
(* Whatever the registers held, once set up the timer alone can interrupt, *)
(* before anything else and by an edge, and every shared interrupt is for  *)
(* processor 0 (gic_initialize).                                           *)
TimerStandsOut ==
  cpu \notin {"reset", "gicc", "config"} =>
    /\ enabled \subseteq {TIMER_IRQ} /\ pending \subseteq {TIMER_IRQ}
    /\ \A i \in Irqs :
         /\ IPRIORITYR[i \div 4][i % 4] = (IF i = TIMER_IRQ THEN 0 ELSE Lowest)
         /\ i >= SPI0 => ITARGETSR[i \div 4][i % 4] = 1
         /\ i >= PPI0 => (ICFGR[i \div 16][i % 16] = Edge) = (i = TIMER_IRQ)

(* Each time the timer expires it interrupts once: what the handler clears *)
(* stays clear until the next period, in the order it writes the timer.    *)
OneTrapPerPeriod == [][cpu = "wfi" /\ cpu' = "found" => fresh]_gicvars

(* The timer never stops.                                                  *)
KeepsTicking == []<>(cpu = "found")

-----------------------------------------------------------------------------
(* The inductive invariant of TimerStandsOut and OneTrapPerPeriod.         *)
SettingUp == {"reset", "gicc", "config"}
Handler   == {"found", "timer", "cval", "enable", "irq"}

TypeOK ==
  /\ enabled \subseteq Irqs /\ pending \subseteq Irqs
  /\ cntv \in BOOLEAN /\ expired \in BOOLEAN /\ fresh \in BOOLEAN
  /\ cpu \in SettingUp \cup Handler \cup {"start", "wfi"}
  /\ IPRIORITYR \in [0 .. NrRegs(4) - 1 -> [0 .. 3 -> Nat]]
  /\ ITARGETSR \in [0 .. NrRegs(4) - 1 -> [0 .. 3 -> Nat]]
  /\ ICFGR \in [0 .. NrRegs(16) - 1 -> [0 .. 15 -> Nat]]

(* What init_gicd leaves, up to the last interrupt.                        *)
NothingStandsOut ==
  cpu \in {"gicc", "config"} =>
    /\ enabled = {} /\ pending = {}
    /\ \A i \in Irqs :
         /\ IPRIORITYR[i \div 4][i % 4] = Lowest
         /\ i >= SPI0 => ITARGETSR[i \div 4][i % 4] = 1
         /\ i >= PPI0 => ICFGR[i \div 16][i % 16] = Level

FoundTimer == cpu \in Handler => irq = TIMER_IRQ

(* The timer has been heard of for as long as it is expired, but while its *)
(* handler has not written the next value; the interrupt is of a timer     *)
(* that is expired, and is not pending again when that value is written.   *)
Periods ==
  /\ cpu \notin SettingUp /\ pending # {} => expired
  /\ cpu \in {"timer", "cval"} => pending = {}
  /\ IF cpu \in {"found", "timer", "cval"} THEN expired /\ ~fresh
     ELSE fresh = expired

IInv == TypeOK /\ NothingStandsOut /\ TimerStandsOut /\ FoundTimer /\ Periods
=============================================================================

------------------------------- MODULE Start --------------------------------
(***************************************************************************)
(* Kernel start-up against interrupts: kernel/startup.c from the point     *)
(* where BootInfo is accepted, init_primitivs and init_cpu of init.c, the  *)
(* IDT, the PIC, the local APIC and its timer, the clock, the exception    *)
(* handlers and the demo.                                                  *)
(*                                                                         *)
(* An interrupt may come between any two steps of kernel_main while the    *)
(* interrupt flag is set; its handler runs with the flag clear, so it is   *)
(* one step.  hw holds what the CPU and the interrupt hardware have been   *)
(* told; an operator takes an hw and returns the one after the function of *)
(* its name.  The tick counter is kept up to the value kernel_main waits   *)
(* for, and the ticks since get_milliseconds was last read for a           *)
(* difference up to the sleep that is waited for; nobody looks beyond.     *)
(***************************************************************************)
EXTENDS Integers

CONSTANTS
    WAIT_TICKS,   \* kernel_main waits for this tick (200)
    SLEEP_MS      \* and sleeps for so long (1000)

ASSUME StartAssumption == WAIT_TICKS \in Nat /\ WAIT_TICKS > 1 /\ SLEEP_MS \in Nat

VARIABLES
    pc,       \* where kernel_main is
    intr,     \* the interrupt flag
    cpu,      \* has a local APIC (cpuid), in x2APIC mode (IA32_APIC_BASE), and
              \* what is written to its page stays in the cache
    hw,
    ticks,    \* total_ticks, or WAIT_TICKS + 1 for more
    since     \* ticks since get_milliseconds was read, or more than SLEEP_MS

vars == <<pc, intr, cpu, hw, ticks, since>>

MS_PER_TICK == 10

\* what the firmware may have programmed its APIC timer to
FirmwareVectors == {32, 64}

\* The registers of the local APIC are at apic_addr and writes get there.
\* init_vmm maps that page without PTE_CACHE_DISABLE, which the comment at
\* vmm.c:294 asks for; whether a write then reaches the device or "only ends
\* up in cache" (CHANGELOG) is up to the memory types the firmware has set.
Mmio == cpu.apic /\ ~cpu.x2apic /\ ~cpu.cached

-----------------------------------------------------------------------------
(* idt.c, pic.c, pit.c.                                                    *)

\* the exceptions that get a gate in init_primitivs and again in init_cpu
FaultVectors == {0, 6, 8, 13, 14}

idt_set_gate(h, vectors) == [h EXCEPT !.gates = @ \cup vectors]

load_idt(h) == [h EXCEPT !.idtr = TRUE]

\* both chips masked but for the cascade, vectors from 0x20
pic_init(h) == [h EXCEPT !.unmasked = {2}, !.base = 32]

pic_enable(h, irq) == [h EXCEPT !.unmasked = @ \cup {irq} \cup (IF irq >= 8 THEN {2} ELSE {})]

\* pic_disable_total and pit_count pass port and value to outb in the wrong
\* order: ports 0x11, 0x28, 0x64... are written, the PIC gets an end of
\* interrupt at most, the PIT nothing
pic_disable_total(h) == h
pit_count(h) == h

-----------------------------------------------------------------------------
(* apic.c.  Writes to a local APIC in x2APIC mode do not reach it, nor do  *)
(* those that stay in the cache; without one they go to page 0, which      *)
(* init_vmm has mapped.                                                    *)

Write(h, written) == IF Mmio THEN written ELSE h

\* mutant: the timer's gate is left to somebody else
ApicGates_no_timer == {255}

\* the gates local_apic_init installs: spurious interrupts and the timer
ApicGates == {255, 32}

\* APIC on, timer masked and periodic at vector 32
local_apic_init(h) ==
    Write(idt_set_gate(h, ApicGates),
          [idt_set_gate(h, ApicGates) EXCEPT
              !.apic = [@ EXCEPT !.on = TRUE, !.masked = TRUE, !.periodic = TRUE, !.vector = 32]])

\* in x2APIC mode local_apic_init_msr does nothing
apic_init(h) == IF cpu.x2apic THEN h ELSE local_apic_init(h)

\* the initial count is not 0 from here on
apic_start(h) == Write(h, [h EXCEPT !.apic.counting = TRUE])

\* masked, periodic, divider, count, then unmasked
apic_timer_start(h) ==
    Write(h, [h EXCEPT !.apic = [@ EXCEPT !.periodic = TRUE, !.counting = TRUE,
                                          !.masked = FALSE, !.vector = 32]])

\* mutant: the end of the interrupt is not signalled
apic_eoi_missing(h) == h

apic_eoi(h) == Write(h, [h EXCEPT !.apic.inService = FALSE])

-----------------------------------------------------------------------------
(* init.c.                                                                 *)

\* init_cpu between its cli and its sti
init_cpu(h) ==
    LET pic == pit_count(pic_enable(pic_init(idt_set_gate(h, FaultVectors)), 1))
    IN  IF cpu.apic
        THEN pic_disable_total(load_idt(apic_start(apic_init(pic))))
        ELSE load_idt(pic_enable(pic_init(pic), 0))

\* _start has cleared the interrupt flag; what the firmware left unmasked in
\* the PIC is not known, nor whether its APIC timer still runs
Init ==
    /\ pc = "primitivs"
    /\ intr = FALSE
    /\ cpu \in [apic : BOOLEAN, x2apic : BOOLEAN, cached : BOOLEAN]
    /\ cpu.x2apic \/ cpu.cached => cpu.apic
    /\ \E unmasked \in SUBSET {0, 1},
          apic \in [on : BOOLEAN, masked : BOOLEAN, periodic : BOOLEAN, counting : BOOLEAN,
                    inService : {FALSE}, vector : FirmwareVectors] :
          /\ apic.on => cpu.apic
          /\ hw = [gates |-> {}, idtr |-> FALSE, unmasked |-> unmasked, base |-> 8, apic |-> apic]
    /\ ticks = 0
    /\ since = 0

Goes(next) == pc' = next /\ UNCHANGED <<intr, cpu, hw, ticks, since>>

\* kernel_panic: prints, clears the interrupt flag and halts for good
Panics == pc' = "panic" /\ intr' = FALSE /\ UNCHANGED <<cpu, hw, ticks, since>>

InitPrimitivs ==
    /\ pc = "primitivs"
    /\ hw' = load_idt(idt_set_gate(hw, FaultVectors))
    /\ intr' = TRUE
    /\ pc' = "memory"
    /\ UNCHANGED <<cpu, ticks, since>>

\* cli; init_memory, which panics without memory enough; sti
InitMemory == pc = "memory" /\ (Goes("cpu") \/ Panics)

InitCpu ==
    /\ pc = "cpu"
    /\ hw' = init_cpu(hw)
    /\ intr' = TRUE
    /\ ticks' = 0
    /\ pc' = "fs"
    /\ UNCHANGED <<cpu, since>>

\* kmalloc_init, and init_fs, which panics when the ramdisk is bad
InitFs == pc = "fs" /\ (Goes("clock") \/ Panics)

\* apic_timer_start, also without a local APIC: apic_addr is then 0
StartClock ==
    /\ pc = "clock"
    /\ hw' = apic_timer_start(hw)
    /\ pc' = "wait"
    /\ UNCHANGED <<intr, cpu, ticks, since>>

-----------------------------------------------------------------------------
(* Waiting.                                                                *)

\* mutant: any tick ends the wait
WaitCheck_first == pc = "wait" /\ Goes(IF ticks > 0 THEN "sleep" ELSE "wait_print")

\* while (get_ticks() != 200) print(...): the counter is read between two
\* prints, and may move on during one
WaitCheck == pc = "wait" /\ Goes(IF ticks = WAIT_TICKS THEN "sleep" ELSE "wait_print")
WaitPrint == pc = "wait_print" /\ Goes("wait")

\* get_milliseconds is read for a difference
Mark(next) == pc' = next /\ since' = 0 /\ UNCHANGED <<intr, cpu, hw, ticks>>

\* kernel_sleep_ms; between the check and hlt a tick may come and go
SleepStart == pc = "sleep" /\ Mark("sleep_check")

\* mutant: the start is read again for every check
SleepCheck_restarted == pc = "sleep_check" /\ Mark("sleep_hlt")

SleepCheck ==
    /\ pc = "sleep_check"
    /\ Goes(IF since * MS_PER_TICK <= SLEEP_MS THEN "sleep_hlt" ELSE "list")

ListFiles == pc = "list" /\ Goes("demo")

\* start_demo_show: without memory for its buffers it returns, and kernel_main
\* halts; otherwise it draws frames for ever and prints the time each took
StartDemo == pc = "demo" /\ (Goes("halt") \/ Mark("frame"))
DrawFrame == pc = "frame" /\ Mark("frame_report")
ReportFrame == pc = "frame_report" /\ Goes("frame")

MainStep ==
    \/ InitPrimitivs \/ InitMemory \/ InitCpu \/ InitFs \/ StartClock
    \/ WaitCheck \/ WaitPrint \/ SleepStart \/ SleepCheck \/ ListFiles
    \/ StartDemo \/ DrawFrame \/ ReportFrame

-----------------------------------------------------------------------------
(* Interrupts and exceptions.                                              *)

Running == pc \notin {"panic", "reset"}

\* hlt ends when an interrupt has been handled
Woken == IF pc = "sleep_hlt" THEN "sleep_check" ELSE pc

\* an empty gate raises #GP, and one without a gate itself a double fault: the
\* handler of either panics, otherwise the machine resets
Unhandled == IF hw.gates \cap {8, 13} # {} THEN Panics
             ELSE pc' = "reset" /\ UNCHANGED <<intr, cpu, hw, ticks, since>>

\* clock_interrupt: count, end of interrupt
clock_interrupt(h) ==
    /\ ticks' = IF ticks > WAIT_TICKS THEN ticks ELSE ticks + 1
    /\ since' = IF since * MS_PER_TICK > SLEEP_MS THEN since ELSE since + 1
    /\ hw' = apic_eoi([h EXCEPT !.apic.inService = TRUE, !.apic.counting = h.apic.periodic])
    /\ pc' = Woken
    /\ UNCHANGED <<intr, cpu>>

\* the gates of FaultVectors lead to a panic
Deliver(vector) ==
    IF vector \notin hw.gates THEN Unhandled
    ELSE IF vector = 32 THEN clock_interrupt(hw) ELSE Panics

TimerLive == hw.apic.on /\ ~hw.apic.masked /\ hw.apic.counting

\* one raised while the flag was clear comes later if its timer still runs
LapicTimer == Running /\ intr /\ TimerLive /\ ~hw.apic.inService /\ Deliver(hw.apic.vector)

\* IRQ 0 is the PIT, IRQ 1 the keyboard
PicInterrupt ==
    /\ Running /\ intr
    /\ \E irq \in {0, 1} \cap hw.unmasked : Deliver(hw.base + irq)

\* a fault of the kernel's own code, or an interrupt of the firmware's timer
\* that is still pending: the handler panics
Exception == Running /\ hw.idtr /\ Panics

\* hlt for ever
Halted == pc \in {"halt", "panic", "reset"} /\ UNCHANGED vars

Next == MainStep \/ LapicTimer \/ PicInterrupt \/ Exception \/ Halted

\* the processor executes, and a periodic timer that is enabled ticks; keys,
\* the PIT and faults are not owed
Spec == Init /\ [][Next]_vars /\ WF_vars(MainStep) /\ WF_vars(LapicTimer)

-----------------------------------------------------------------------------
(* Properties.                                                             *)

\* "Ensure IDT vector 32 is installed and loaded before unmasking" (apic.c:136):
\* from init_cpu on, a timer that runs and can be programmed has its gate in the
\* table the CPU uses; and while interrupts are on, from the first sti with the
\* firmware's timer still running, one without a gate ends in the handler of a
\* fault, never in a reset of the machine.
InterruptsHandled ==
    /\ Mmio /\ TimerLive /\ pc \notin {"primitivs", "memory", "cpu", "panic"}
          => hw.apic.vector \in hw.gates /\ hw.idtr
    /\ intr => hw.idtr /\ hw.gates \cap {8, 13} # {}
    /\ pc # "reset"

Waiting == pc \in {"wait", "wait_print"}

PastWait == {"sleep", "sleep_check", "sleep_hlt", "list", "demo", "frame", "frame_report", "halt"}

\* When what the kernel writes does not reach the local APIC, because there is
\* none, it is in x2APIC mode or its page is cached (vmm.c:470; CHANGELOG:23-28
\* "Hardware test did NOT passed"), kernel_main never gets past the wait for
\* tick 200, whatever timer the firmware left running: of that one the first
\* tick is never acknowledged.
WaitNeedsDevice == pc \in PastWait => Mmio

\* kernel_main waits for get_ticks() to be exactly 200 and prints between two
\* looks.  With registers that are reached, the wait ends or the counter passes
\* the value while a print runs; and once it has passed it, start-up hangs.
ClockWaitEnds ==
    /\ Mmio /\ Waiting ~> ~Waiting \/ ticks > WAIT_TICKS
    /\ [](Waiting /\ ticks > WAIT_TICKS => [](Waiting \/ pc = "panic"))

\* kernel_sleep_ms returns, though the tick that ends the sleep may come
\* between its look at the clock and its hlt: the next tick wakes it.  This is
\* about control only: "Doesnt work btw" says startup.c:161 of the call, and
\* the model does not know how long a tick lasts nor gets there when the timer
\* cannot be programmed (WaitNeedsDevice).
SleepEnds == pc \in {"sleep", "sleep_check", "sleep_hlt"} ~> pc \in {"list", "panic"}

=============================================================================

---- MODULE StartProofs ----
(* Proofs about Start, for every tick waited for and every sleep.          *)
EXTENDS Start, TLAPS

Apic == [on : BOOLEAN, masked : BOOLEAN, periodic : BOOLEAN, counting : BOOLEAN,
         inService : BOOLEAN, vector : Nat]

Hardware == [gates : SUBSET Nat, idtr : BOOLEAN, unmasked : SUBSET Nat, base : {8, 32}, apic : Apic]

TypeOK == hw \in Hardware /\ intr \in BOOLEAN /\ ticks \in Nat /\ since \in Nat

\* where kernel_main is before init_cpu has run
Early == {"primitivs", "memory", "cpu"}

\* The IDT is loaded, with the gates of the fault handlers, before anything
\* else is done; interrupts stay off, and no handler runs, until then.
FaultsFirst ==
    /\ pc # "primitivs" => hw.idtr /\ FaultVectors \subseteq hw.gates
    /\ intr \/ hw.idtr => pc # "primitivs"

\* The clock has no gate before init_cpu; from then on a timer that can be
\* programmed is at vector 32, which has one.
TimerGateFirst ==
    /\ pc \in Early => 32 \notin hw.gates
    /\ Mmio /\ pc \notin Early \cup {"panic"} => hw.apic.vector = 32 /\ 32 \in hw.gates

\* The PIT does not share the clock's gate.
PitMasked == 32 \in hw.gates => 0 \notin hw.unmasked

\* A timer that cannot be programmed ticks once: its interrupt stays in service.
OneTick ==
    ~Mmio => /\ ticks \in {0, 1}
             /\ ticks = 1 => hw.apic.inService
             /\ pc \notin PastWait

IInv == TypeOK /\ FaultsFirst /\ TimerGateFirst /\ PitMasked /\ OneTick /\ pc # "reset"

-----------------------------------------------------------------------------
(* What the functions do to the hardware, field by field.                  *)

\* new is h with these gates, PIC masks and APIC registers, and the table is
\* loaded if it was
Result(h, new, gates, unmasked, apic) ==
    /\ new \in Hardware
    /\ h.idtr => new.idtr
    /\ new.gates = gates /\ new.unmasked = unmasked /\ new.apic = apic

\* The functions of idt.c, pic.c and pit.c.
LEMMA TableEffects ==
    ASSUME NEW h \in Hardware
    PROVE  /\ \A vectors \in SUBSET Nat :
                Result(h, idt_set_gate(h, vectors), h.gates \cup vectors, h.unmasked, h.apic)
           /\ Result(h, load_idt(h), h.gates, h.unmasked, h.apic) /\ load_idt(h).idtr
           /\ Result(h, pic_init(h), h.gates, {2}, h.apic)
           /\ \A irq \in {0, 1} :
                Result(h, pic_enable(h, irq), h.gates, h.unmasked \cup {irq}, h.apic)
           /\ pit_count(h) = h /\ pic_disable_total(h) = h
  <1>1. ASSUME NEW vectors \in SUBSET Nat
        PROVE  Result(h, idt_set_gate(h, vectors), h.gates \cup vectors, h.unmasked, h.apic)
    <2> DEFINE g == h.gates \cup vectors
    <2>1. g \in SUBSET Nat
      BY DEF Hardware
    <2>2. idt_set_gate(h, vectors) = [h EXCEPT !.gates = g]
      BY DEF idt_set_gate
    <2> HIDE DEF g
    <2>3. Result(h, idt_set_gate(h, vectors), g, h.unmasked, h.apic)
      BY <2>1, <2>2 DEF Result, Hardware
    <2> QED BY <2>3 DEF g
  <1>2. Result(h, load_idt(h), h.gates, h.unmasked, h.apic) /\ load_idt(h).idtr
    BY DEF Result, Hardware, load_idt
  <1>3. Result(h, pic_init(h), h.gates, {2}, h.apic)
    <2>1. {2} \in SUBSET Nat
      OBVIOUS
    <2> QED BY <2>1 DEF Result, Hardware, pic_init
  <1>4. ASSUME NEW irq \in {0, 1}
        PROVE  Result(h, pic_enable(h, irq), h.gates, h.unmasked \cup {irq}, h.apic)
    <2> DEFINE on == h.unmasked \cup {irq}
    <2>1. on \in SUBSET Nat
      BY DEF Hardware
    <2>2. on \cup (IF irq >= 8 THEN {2} ELSE {}) = on
      OBVIOUS
    <2>3. pic_enable(h, irq) = [h EXCEPT !.unmasked = on]
      BY <2>2 DEF pic_enable
    <2> HIDE DEF on
    <2>4. Result(h, pic_enable(h, irq), h.gates, on, h.apic)
      BY <2>1, <2>3 DEF Result, Hardware
    <2> QED BY <2>4 DEF on
  <1> QED BY <1>1, <1>2, <1>3, <1>4 DEF pit_count, pic_disable_total

\* what the registers hold after local_apic_init, apic_start, apic_timer_start
\* and apic_eoi, and while an interrupt is in service
Programmed(a) == [a EXCEPT !.on = TRUE, !.masked = TRUE, !.periodic = TRUE, !.vector = 32]
Counting(a) == [a EXCEPT !.counting = TRUE]
Started(a) == [a EXCEPT !.periodic = TRUE, !.counting = TRUE, !.masked = FALSE, !.vector = 32]
Ended(a) == [a EXCEPT !.inService = FALSE]
InService(a) == [a EXCEPT !.inService = TRUE, !.counting = a.periodic]

LEMMA ApicTypes ==
    ASSUME NEW a \in Apic
    PROVE  /\ Programmed(a) \in Apic /\ Programmed(a).vector = 32
           /\ Counting(a) \in Apic /\ Counting(a).vector = a.vector
           /\ Started(a) \in Apic /\ Started(a).vector = 32
           /\ Ended(a) \in Apic /\ Ended(a).vector = a.vector
           /\ InService(a) \in Apic /\ InService(a).vector = a.vector /\ InService(a).inService
  BY DEF Apic, Programmed, Counting, Started, Ended, InService

\* Writing the APIC's registers leaves the rest of the hardware alone.
LEMMA WriteEffect ==
    ASSUME NEW h \in Hardware, NEW a \in Apic
    PROVE  Result(h, [h EXCEPT !.apic = a], h.gates, h.unmasked, a)
  BY DEF Result, Hardware

\* The functions of apic.c.
LEMMA ApicEffects ==
    ASSUME NEW h \in Hardware
    PROVE  /\ Result(h, apic_init(h), IF cpu.x2apic THEN h.gates ELSE h.gates \cup ApicGates,
                     h.unmasked, IF Mmio THEN Programmed(h.apic) ELSE h.apic)
           /\ Result(h, apic_start(h), h.gates, h.unmasked,
                     IF Mmio THEN Counting(h.apic) ELSE h.apic)
           /\ Result(h, apic_timer_start(h), h.gates, h.unmasked,
                     IF Mmio THEN Started(h.apic) ELSE h.apic)
           /\ Result(h, apic_eoi(h), h.gates, h.unmasked,
                     IF Mmio THEN Ended(h.apic) ELSE h.apic)
  <1>0. h.apic \in Apic
    BY DEF Hardware
  <1>1. Result(h, h, h.gates, h.unmasked, h.apic)
    BY DEF Result
  <1>2. Result(h, apic_start(h), h.gates, h.unmasked, IF Mmio THEN Counting(h.apic) ELSE h.apic)
    <2>1. apic_start(h) = IF Mmio THEN [h EXCEPT !.apic = Counting(h.apic)] ELSE h
      BY DEF apic_start, Write, Counting
    <2> QED BY <1>0, <1>1, <2>1, ApicTypes, WriteEffect
  <1>3. Result(h, apic_timer_start(h), h.gates, h.unmasked, IF Mmio THEN Started(h.apic) ELSE h.apic)
    <2>1. apic_timer_start(h) = IF Mmio THEN [h EXCEPT !.apic = Started(h.apic)] ELSE h
      BY DEF apic_timer_start, Write, Started
    <2> QED BY <1>0, <1>1, <2>1, ApicTypes, WriteEffect
  <1>4. Result(h, apic_eoi(h), h.gates, h.unmasked, IF Mmio THEN Ended(h.apic) ELSE h.apic)
    <2>1. apic_eoi(h) = IF Mmio THEN [h EXCEPT !.apic = Ended(h.apic)] ELSE h
      BY DEF apic_eoi, Write, Ended
    <2> QED BY <1>0, <1>1, <2>1, ApicTypes, WriteEffect
  <1>5. ASSUME ~cpu.x2apic
        PROVE  Result(h, apic_init(h), h.gates \cup ApicGates, h.unmasked,
                      IF Mmio THEN Programmed(h.apic) ELSE h.apic)
    <2> DEFINE g == idt_set_gate(h, ApicGates)
    <2>1. ApicGates \in SUBSET Nat
      BY DEF ApicGates
    <2>2. Result(h, g, h.gates \cup ApicGates, h.unmasked, h.apic)
      BY <2>1, TableEffects
    <2>3. apic_init(h) = Write(g, [g EXCEPT !.apic = Programmed(g.apic)])
      BY <1>5 DEF apic_init, local_apic_init, Programmed
    <2> HIDE DEF g
    <2>4. g \in Hardware /\ g.apic = h.apic
      BY <2>2 DEF Result
    <2>5. Result(g, [g EXCEPT !.apic = Programmed(h.apic)], g.gates, g.unmasked, Programmed(h.apic))
      BY <1>0, <2>4, ApicTypes, WriteEffect
    <2>6. Result(h, [g EXCEPT !.apic = Programmed(h.apic)], h.gates \cup ApicGates, h.unmasked,
                 Programmed(h.apic))
      BY <2>2, <2>5 DEF Result
    <2> QED BY <2>2, <2>3, <2>4, <2>6 DEF Write
  <1>6. cpu.x2apic => apic_init(h) = h /\ ~Mmio
    BY DEF apic_init, Mmio
  <1> QED BY <1>1, <1>2, <1>3, <1>4, <1>5, <1>6

\* init_cpu leaves the table loaded, with the gates there are and those of the
\* faults; a timer that can be programmed is at vector 32, which has a gate;
\* and if that gate is there, the PIT is masked.
LEMMA InitCpuEffect ==
    ASSUME NEW h \in Hardware, 32 \notin h.gates
    PROVE  LET new == init_cpu(h)
           IN  /\ new \in Hardware /\ new.idtr
               /\ FaultVectors \subseteq new.gates
               /\ Mmio => new.apic.vector = 32 /\ 32 \in new.gates
               /\ 32 \in new.gates => 0 \notin new.unmasked
  <1> DEFINE h1 == idt_set_gate(h, FaultVectors)
             h2 == pic_init(h1)
             p == pic_enable(h2, 1)
             a1 == apic_init(p)
             a2 == apic_start(a1)
             a3 == load_idt(a2)
             b1 == pic_init(p)
             b2 == pic_enable(b1, 0)
             b3 == load_idt(b2)
  <1>1. /\ h1 \in Hardware /\ h1.gates = h.gates \cup FaultVectors
    <2>1. FaultVectors \in SUBSET Nat
      BY DEF FaultVectors
    <2> QED BY <2>1, TableEffects DEF Result
  <1>2. h2 \in Hardware /\ h2.gates = h1.gates /\ h2.unmasked = {2}
    BY <1>1, TableEffects DEF Result
  <1>3. p \in Hardware /\ p.gates = h1.gates /\ p.unmasked = {2} \cup {1}
    BY <1>2, TableEffects DEF Result
  <1>4. FaultVectors \subseteq p.gates /\ 32 \notin p.gates
    BY <1>1, <1>3 DEF FaultVectors
  <1>5. init_cpu(h) = IF cpu.apic THEN a3 ELSE b3
    <2>1. pit_count(p) = p
      BY <1>3, TableEffects
    <2>2. pic_disable_total(a3) = a3
      BY DEF pic_disable_total
    <2> QED BY <2>1, <2>2 DEF init_cpu
  <1> HIDE DEF h1, h2, p
  <1>6. CASE cpu.apic
    <2>1. /\ a1 \in Hardware /\ a1.unmasked = {2} \cup {1}
          /\ a1.gates = IF cpu.x2apic THEN p.gates ELSE p.gates \cup ApicGates
          /\ a1.apic = IF Mmio THEN Programmed(p.apic) ELSE p.apic
      BY <1>3, ApicEffects DEF Result
    <2> HIDE DEF a1
    <2>2. /\ a2 \in Hardware /\ a2.unmasked = a1.unmasked /\ a2.gates = a1.gates
          /\ a2.apic = IF Mmio THEN Counting(a1.apic) ELSE a1.apic
      BY <2>1, ApicEffects DEF Result
    <2> HIDE DEF a2
    <2>3. /\ a3 \in Hardware /\ a3.unmasked = a1.unmasked /\ a3.gates = a1.gates
          /\ a3.apic = a2.apic /\ a3.idtr
      BY <2>2, TableEffects DEF Result
    <2>4. Mmio => a3.apic.vector = 32
      <3>1. p.apic \in Apic
        BY <1>3 DEF Hardware
      <3> QED BY <2>1, <2>2, <2>3, <3>1, ApicTypes
    <2>5. p.gates \subseteq a3.gates /\ (Mmio => 32 \in a3.gates)
      BY <2>1, <2>3 DEF Mmio, ApicGates
    <2>6. 0 \notin a3.unmasked
      BY <2>1, <2>3
    <2> QED BY <1>4, <1>5, <1>6, <2>3, <2>4, <2>5, <2>6
  <1>7. CASE ~cpu.apic
    <2>1. b1 \in Hardware /\ b1.gates = p.gates
      BY <1>3, TableEffects DEF Result
    <2>2. b2 \in Hardware /\ b2.gates = p.gates
      BY <2>1, TableEffects DEF Result
    <2>3. b3 \in Hardware /\ b3.gates = p.gates /\ b3.idtr
      BY <2>2, TableEffects DEF Result
    <2> QED BY <1>4, <1>5, <1>7, <2>3 DEF Mmio
  <1> QED BY <1>6, <1>7

-----------------------------------------------------------------------------
(* The invariant.                                                          *)

\* A step between two places after the IDT is loaded, on the same side of
\* init_cpu and of the wait, that leaves the hardware alone keeps it.
LEMMA QuietKeeps ==
    ASSUME IInv, hw' = hw, cpu' = cpu, ticks' = ticks, pc # "primitivs",
           pc' # "reset", pc' # "primitivs",
           pc' \in Early => pc \in Early,
           pc \in Early \cup {"panic"} => pc' \in Early \cup {"panic"},
           pc' \in PastWait => Mmio,
           intr' \in BOOLEAN, since' \in Nat
    PROVE  IInv'
  <1>1. Mmio' = Mmio
    BY DEF Mmio
  <1> QED BY <1>1 DEF IInv, TypeOK, FaultsFirst, TimerGateFirst, PitMasked, OneTick

\* kernel_panic keeps it, from any step.
LEMMA PanicKeeps ==
    ASSUME IInv, hw.idtr /\ FaultVectors \subseteq hw.gates, Panics
    PROVE  IInv'
  <1>1. pc # "primitivs"
    BY DEF IInv, FaultsFirst
  <1>2. hw' = hw /\ cpu' = cpu /\ ticks' = ticks /\ since' = since /\ pc' = "panic" /\ intr' = FALSE
    BY DEF Panics
  <1> QED BY <1>1, <1>2, QuietKeeps DEF IInv, TypeOK, Early, PastWait

\* The wait ends at a tick that a timer which cannot be programmed never
\* reaches.
LEMMA WaitKeeps ==
    ASSUME IInv, WaitCheck
    PROVE  IInv'
  <1>1. pc = "wait" /\ pc' \in {"sleep", "wait_print"} /\ UNCHANGED <<intr, cpu, hw, ticks, since>>
    BY DEF WaitCheck, Goes
  <1>2. pc' = "sleep" => ticks = WAIT_TICKS
    BY DEF WaitCheck, Goes
  <1>3. pc' = "sleep" => Mmio
    BY <1>2, StartAssumption DEF IInv, OneTick
  <1> QED BY <1>1, <1>3, QuietKeeps DEF IInv, TypeOK, Early, PastWait

\* The steps of kernel_main keep it.
LEMMA MainKeeps ==
    ASSUME IInv, MainStep
    PROVE  IInv'
  <1> USE DEF IInv
  <1>1. CASE InitPrimitivs
    <2> DEFINE g == idt_set_gate(hw, FaultVectors)
    <2>1. g \in Hardware /\ g.gates = hw.gates \cup FaultVectors /\ g.apic = hw.apic
      <3>1. FaultVectors \in SUBSET Nat
        BY DEF FaultVectors
      <3> QED BY <3>1, TableEffects DEF Result, TypeOK
    <2>2. hw' = load_idt(g)
      BY <1>1 DEF InitPrimitivs
    <2> HIDE DEF g
    <2>3. /\ hw' \in Hardware /\ hw'.idtr /\ hw'.gates = hw.gates \cup FaultVectors
          /\ hw'.apic = hw.apic
      BY <2>1, <2>2, TableEffects DEF Result
    <2>4. 32 \notin hw'.gates
      BY <1>1, <2>3 DEF InitPrimitivs, TimerGateFirst, Early, FaultVectors
    <2>5. pc' = "memory" /\ intr' = TRUE /\ UNCHANGED <<cpu, ticks, since>>
      BY <1>1 DEF InitPrimitivs
    <2>6. Mmio' = Mmio
      BY <2>5 DEF Mmio
    <2> QED BY <2>3, <2>4, <2>5, <2>6
            DEF TypeOK, FaultsFirst, TimerGateFirst, PitMasked, OneTick, Early, PastWait
  <1>2. CASE InitMemory
    BY <1>2, QuietKeeps DEF InitMemory, Goes, Panics, TypeOK, Early, PastWait
  <1>3. CASE InitCpu
    <2>1. pc = "cpu" /\ hw' = init_cpu(hw) /\ pc' = "fs" /\ intr' = TRUE /\ ticks' = 0
            /\ UNCHANGED <<cpu, since>>
      BY <1>3 DEF InitCpu
    <2>2. /\ hw' \in Hardware /\ hw'.idtr
          /\ FaultVectors \subseteq hw'.gates
          /\ Mmio => hw'.apic.vector = 32 /\ 32 \in hw'.gates
          /\ 32 \in hw'.gates => 0 \notin hw'.unmasked
      BY <2>1, InitCpuEffect DEF TypeOK, TimerGateFirst, Early
    <2>3. Mmio' = Mmio
      BY <2>1 DEF Mmio
    <2> QED BY <2>1, <2>2, <2>3
            DEF TypeOK, FaultsFirst, TimerGateFirst, PitMasked, OneTick, Early, PastWait
  <1>4. CASE InitFs
    BY <1>4, QuietKeeps DEF InitFs, Goes, Panics, TypeOK, Early, PastWait
  <1>5. CASE StartClock
    <2> DEFINE a == IF Mmio THEN Started(hw.apic) ELSE hw.apic
    <2>1. pc = "clock" /\ hw' = apic_timer_start(hw) /\ pc' = "wait"
            /\ UNCHANGED <<intr, cpu, ticks, since>>
      BY <1>5 DEF StartClock
    <2>2. /\ hw' \in Hardware /\ hw'.gates = hw.gates /\ (hw.idtr => hw'.idtr)
          /\ hw'.unmasked = hw.unmasked /\ hw'.apic = a
      BY <2>1, ApicEffects DEF Result, TypeOK
    <2>3. (Mmio => a.vector = 32) /\ (~Mmio => a = hw.apic)
      BY ApicTypes DEF TypeOK, Hardware
    <2> HIDE DEF a
    <2>4. Mmio' = Mmio
      BY <2>1 DEF Mmio
    <2> QED BY <2>1, <2>2, <2>3, <2>4
            DEF TypeOK, FaultsFirst, TimerGateFirst, PitMasked, OneTick, Early, PastWait
  <1>6. CASE WaitCheck
    BY <1>6, WaitKeeps
  <1>7. CASE WaitPrint
    BY <1>7, QuietKeeps DEF WaitPrint, Goes, TypeOK, Early, PastWait
  <1>8. CASE SleepStart \/ SleepCheck \/ ListFiles
    BY <1>8, QuietKeeps DEF SleepStart, SleepCheck, ListFiles, Goes, Mark, TypeOK, OneTick, Early, PastWait
  <1>9. CASE StartDemo \/ DrawFrame \/ ReportFrame
    BY <1>9, QuietKeeps DEF StartDemo, DrawFrame, ReportFrame, Goes, Mark, TypeOK, OneTick, Early, PastWait
  <1> QED BY <1>1, <1>2, <1>3, <1>4, <1>5, <1>6, <1>7, <1>8, <1>9 DEF MainStep

\* An interrupt between any two of them keeps it: one without a gate finds
\* the handler of a fault, and the clock only counts those of a timer whose
\* last one it has acknowledged.
LEMMA DeliverKeeps ==
    ASSUME IInv, Running, intr, NEW vector \in Nat, Deliver(vector),
           vector = 32 /\ 32 \in hw.gates => ~hw.apic.inService
    PROVE  IInv'
  <1> USE DEF IInv
  <1>1. pc # "primitivs" /\ hw.idtr /\ FaultVectors \subseteq hw.gates
    BY DEF FaultsFirst
  <1>2. hw.gates \cap {8, 13} # {}
    BY <1>1 DEF FaultVectors
  <1>3. CASE Panics
    BY <1>1, <1>3, PanicKeeps
  <1>4. CASE vector = 32 /\ 32 \in hw.gates /\ clock_interrupt(hw)
    <2> DEFINE s == InService(hw.apic)
               h == [hw EXCEPT !.apic = s]
               a == IF Mmio THEN Ended(s) ELSE s
    <2>1. /\ pc' = Woken /\ UNCHANGED <<intr, cpu>>
          /\ ticks' = IF ticks > WAIT_TICKS THEN ticks ELSE ticks + 1
          /\ since' = IF since * MS_PER_TICK > SLEEP_MS THEN since ELSE since + 1
          /\ hw' = apic_eoi([hw EXCEPT !.apic.inService = TRUE, !.apic.counting = hw.apic.periodic])
      BY <1>4 DEF clock_interrupt
    <2>2. [hw EXCEPT !.apic.inService = TRUE, !.apic.counting = hw.apic.periodic] = h
      BY DEF TypeOK, Hardware, InService
    <2>3. hw.apic \in Apic /\ s \in Apic
      BY ApicTypes DEF TypeOK, Hardware
    <2>4. a \in Apic /\ a.vector = hw.apic.vector /\ (~Mmio => a.inService)
      BY <2>3, ApicTypes
    <2>5. /\ hw' \in Hardware /\ hw'.gates = hw.gates /\ (hw.idtr => hw'.idtr)
          /\ hw'.unmasked = hw.unmasked /\ hw'.apic = a
      <3> HIDE DEF s, h
      <3>1. Result(hw, h, hw.gates, hw.unmasked, s)
        BY <2>3, WriteEffect DEF TypeOK, h
      <3>2. h \in Hardware /\ h.apic = s
        BY <3>1 DEF Result
      <3>3. Result(h, apic_eoi(h), h.gates, h.unmasked, a)
        BY <3>2, ApicEffects
      <3> HIDE DEF a
      <3> QED BY <2>1, <2>2, <3>1, <3>3 DEF Result
    <2> HIDE DEF a
    <2>6. ticks' \in Nat /\ since' \in Nat /\ intr' \in BOOLEAN
      BY <2>1 DEF TypeOK
    <2>7. Mmio' = Mmio
      BY <2>1 DEF Mmio
    <2>8. ~Mmio => ticks = 0 /\ ticks' \in {0, 1}
      <3>1. ~Mmio => ticks = 0
        BY <1>4 DEF OneTick
      <3> QED BY <2>1, <3>1
    <2>9. pc' = pc \/ (pc = "sleep_hlt" /\ pc' = "sleep_check")
      BY <2>1 DEF Woken
    <2>10. TypeOK' /\ FaultsFirst' /\ pc' # "reset"
      BY <1>1, <2>5, <2>6, <2>9 DEF TypeOK, FaultsFirst
    <2>11. TimerGateFirst' /\ PitMasked'
      BY <2>4, <2>5, <2>7, <2>9 DEF TimerGateFirst, PitMasked, Early
    <2>12. OneTick'
      BY <2>4, <2>5, <2>7, <2>8, <2>9 DEF OneTick, PastWait
    <2> QED BY <2>10, <2>11, <2>12
  <1> QED BY <1>2, <1>3, <1>4 DEF Deliver, Unhandled

\* What the firmware leaves behind satisfies it.
LEMMA InitEstablishes == Init => IInv
  <1> SUFFICES ASSUME Init PROVE IInv
    OBVIOUS
  <1>1. PICK unmasked \in SUBSET {0, 1},
             apic \in [on : BOOLEAN, masked : BOOLEAN, periodic : BOOLEAN, counting : BOOLEAN,
                       inService : {FALSE}, vector : FirmwareVectors] :
          hw = [gates |-> {}, idtr |-> FALSE, unmasked |-> unmasked, base |-> 8, apic |-> apic]
    BY DEF Init
  <1>2. apic \in Apic
    <2>1. FALSE \in BOOLEAN /\ FirmwareVectors \subseteq Nat
      BY DEF FirmwareVectors
    <2>2. {FALSE} \subseteq BOOLEAN
      OBVIOUS
    <2> QED BY <2>1, <2>2, Zenon DEF Apic
  <1>3. unmasked \in SUBSET Nat
    OBVIOUS
  <1>4. hw \in Hardware /\ ~hw.idtr /\ hw.gates = {}
    BY <1>1, <1>2, <1>3 DEF Hardware
  <1>5. pc = "primitivs" /\ intr = FALSE /\ ticks = 0 /\ since = 0
    BY DEF Init
  <1>6. intr \in BOOLEAN /\ ~intr
    BY <1>5
  <1>7. TypeOK
    BY <1>4, <1>5, <1>6 DEF TypeOK
  <1>8. FaultsFirst
    BY <1>4, <1>5, <1>6 DEF FaultsFirst
  <1>9. TimerGateFirst /\ PitMasked /\ OneTick /\ pc # "reset"
    BY <1>4, <1>5 DEF TimerGateFirst, PitMasked, OneTick, Early, PastWait
  <1> QED BY <1>7, <1>8, <1>9 DEF IInv

\* Every step keeps the invariant.
LEMMA StepKeeps ==
    ASSUME IInv, [Next]_vars
    PROVE  IInv'
  <1>1. CASE MainStep
    BY <1>1, MainKeeps
  <1>2. CASE LapicTimer
    <2>1. hw.apic.vector \in Nat
      BY DEF IInv, TypeOK, Hardware, Apic
    <2> QED BY <1>2, <2>1, DeliverKeeps DEF LapicTimer
  <1>3. CASE PicInterrupt
    <2>1. PICK irq \in {0, 1} \cap hw.unmasked : Running /\ intr /\ Deliver(hw.base + irq)
      BY <1>3 DEF PicInterrupt
    <2>2. hw.base + irq \in Nat /\ (hw.base + irq = 32 => irq = 0)
      BY DEF IInv, TypeOK, Hardware
    <2>3. hw.base + irq = 32 => 32 \notin hw.gates
      BY <2>1, <2>2 DEF IInv, PitMasked
    <2> QED BY <2>1, <2>2, <2>3, DeliverKeeps
  <1>4. CASE Exception
    <2>1. Panics /\ hw.idtr
      BY <1>4 DEF Exception
    <2> QED BY <2>1, PanicKeeps DEF IInv, FaultsFirst
  <1>5. CASE Halted \/ UNCHANGED vars
    BY <1>5 DEF Halted, vars, IInv, TypeOK, FaultsFirst, TimerGateFirst, PitMasked, OneTick, Mmio
  <1> QED BY <1>1, <1>2, <1>3, <1>4, <1>5 DEF Next

\* Through the whole start-up, whatever the CPU's APIC, whatever the firmware
\* left running in it and whenever keys, ticks and faults come: from init_cpu
\* on a running timer that can be programmed has its gate in the loaded table,
\* and an interrupt without a gate reaches a fault handler, so the machine
\* never resets.
THEOREM InterruptsAlwaysHandled == Spec => []InterruptsHandled
  <1>1. IInv /\ [Next]_vars => IInv'
    BY StepKeeps
  <1>2. IInv => InterruptsHandled
    BY DEF IInv, FaultsFirst, TimerGateFirst, InterruptsHandled, FaultVectors, Early
  <1> QED BY <1>1, <1>2, InitEstablishes, PTL DEF Spec

\* However many ticks kernel_main waits for, beyond the first, and whatever
\* timer the firmware left running: with a local APIC that its writes do not
\* reach it never gets past the wait.
THEOREM WaitAlwaysNeedsDevice == Spec => []WaitNeedsDevice
  <1>1. IInv /\ [Next]_vars => IInv'
    BY StepKeeps
  <1>2. IInv => WaitNeedsDevice
    BY DEF IInv, OneTick, WaitNeedsDevice
  <1> QED BY <1>1, <1>2, InitEstablishes, PTL DEF Spec

====

--------------------------- MODULE SchedulerProofs ---------------------------
(***************************************************************************)
(* Every slot's job is started once at most, and once unless the event loop *)
(* is blocked for too long while the slot lasts, for any slots that do not *)
(* overlap and any times that satisfy TimesAssumption.                     *)
(***************************************************************************)
EXTENDS Scheduler, TLAPS

\* The loop comes to a tick that is due after one sleep more.  due - Interval is
\* when the last tick was created.
LoopInv ==
    /\ wake <= clock + Sleep
    /\ due - Interval <= clock
    /\ wake <= due + Sleep
    /\ created => wake - Sleep <= clock

\* In a slot that is not late nobody has been waiting for longer than Tolerable.
WaitInv ==
    \A s \in Slots \ late : s <= clock /\ clock <= s + Minute => clock <= Ready + Tolerable

\* A slot that has begun and is not served yet is still going on, if it is not
\* late: the next tick is due early enough, or was created early enough.
ServedInv ==
    \A s \in Slots \ late :
        starts[s] = 0 /\ s <= clock =>
            /\ clock < s + Minute
            /\ created => wake <= s + Interval + 2 * Sleep + Tolerable
            /\ ~created => due <= s + Interval

\* While a slot lasts its start is marked, and jobs are started in no slot to come.
MarkedInv ==
    \A s \in Slots :
        /\ starts[s] = 0 \/ s <= clock
        /\ lastHourly = s \/ lastNightly = s => starts[s] # 0
        /\ starts[s] # 0 /\ clock < s + Minute =>
              IF s \in Hourly THEN lastHourly = s ELSE lastNightly = s

Inv == TypeOK /\ LoopInv /\ WaitInv /\ ServedInv /\ MarkedInv /\ OncePerSlot

\* Two such waits, the interval and the sleep fit into a slot.
LEMMA TolerableFits ==
    Tolerable \in Nat /\ Interval + Sleep + 2 * Tolerable < Minute
<1>1. Minute - Interval - Sleep - 1 \in Nat
    BY TimesAssumption
<1>2. \A n \in Nat : n \div 2 \in Nat /\ 2 * (n \div 2) <= n
    OBVIOUS
<1> QED
    BY <1>1, <1>2, TimesAssumption DEF Tolerable

\* NoSlotMissed follows.
LEMMA ServedInTime == Inv => NoSlotMissed
<1> SUFFICES ASSUME Inv, NEW s \in Slots \ late, s + Minute <= clock
             PROVE  starts[s] >= 1
    BY DEF NoSlotMissed
<1>1. s \in Nat /\ clock \in Nat /\ starts[s] \in Nat
    BY SlotsAssumption DEF Inv, TypeOK
<1>2. s <= clock /\ ~(clock < s + Minute)
    BY <1>1, TimesAssumption
<1> QED
    BY <1>1, <1>2 DEF Inv, ServedInv

\* The scheduler starts before the first slot.
LEMMA InitInv == Init => Inv
<1> SUFFICES ASSUME Init PROVE Inv
    OBVIOUS
<1> USE TimesAssumption, SlotsAssumption
<1>1. TypeOK
    <2> USE DEF Init
    <2>1. clock \in 0 .. LastTime /\ due \in Nat /\ wake \in Nat
        OBVIOUS
    <2>2. lastHourly \in Hourly \cup {None} /\ lastNightly \in Nightly \cup {None}
        OBVIOUS
    <2>3. created \in BOOLEAN /\ running \subseteq Slots /\ starts \in [Slots -> Nat]
        OBVIOUS
    <2>4. late \subseteq Slots
        OBVIOUS
    <2> QED
        BY <2>1, <2>2, <2>3, <2>4 DEF TypeOK
<1>2. OncePerSlot /\ MarkedInv
    BY DEF Init, OncePerSlot, MarkedInv
<1>3. LoopInv
    BY DEF Init, LoopInv
<1>4. WaitInv /\ ServedInv
    <2>1. \A s \in Slots : ~(s <= clock)
        BY DEF Init
    <2> QED
        BY <2>1 DEF WaitInv, ServedInv
<1> QED
    BY <1>1, <1>2, <1>3, <1>4 DEF Inv

\* Whoever waits, waits for Ready, and a step that takes no time puts it off.
LEMMA WaitKeeps ==
    ASSUME Inv, UNCHANGED <<clock, late>>, Ready' \in Int, Ready' >= Ready \/ Ready' >= clock
    PROVE  WaitInv'
<1> SUFFICES ASSUME NEW s \in Slots \ late, s <= clock, clock <= s + Minute
             PROVE  clock <= Ready' + Tolerable
    BY DEF WaitInv
<1>1. clock \in Nat /\ Ready \in Int /\ Tolerable \in Nat
    BY TimesAssumption, TolerableFits DEF Inv, TypeOK, Ready
<1>2. clock <= Ready + Tolerable
    BY DEF Inv, WaitInv
<1>3. \A r, new \in Int :
          (new >= r \/ new >= clock) /\ clock <= r + Tolerable => clock <= new + Tolerable
    BY <1>1
<1> QED
    BY <1>1, <1>2, <1>3

LEMMA RunPendingInv ==
    ASSUME Inv, RunPending
    PROVE  Inv'
<1> USE TimesAssumption, SlotsAssumption
<1>1. /\ clock \in Nat /\ due \in Nat /\ wake \in Nat
      /\ ~created /\ clock >= wake /\ wake' = clock + Sleep
      /\ UNCHANGED <<clock, lastHourly, lastNightly, running, starts, late>>
    BY DEF Inv, TypeOK, RunPending
<1>2. Tolerable \in Nat
    BY TolerableFits
<1>3. TypeOK'
    <2>1. wake' \in Nat /\ clock + Interval \in Nat
        BY <1>1
    <2>2. due' \in Nat
        BY <1>1, <2>1 DEF RunPending
    <2>3. created' \in BOOLEAN
        <3>1. created \in BOOLEAN
            BY DEF Inv, TypeOK
        <3>2. created' = TRUE \/ created' = created
            BY ZenonT(20) DEF RunPending
        <3> QED
            BY <3>1, <3>2
    <2> QED
        BY <1>1, <2>1, <2>2, <2>3 DEF Inv, TypeOK
<1>4. OncePerSlot' /\ MarkedInv'
    BY <1>1 DEF Inv, OncePerSlot, MarkedInv
<1>5. CASE clock >= due
    <2>1. created' = TRUE /\ due' = clock + Interval
        BY <1>5 DEF RunPending
    <2>2. LoopInv'
        BY <1>1, <1>5, <2>1 DEF LoopInv
    <2>3. WaitInv'
        <3>1. Ready' = clock
            BY <1>1, <2>1 DEF Ready
        <3> QED
            BY <1>1, <3>1, WaitKeeps
    <2>4. ServedInv'
        <3> SUFFICES ASSUME NEW s \in Slots \ late, starts[s] = 0, s <= clock
                     PROVE  /\ clock < s + Minute
                            /\ clock + Sleep <= s + Interval + 2 * Sleep + Tolerable
            BY <1>1, <2>1 DEF ServedInv
        <3>1. s \in Nat
            OBVIOUS
        <3>2. clock < s + Minute /\ due <= s + Interval
            BY <1>1 DEF Inv, ServedInv
        <3>3. clock <= wake + Tolerable
            BY <1>1, <3>1, <3>2 DEF Inv, WaitInv, Ready
        <3>4. wake <= due + Sleep
            BY <1>1 DEF Inv, LoopInv
        <3> QED
            BY <1>1, <1>2, <3>1, <3>2, <3>3, <3>4
    <2> QED
        BY <1>3, <1>4, <2>2, <2>3, <2>4 DEF Inv
<1>6. CASE clock < due
    <2>1. created' = FALSE /\ due' = due
        BY <1>1, <1>6 DEF RunPending
    <2>2. LoopInv'
        BY <1>1, <1>6, <2>1 DEF Inv, LoopInv
    <2>3. WaitInv'
        <3>1. Ready' = clock + Sleep
            BY <1>1, <2>1 DEF Ready
        <3> QED
            BY <1>1, <3>1, WaitKeeps
    <2>4. ServedInv'
        BY <1>1, <2>1 DEF Inv, ServedInv
    <2> QED
        BY <1>3, <1>4, <2>2, <2>3, <2>4 DEF Inv
<1> QED
    BY <1>1, <1>5, <1>6

\* What a tick has to do for the invariant: start the job of the slot it is
\* in unless that is marked already, and mark it.
LEMMA TickServes ==
    ASSUME Inv, created, created' = FALSE,
           UNCHANGED <<clock, due, wake, late>>,
           starts' \in [Slots -> Nat],
           \A s \in Slots : starts'[s] >= starts[s],
           \A s \in Slots : InSlot(s) => starts'[s] >= 1
    PROVE  LoopInv' /\ WaitInv' /\ ServedInv'
<1> USE TimesAssumption, SlotsAssumption
<1>1. clock \in Nat /\ due \in Nat /\ wake \in Nat /\ starts \in [Slots -> Nat]
    BY DEF Inv, TypeOK
<1>2. LoopInv'
    BY <1>1 DEF Inv, LoopInv
<1>3. WaitInv'
    <2>1. Ready = wake - Sleep /\ Ready' = wake
        BY DEF Ready
    <2>2. wake >= wake - Sleep
        BY <1>1
    <2> QED
        BY <1>1, <2>1, <2>2, WaitKeeps
<1>4. ServedInv'
    <2> SUFFICES ASSUME NEW s \in Slots \ late, starts'[s] = 0, s <= clock
                 PROVE  FALSE
        BY DEF ServedInv
    <2>1. starts[s] \in Nat /\ starts'[s] >= starts[s]
        BY <1>1
    <2>2. starts[s] = 0
        BY <2>1
    <2>3. clock < s + Minute
        BY <2>2 DEF Inv, ServedInv
    <2> QED
        BY <2>3 DEF InSlot
<1> QED
    BY <1>2, <1>3, <1>4

\* A tick that starts the job of s.
LEMMA StartKeeps ==
    ASSUME Inv, created, created' = FALSE, NEW s \in Slots, InSlot(s), StartJob(s),
           UNCHANGED <<clock, due, wake, late>>,
           \/ s \in Hourly /\ lastHourly # s /\ lastHourly' = s /\ UNCHANGED lastNightly
           \/ s \in Nightly /\ lastNightly # s /\ lastNightly' = s /\ UNCHANGED lastHourly
    PROVE  Inv'
<1> USE TimesAssumption, SlotsAssumption
<1>1. clock \in Nat /\ starts \in [Slots -> Nat]
    BY DEF Inv, TypeOK
<1>2. starts[s] = 0
    <2>1. s <= clock /\ clock < s + Minute
        BY DEF InSlot
    <2> QED
        BY <1>1, <2>1 DEF Inv, MarkedInv, Slots
<1>3. /\ starts' = [starts EXCEPT ![s] = 1]
      /\ starts' \in [Slots -> Nat]
      /\ running' = running \cup {s}
    BY <1>1, <1>2 DEF StartJob
<1>4. TypeOK'
    BY <1>3 DEF Inv, TypeOK
<1>5. \A t \in Slots : InSlot(t) => t = s
    <2> SUFFICES ASSUME NEW t \in Slots, InSlot(t) PROVE t = s
        OBVIOUS
    <2>1. s \in Nat /\ t \in Nat
        OBVIOUS
    <2> QED
        BY <1>1, <2>1 DEF InSlot
<1>6. OncePerSlot'
    BY <1>1, <1>3 DEF Inv, OncePerSlot
<1>7. MarkedInv'
    <2> SUFFICES ASSUME NEW t \in Slots
                 PROVE  /\ starts'[t] = 0 \/ t <= clock
                        /\ lastHourly' = t \/ lastNightly' = t => starts'[t] # 0
                        /\ starts'[t] # 0 /\ clock < t + Minute =>
                              IF t \in Hourly THEN lastHourly' = t ELSE lastNightly' = t
        BY DEF MarkedInv
    <2>1. CASE t = s
        BY <1>1, <1>3, <2>1 DEF InSlot
    <2>2. CASE t # s
        <3>1. starts'[t] = starts[t] /\ t \in Nat
            BY <1>1, <1>3, <2>2
        <3>2. starts[t] = 0 \/ t <= clock
            BY DEF Inv, MarkedInv
        <3>3. ~(starts[t] # 0 /\ clock < t + Minute)
            BY <1>1, <1>5, <2>2, <3>1, <3>2 DEF InSlot
        <3>4. lastHourly' = t \/ lastNightly' = t => starts[t] # 0
            BY <2>2 DEF Inv, MarkedInv
        <3> QED
            BY <3>1, <3>2, <3>3, <3>4
    <2> QED
        BY <2>1, <2>2
<1>8. LoopInv' /\ WaitInv' /\ ServedInv'
    <2>1. \A t \in Slots : starts'[t] >= starts[t]
        BY <1>1, <1>2, <1>3
    <2>2. \A t \in Slots : InSlot(t) => starts'[t] >= 1
        BY <1>1, <1>3, <1>5
    <2> QED
        BY <1>3, <2>1, <2>2, TickServes
<1> QED
    BY <1>4, <1>6, <1>7, <1>8 DEF Inv

LEMMA TickIdleInv ==
    ASSUME Inv, TickIdle
    PROVE  Inv'
<1> USE TimesAssumption, SlotsAssumption
<1>1. /\ UNCHANGED <<clock, due, wake, lastHourly, lastNightly, running, starts, late>>
      /\ created /\ created' = FALSE
    BY DEF TickIdle
<1>2. TypeOK' /\ OncePerSlot' /\ MarkedInv'
    BY <1>1 DEF Inv, TypeOK, OncePerSlot, MarkedInv
<1>3. starts \in [Slots -> Nat]
    BY DEF Inv, TypeOK
<1>4. \A s \in Slots : InSlot(s) => starts[s] >= 1
    <2> SUFFICES ASSUME NEW s \in Slots, InSlot(s) PROVE starts[s] >= 1
        OBVIOUS
    <2>1. lastHourly = s \/ lastNightly = s
        BY DEF TickIdle, ShouldRunHourly, ShouldRunNightly, Slots
    <2> QED
        BY <1>3, <2>1 DEF Inv, MarkedInv
<1>5. LoopInv' /\ WaitInv' /\ ServedInv'
    <2>1. \A s \in Slots : starts'[s] >= starts[s]
        BY <1>1, <1>3
    <2> QED
        BY <1>1, <1>3, <1>4, <2>1, TickServes
<1> QED
    BY <1>2, <1>5 DEF Inv

LEMMA ElapseInv ==
    ASSUME Inv, Elapse
    PROVE  Inv'
<1> USE TimesAssumption, SlotsAssumption
<1>1. /\ UNCHANGED <<due, wake, created, lastHourly, lastNightly, running, starts>>
      /\ clock' = clock + 1 /\ clock < LastTime
      /\ clock \in Nat /\ due \in Nat /\ wake \in Nat /\ created \in BOOLEAN
      /\ Ready' = Ready /\ Ready \in Int
    BY DEF Elapse, Inv, TypeOK, Ready
<1>2. late \subseteq late' /\ late' \subseteq Slots
    BY DEF Elapse, Inv, TypeOK
<1>3. TypeOK' /\ OncePerSlot'
    BY <1>1, <1>2 DEF Inv, TypeOK, OncePerSlot
<1>4. LoopInv'
    BY <1>1 DEF Inv, LoopInv
<1>5. WaitInv'
    <2> SUFFICES ASSUME NEW s \in Slots \ late', s <= clock', clock' <= s + Minute
                 PROVE  clock' <= Ready + Tolerable
        BY <1>1, <1>2 DEF WaitInv
    <2>1. ~(clock' > Ready + Tolerable)
        BY DEF Elapse
    <2> QED
        BY <1>1, <2>1, TolerableFits
<1>6. MarkedInv'
    BY <1>1 DEF Inv, MarkedInv
<1>7. ServedInv'
    <2> SUFFICES ASSUME NEW s \in Slots, s \notin late', starts[s] = 0, s <= clock'
                 PROVE  /\ clock' < s + Minute
                        /\ created => wake <= s + Interval + 2 * Sleep + Tolerable
                        /\ ~created => due <= s + Interval
        BY <1>1 DEF ServedInv
    <2>1. s \in Nat /\ s \notin late /\ Tolerable \in Nat
        BY <1>2, TolerableFits
    <2>2. CASE s <= clock
        <3>1. /\ clock < s + Minute
              /\ created => wake <= s + Interval + 2 * Sleep + Tolerable
              /\ ~created => due <= s + Interval
            BY <2>1, <2>2 DEF Inv, ServedInv
        <3>2. clock' <= Ready + Tolerable
            BY <1>1, <1>5, <2>1, <2>2, <3>1 DEF WaitInv
        <3>3. Ready <= s + Interval + Sleep + Tolerable
            BY <1>1, <2>1, <3>1 DEF Inv, LoopInv, Ready
        <3> QED
            BY <1>1, <2>1, <3>1, <3>2, <3>3, TolerableFits
    <2>3. CASE s = clock + 1
        BY <1>1, <2>1, <2>3 DEF Inv, LoopInv
    <2> QED
        BY <1>1, <2>1, <2>2, <2>3
<1> QED
    BY <1>3, <1>4, <1>5, <1>6, <1>7 DEF Inv

LEMMA StepInv == Inv /\ [Next]_vars => Inv'
<1> SUFFICES ASSUME Inv, [Next]_vars PROVE Inv'
    OBVIOUS
<1>1. ASSUME NEW s \in Slots, TickHourly(s) PROVE Inv'
    BY <1>1, StartKeeps DEF TickHourly, ShouldRunHourly
<1>2. ASSUME NEW s \in Slots, TickNightly(s) PROVE Inv'
    BY <1>2, StartKeeps DEF TickNightly, ShouldRunNightly
<1>3. ASSUME NEW s \in Slots, JobEnds(s) PROVE Inv'
    BY <1>3 DEF JobEnds, Inv, TypeOK, LoopInv, WaitInv, Ready, ServedInv, MarkedInv, OncePerSlot
<1>4. CASE UNCHANGED vars
    BY <1>4 DEF vars, Inv, TypeOK, LoopInv, WaitInv, Ready, ServedInv, MarkedInv, OncePerSlot
<1> QED
    BY <1>1, <1>2, <1>3, <1>4, RunPendingInv, TickIdleInv, ElapseInv DEF Next

\* The inductive invariant holds in every reachable state.
THEOREM InvHolds == Spec => []Inv
BY InitInv, StepInv, PTL DEF Spec

\* The state of run_scheduler keeps its types.
THEOREM TypeCorrect == Spec => []TypeOK
<1>1. Inv => TypeOK
    BY DEF Inv
<1> QED
    BY <1>1, InvHolds, PTL

\* However ticks and jobs fall together, run_scheduler starts the job of a
\* slot once at most.
THEOREM StartedOnce == Spec => []OncePerSlot
<1>1. Inv => OncePerSlot
    BY DEF Inv
<1> QED
    BY <1>1, InvHolds, PTL

\* However long the event loop is blocked, run_scheduler misses no slot but those
\* in which the scheduler or its tick had to wait for longer than Tolerable.
THEOREM NothingMissed == Spec => []NoSlotMissed
BY ServedInTime, InvHolds, PTL
==============================================================================

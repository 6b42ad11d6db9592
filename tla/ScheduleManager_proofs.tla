----------------------- MODULE ScheduleManager_proofs -----------------------
(***************************************************************************)
(* Proofs about ScheduleManager, for every set of valves and lists, every  *)
(* length of the day and every number of replacements of the list.         *)
(***************************************************************************)
EXTENDS ScheduleManager, TLAPS

LEMMA AfterMinType ==
  ASSUME NEW m \in Minutes, NEW d \in 0..DayMins
  PROVE  AfterMin(m, d) \in Minutes
BY ClockAssumption DEF Minutes, AfterMin

LEMMA AfterMinZero ==
  ASSUME NEW m \in Minutes
  PROVE  AfterMin(m, 0) = m
BY ClockAssumption DEF Minutes, AfterMin

LEMMA AfterMinSum ==
  ASSUME NEW m \in Minutes, NEW d \in 0..MaxDrift, NEW e \in 0..MaxDrift
  PROVE  /\ AfterMin(AfterMin(m, d), e) = AfterMin(m, d + e)
         /\ d + e \in 0..2 * MaxDrift
BY ClockAssumption DEF Minutes, AfterMin

LEMMA TypeInit == Init => TypeOK
<1> SUFFICES ASSUME Init PROVE TypeOK
  OBVIOUS
<1> USE ClockAssumption, RefreshAssumption
<1>1. mins \in Minutes /\ drift \in 0..MaxDrift /\ curr \in Minutes
  BY DEF Init, Minutes
<1>2. ss \in Seq(Schedules) /\ filled \in 0..Len(ss) /\ ss_active \subseteq 1..Len(ss)
  BY DEF Init
<1>3. v_state \in [Valves -> {VALVE_OPEN, VALVE_CLOSED}]
  BY DEF Init
<1>4. torn \in BOOLEAN
  BY DEF Init
<1>5. i \in Nat \ {0} /\ ss_len \in Nat /\ refreshes \in 0..MaxRefresh
  BY DEF Init
<1>6. QED
  BY <1>1, <1>2, <1>3, <1>4, <1>5 DEF Init, TypeOK, ThreadPcs

LEMMA SetValveType ==
  ASSUME NEW id, NEW state \in {VALVE_OPEN, VALVE_CLOSED},
         v_state \in [Valves -> {VALVE_OPEN, VALVE_CLOSED}],
         vm_set_valve_state(id, state)
  PROVE  /\ v_state' \in [Valves -> {VALVE_OPEN, VALVE_CLOSED}]
         /\ id \in Valves => v_state'[id] = state
         /\ \A v \in Valves : v # id => v_state'[v] = v_state[v]
BY DEF vm_set_valve_state

\* The type invariant is inductive on its own.
LEMMA TypeStep == TypeOK /\ [Next]_vars => TypeOK'
<1> SUFFICES ASSUME TypeOK, [Next]_vars PROVE TypeOK'
  OBVIOUS
<1> USE ClockAssumption DEF TypeOK
<1>1. CASE UNCHANGED vars
  BY <1>1 DEF vars
<1>2. CASE Tick
  <2>1. drift + 1 \in 0..MaxDrift /\ 1 \in 0..DayMins
    BY <1>2 DEF Tick
  <2>2. mins' \in Minutes
    BY <1>2, <2>1, AfterMinType DEF Tick
  <2>3. QED
    BY <1>2, <2>1, <2>2 DEF Tick, list_vars
<1>3. CASE sm_start_scheduler
  BY <1>3 DEF sm_start_scheduler, list_vars, ThreadPcs
<1>4. CASE Sample
  <2>1. torn' \in BOOLEAN
    BY <1>4 DEF Sample
  <2>2. i' \in Nat \ {0} /\ drift' \in 0..MaxDrift
    BY <1>4 DEF Sample
  <2>3. QED
    BY <1>4, <2>1, <2>2 DEF Sample, list_vars, ThreadPcs
<1>5. CASE LoopTest
  BY <1>5 DEF LoopTest, list_vars, ThreadPcs, ActivatePcs
<1>6. ASSUME NEW from, NEW results, NEW yes \in ThreadPcs, NEW no \in ThreadPcs,
             Branch(from, results, yes, no)
      PROVE  TypeOK'
  BY <1>6 DEF Branch, list_vars
<1>7. CASE TestInactive \/ TestStarted \/ TestNotOver
  BY <1>6, <1>7 DEF TestInactive, TestStarted, TestNotOver, ThreadPcs, ActivatePcs,
                    DeactivatePcs
<1>8. CASE TestActive \/ TestNotStarted \/ TestOver
  BY <1>6, <1>8 DEF TestActive, TestNotStarted, TestOver, ThreadPcs, DeactivatePcs
<1>9. ASSUME NEW from, NEW state \in {VALVE_OPEN, VALVE_CLOSED}, NEW flags,
             NEW next \in ThreadPcs, SetUnderLock(from, state, flags, next),
             InBlock => flags \subseteq 1..Len(ss)
      PROVE  TypeOK'
  <2>1. v_state' \in [Valves -> {VALVE_OPEN, VALVE_CLOSED}]
    BY <1>9, SetValveType DEF SetUnderLock
  <2>2. QED
    BY <1>9, <2>1 DEF SetUnderLock
<1>10. CASE Activate
  <2>1. InBlock => ss_active \cup {i} \subseteq 1..Len(ss)
    BY DEF InBlock
  <2>2. QED
    BY <1>9, <1>10, <2>1 DEF Activate, ThreadPcs, DeactivatePcs
<1>11. CASE Deactivate
  BY <1>9, <1>11 DEF Deactivate, ThreadPcs
<1>12. CASE SleepNext
  <2>1. torn' \in BOOLEAN
    BY <1>12 DEF SleepNext
  <2>2. i' \in Nat \ {0}
    BY <1>12 DEF SleepNext
  <2>3. QED
    BY <1>12, <2>1, <2>2 DEF SleepNext, list_vars, ThreadPcs
<1>13. ASSUME NEW list \in Lists, SetLock(list)
       PROVE  TypeOK'
  <2>1. ss' \in Seq(Schedules) /\ filled' \in 0..Len(ss') /\ ss_active' \subseteq 1..Len(ss')
    BY <1>13, ListsAssumption DEF SetLock
  <2>2. refreshes' \in 0..MaxRefresh
    BY <1>13, RefreshAssumption DEF SetLock
  <2>3. QED
    BY <1>13, <2>1, <2>2 DEF SetLock
<1>14. CASE SetFill
  BY <1>14 DEF SetFill
<1>15. CASE SetUnlock
  BY <1>15 DEF SetUnlock
<1>16. QED
  BY <1>1, <1>2, <1>3, <1>4, <1>5, <1>7, <1>8, <1>10, <1>11, <1>12, <1>13, <1>14, <1>15
     DEF Next, Thread

----------------------------------------------------------------------------
(* Steps that leave the shared data alone, and the five that do not.       *)

QuietStep ==
  /\ UNCHANGED <<list_vars, mtx, v_state, refreshes>>
  /\ torn' = torn \/ torn' = FALSE
  /\ ~Running' => ~Running /\ torn' = torn /\ i' = i
  /\ Running \/ ~Running' \/ (mtx = "free" /\ torn' = torn)

LEMMA BranchQuiet ==
  ASSUME NEW from, NEW results, NEW yes, NEW no, Branch(from, results, yes, no),
         from # "off", yes # "off", no # "off"
  PROVE  QuietStep
BY DEF Branch, QuietStep, Running, list_vars

LEMMA StepKinds ==
  ASSUME [Next]_vars
  PROVE  QuietStep \/ Activate \/ Deactivate \/ (\E list \in Lists : SetLock(list))
         \/ SetFill \/ SetUnlock
<1>1. UNCHANGED vars => QuietStep
  BY DEF vars, QuietStep, Running, list_vars
<1>2. Tick => QuietStep
  BY DEF Tick, QuietStep, Running, list_vars
<1>3. sm_start_scheduler => QuietStep
  BY DEF sm_start_scheduler, QuietStep, Running, list_vars
<1>4. Sample \/ LoopTest \/ SleepNext => QuietStep
  BY DEF Sample, LoopTest, SleepNext, QuietStep, Running, list_vars
<1>5. TestInactive \/ TestStarted \/ TestNotOver => QuietStep
  BY BranchQuiet DEF TestInactive, TestStarted, TestNotOver
<1>6. TestActive \/ TestNotStarted \/ TestOver => QuietStep
  BY BranchQuiet DEF TestActive, TestNotStarted, TestOver
<1>7. QED
  BY <1>1, <1>2, <1>3, <1>4, <1>5, <1>6 DEF Next, Thread

----------------------------------------------------------------------------
(* The inductive invariant, conjunct by conjunct.                          *)

LEMMA InvInit == Init => IInv
<1> SUFFICES ASSUME Init PROVE IInv
  OBVIOUS
<1>1. TypeOK
  BY TypeInit
<1>2. ListInv /\ OffInv
  BY DEF Init, ListInv, OffInv, Running, Static, Open, VALVE_OPEN, VALVE_CLOSED
<1>3. ClockInv /\ FlagInv
  BY DEF Init, ClockInv, FlagInv, PassedActiveInWindow
<1>4. ReadInv
  BY DEF Init, ReadInv, Running
<1>5. OpenMeansActive /\ ValveInv
  BY DEF Init, OpenMeansActive, ValveInv, Open, VALVE_OPEN, VALVE_CLOSED
<1>6. QED
  BY <1>1, <1>2, <1>3, <1>4, <1>5 DEF IInv

LEMMA ListStep == IInv /\ [Next]_vars => ListInv'
<1> SUFFICES ASSUME IInv, [Next]_vars PROVE ListInv'
  OBVIOUS
<1> USE DEF IInv, ListInv, TypeOK
<1>1. CASE QuietStep
  BY <1>1 DEF QuietStep, list_vars
<1>2. CASE Activate
  BY <1>2 DEF Activate, SetUnderLock
<1>3. CASE Deactivate
  BY <1>3 DEF Deactivate, SetUnderLock
<1>4. ASSUME NEW list \in Lists, SetLock(list) PROVE ListInv'
  BY <1>4 DEF SetLock
<1>5. CASE SetFill
  BY <1>5 DEF SetFill
<1>6. CASE SetUnlock
  BY <1>6 DEF SetUnlock
<1>7. QED
  BY <1>1, <1>2, <1>3, <1>4, <1>5, <1>6, StepKinds

LEMMA OffStep == IInv /\ [Next]_vars => OffInv'
<1> SUFFICES ASSUME IInv, [Next]_vars PROVE OffInv'
  OBVIOUS
<1> USE DEF IInv, OffInv, Running, Static, Open
<1>1. CASE QuietStep
  BY <1>1 DEF QuietStep, list_vars
<1>2. CASE Activate
  BY <1>2 DEF Activate, SetUnderLock
<1>3. CASE Deactivate
  BY <1>3 DEF Deactivate, SetUnderLock
<1>4. ASSUME NEW list \in Lists, SetLock(list) PROVE OffInv'
  BY <1>4 DEF SetLock, TypeOK
<1>5. CASE SetFill
  BY <1>5 DEF SetFill
<1>6. CASE SetUnlock
  BY <1>6 DEF SetUnlock
<1>7. QED
  BY <1>1, <1>2, <1>3, <1>4, <1>5, <1>6, StepKinds

LEMMA ClockStep == IInv /\ [Next]_vars => ClockInv'
<1> SUFFICES ASSUME IInv, [Next]_vars PROVE ClockInv'
  OBVIOUS
<1> USE DEF IInv, ClockInv, TypeOK
<1>1. CASE Tick
  <2>1. 1 \in 0..MaxDrift
    BY <1>1, ClockAssumption DEF Tick
  <2>2. AfterMin(AfterMin(curr, drift), 1) = AfterMin(curr, drift + 1)
    BY <2>1, AfterMinSum
  <2>3. QED
    BY <1>1, <2>2 DEF Tick, list_vars
<1>2. CASE sm_start_scheduler
  BY <1>2 DEF sm_start_scheduler, list_vars, OffInv, Running
<1>3. CASE Sample
  BY <1>3, AfterMinZero DEF Sample, list_vars
<1>4. CASE LoopTest \/ SleepNext
  BY <1>4 DEF LoopTest, SleepNext, list_vars
<1>5. ASSUME NEW from, NEW results, NEW yes, NEW no, from \notin {"off", "sample"},
             Branch(from, results, yes, no)
      PROVE  ClockInv'
  BY <1>5 DEF Branch, list_vars
<1>6. CASE TestInactive \/ TestStarted \/ TestNotOver
  BY <1>5, <1>6 DEF TestInactive, TestStarted, TestNotOver
<1>7. CASE TestActive \/ TestNotStarted \/ TestOver
  BY <1>5, <1>7 DEF TestActive, TestNotStarted, TestOver
<1>8. CASE Activate \/ Deactivate
  BY <1>8 DEF Activate, Deactivate, SetUnderLock
<1>9. ASSUME NEW list \in Lists, SetLock(list) PROVE ClockInv'
  BY <1>9 DEF SetLock
<1>10. CASE SetFill \/ SetUnlock
  BY <1>10 DEF SetFill, SetUnlock
<1>11. CASE UNCHANGED vars
  BY <1>11 DEF vars
<1>12. QED
  BY <1>1, <1>2, <1>3, <1>4, <1>6, <1>7, <1>8, <1>9, <1>10, <1>11 DEF Next, Thread

\* An entry marked active is read exactly, because replacing the list clears
\* every flag and the thread sets one only while nobody replaces the list.
LEMMA ActiveReadExact ==
  ASSUME IInv, i \in ss_active
  PROVE  InBlock /\ torn = FALSE /\ mtx = "free" /\ filled = Len(ss) /\ i \in 1..Len(ss)
BY DEF IInv, ListInv, TypeOK, InBlock

LEMMA EntryTypes ==
  ASSUME TypeOK, NEW k \in 1..Len(ss)
  PROVE  /\ ss[k] \in Schedules
         /\ ss[k].start \in Int /\ ss[k].stop \in Int /\ curr \in Int
<1>1. ss[k] \in Schedules
  BY DEF TypeOK
<1>2. ss[k].start \in 0..DayMins /\ ss[k].stop \in 0..DayMins
  BY <1>1 DEF Schedules
<1>3. curr \in 0..DayMins - 1
  BY DEF TypeOK, Minutes
<1>4. QED
  BY <1>1, <1>2, <1>3, ClockAssumption

\* At d_stop an active entry has started.
LEMMA StartedStep ==
  ASSUME IInv, [Next]_vars
  PROVE  (tpc = "d_stop" /\ i \in ss_active => ss[i].start <= curr)'
<1> SUFFICES ASSUME tpc' = "d_stop", i' \in ss_active'
             PROVE  ss'[i'].start <= curr'
  OBVIOUS
<1> USE DEF IInv
<1>1. CASE TestNotStarted
  <2>1. i \in ss_active
    BY <1>1 DEF TestNotStarted, Branch, list_vars
  <2>2. ~(curr < ss[i].start)
    BY <1>1, <2>1, ActiveReadExact DEF TestNotStarted, Branch, Read
  <2>3. ss[i].start \in Int /\ curr \in Int
    BY <2>1, ActiveReadExact, EntryTypes
  <2>4. QED
    BY <1>1, <2>2, <2>3 DEF TestNotStarted, Branch, list_vars
<1>2. CASE Tick
  BY <1>2 DEF Tick, list_vars, FlagInv
<1>3. CASE UNCHANGED vars
  BY <1>3 DEF vars, FlagInv
<1>4. ASSUME NEW list \in Lists, SetLock(list) PROVE FALSE
  BY <1>4 DEF SetLock
<1>5. CASE SetFill \/ SetUnlock
  BY <1>5 DEF SetFill, SetUnlock, ListInv
<1>6. CASE sm_start_scheduler \/ Sample \/ LoopTest \/ SleepNext
  BY <1>6 DEF sm_start_scheduler, Sample, LoopTest, SleepNext
<1>7. CASE TestInactive \/ TestStarted \/ TestNotOver \/ TestActive \/ TestOver
  BY <1>7 DEF TestInactive, TestStarted, TestNotOver, TestActive, TestOver, Branch
<1>8. CASE Activate \/ Deactivate
  BY <1>8 DEF Activate, Deactivate, SetUnderLock
<1>9. QED
  BY <1>1, <1>2, <1>3, <1>4, <1>5, <1>6, <1>7, <1>8 DEF Next, Thread

\* No step lets the thread pass an active entry outside its window.
LEMMA PassedStep ==
  ASSUME IInv, [Next]_vars
  PROVE  PassedActiveInWindow'
<1> SUFFICES ASSUME NEW k \in ss_active', Done(k)' \/ tpc' = "sample"
             PROVE  InWindow(ss[k], curr)'
  BY DEF PassedActiveInWindow
<1> USE DEF IInv
<1>0. ASSUME k \in ss_active, Done(k) \/ tpc = "sample"
      PROVE  InWindow(ss[k], curr)
  BY <1>0 DEF FlagInv, PassedActiveInWindow
<1>1. CASE Tick \/ UNCHANGED vars
  BY <1>0, <1>1 DEF Tick, vars, list_vars, Done, InWindow
<1>2. CASE sm_start_scheduler
  BY <1>2 DEF sm_start_scheduler, list_vars, OffInv, Running
<1>3. CASE Sample
  BY <1>3 DEF Sample, list_vars, Done, TypeOK
<1>4. CASE LoopTest
  <2>1. k \in ss_active /\ k \in 1..ss_len
    BY <1>4 DEF LoopTest, list_vars, ListInv, TypeOK
  <2>2. tpc' = "sample" => k < i
    BY <1>4, <2>1 DEF LoopTest, TypeOK
  <2>3. QED
    BY <1>0, <1>4, <2>1, <2>2 DEF LoopTest, list_vars, Done, InWindow
<1>5. CASE TestInactive \/ TestStarted \/ TestNotOver \/ TestNotStarted
  BY <1>0, <1>5 DEF TestInactive, TestStarted, TestNotOver, TestNotStarted, Branch,
                    list_vars, Done, InWindow
<1>6. CASE TestActive
  <2>1. CASE k = i
    <3>1. i \in ss_active /\ tpc' = "sleep"
      BY <1>6, <2>1 DEF TestActive, Branch, list_vars, Done, TypeOK
    <3>2. QED
      BY <1>6, <3>1, ActiveReadExact DEF TestActive, Branch, Read
  <2>2. CASE k # i
    BY <1>0, <1>6, <2>2 DEF TestActive, Branch, list_vars, Done, InWindow
  <2>3. QED
    BY <2>1, <2>2
<1>7. CASE TestOver
  <2>1. CASE k = i
    <3>1. i \in ss_active /\ tpc' = "sleep"
      BY <1>7, <2>1 DEF TestOver, Branch, list_vars, Done, TypeOK
    <3>2. ~(curr > ss[i].stop) /\ ss[i].start <= curr
      BY <1>7, <3>1, ActiveReadExact DEF TestOver, Branch, Read, FlagInv
    <3>3. ss[i].stop \in Int /\ curr \in Int
      BY <3>1, ActiveReadExact, EntryTypes
    <3>4. QED
      BY <1>7, <2>1, <3>2, <3>3 DEF TestOver, Branch, list_vars, InWindow
  <2>2. CASE k # i
    BY <1>0, <1>7, <2>2 DEF TestOver, Branch, list_vars, Done, InWindow
  <2>3. QED
    BY <2>1, <2>2
<1>8. CASE Activate
  BY <1>0, <1>8 DEF Activate, SetUnderLock, Done, InWindow, TypeOK
<1>9. CASE Deactivate
  <2>1. k \in ss_active /\ k # i
    BY <1>9, ActiveReadExact DEF Deactivate, SetUnderLock
  <2>2. QED
    BY <1>0, <1>9, <2>1 DEF Deactivate, SetUnderLock, Done, InWindow
<1>10. CASE SleepNext
  BY <1>0, <1>10 DEF SleepNext, list_vars, Done, InWindow, TypeOK
<1>11. ASSUME NEW list \in Lists, SetLock(list) PROVE FALSE
  BY <1>11 DEF SetLock
<1>12. CASE SetFill \/ SetUnlock
  BY <1>12 DEF SetFill, SetUnlock, ListInv
<1>13. QED
  BY <1>1, <1>2, <1>3, <1>4, <1>5, <1>6, <1>7, <1>8, <1>9, <1>10, <1>11, <1>12
     DEF Next, Thread

Near(k) == Within(ss[k], curr, MaxDrift) \/ (~Static /\ k = i /\ tpc \in DeactivatePcs)

LEMMA WithinHere ==
  ASSUME NEW s, NEW m \in Minutes, InWindow(s, m), NEW d \in Nat
  PROVE  Within(s, m, d)
<1>1. m = AfterMin(m, 0) /\ 0 \in 0..d
  BY AfterMinZero
<1>2. QED
  BY <1>1 DEF Within

\* Active entries stay within MaxDrift minutes of their windows, except for the
\* one the thread is about to correct after the list was replaced.
LEMMA NearStep ==
  ASSUME IInv, [Next]_vars
  PROVE  (Running => \A k \in ss_active : Near(k))'
<1> SUFFICES ASSUME Running', NEW k \in ss_active'
             PROVE  Near(k)'
  OBVIOUS
<1> USE DEF IInv
<1>0. ASSUME Running, k \in ss_active
      PROVE  Near(k)
  BY <1>0 DEF FlagInv, Near
<1>1. CASE Sample
  <2>1. k \in ss_active /\ tpc = "sample"
    BY <1>1 DEF Sample, list_vars
  <2>2. InWindow(ss[k], curr) /\ mins = AfterMin(curr, drift)
    BY <2>1 DEF FlagInv, PassedActiveInWindow, ClockInv
  <2>3. Within(ss[k], mins, MaxDrift)
    BY <2>2 DEF TypeOK, Within
  <2>4. QED
    BY <1>1, <2>3 DEF Sample, list_vars, Near, Within
<1>2. ASSUME tpc' = "sleep", curr' = curr, TypeOK', k = i'
      PROVE  Near(k)'
  <2>1. Done(k)' /\ PassedActiveInWindow'
    BY <1>2, PassedStep DEF Done
  <2>2. InWindow(ss'[k], curr')
    BY <2>1 DEF PassedActiveInWindow, InWindow
  <2>3. Within(ss'[k], curr', MaxDrift)
    BY <1>2, <2>2, WithinHere, ClockAssumption DEF TypeOK
  <2>4. QED
    BY <2>3 DEF Near, Within
<1>3. CASE Tick \/ UNCHANGED vars
  BY <1>0, <1>3 DEF Tick, vars, list_vars, Near, Within, Running, Static
<1>4. CASE sm_start_scheduler
  BY <1>4 DEF sm_start_scheduler, list_vars, OffInv, Running
<1>5. CASE LoopTest \/ SleepNext
  BY <1>0, <1>5 DEF LoopTest, SleepNext, list_vars, Near, Within, Running, Static,
                    DeactivatePcs
<1>6. CASE TestInactive \/ TestStarted \/ TestNotOver
  BY <1>0, <1>6 DEF TestInactive, TestStarted, TestNotOver, Branch, list_vars, Near, Within,
                    Running, Static, DeactivatePcs
<1>7. CASE TestActive \/ TestNotStarted \/ TestOver
  <2>1. curr' = curr /\ i' = i /\ ss' = ss /\ ss_active' = ss_active /\ refreshes' = refreshes
        /\ tpc \in DeactivatePcs /\ tpc' \in DeactivatePcs \cup {"sleep"}
    BY <1>7 DEF TestActive, TestNotStarted, TestOver, Branch, list_vars, DeactivatePcs
  <2>2. Near(k)
    BY <1>0, <2>1 DEF Running, DeactivatePcs
  <2>3. CASE tpc' = "sleep" /\ k = i
    BY <1>2, <2>1, <2>3, TypeStep
  <2>4. CASE tpc' \in DeactivatePcs \/ k # i
    BY <2>1, <2>2, <2>4 DEF Near, Within, Static
  <2>5. QED
    BY <2>1, <2>3, <2>4
<1>8. CASE Activate
  <2>1. curr' = curr /\ i' = i /\ ss' = ss /\ refreshes' = refreshes
        /\ tpc = "a_lock" /\ tpc' = "d_active" /\ ss_active' \subseteq ss_active \cup {i}
    BY <1>8 DEF Activate, SetUnderLock
  <2>2. CASE k \in ss_active
    BY <1>0, <2>1, <2>2 DEF Near, Within, Static, Running, DeactivatePcs
  <2>3. CASE k = i /\ ~Static
    BY <2>1, <2>3 DEF Near, Static, DeactivatePcs
  <2>4. CASE k = i /\ Static
    <3>1. InWindow(ss[i], curr)
      BY <2>1, <2>4 DEF ReadInv, PcFacts, Running
    <3>2. Within(ss[i], curr, MaxDrift)
      BY <3>1, WithinHere, ClockAssumption DEF TypeOK
    <3>3. QED
      BY <2>1, <2>4, <3>2 DEF Near, Within
  <2>5. QED
    BY <2>1, <2>2, <2>3, <2>4
<1>9. CASE Deactivate
  <2>1. curr' = curr /\ i' = i /\ ss' = ss /\ refreshes' = refreshes
        /\ tpc = "d_lock" /\ tpc' = "sleep" /\ k \in ss_active
    BY <1>9 DEF Deactivate, SetUnderLock
  <2>2. CASE k = i
    BY <1>2, <2>1, <2>2, TypeStep
  <2>3. CASE k # i
    BY <1>0, <2>1, <2>3 DEF Near, Within, Running
  <2>4. QED
    BY <2>2, <2>3
<1>10. ASSUME NEW list \in Lists, SetLock(list) PROVE FALSE
  BY <1>10 DEF SetLock
<1>11. CASE SetFill \/ SetUnlock
  BY <1>11 DEF SetFill, SetUnlock, ListInv
<1>12. QED
  BY <1>1, <1>3, <1>4, <1>5, <1>6, <1>7, <1>8, <1>9, <1>10, <1>11 DEF Next, Thread

LEMMA FlagStep == IInv /\ [Next]_vars => FlagInv'
BY StartedStep, PassedStep, NearStep DEF FlagInv, Near

\* With an unchanged list the thread's reads are exact.
LEMMA StaticRead ==
  ASSUME IInv, Static, Running, i \in 1..Len(ss), NEW value
  PROVE  Read(value) = {value}
<1>1. torn = FALSE /\ InBlock
  BY DEF IInv, OffInv, ListInv, InBlock, TypeOK
<1>2. QED
  BY <1>1 DEF Read

LEMMA ReadStep == IInv /\ [Next]_vars => ReadInv'
<1> SUFFICES ASSUME IInv, [Next]_vars, Running', Static' PROVE PcFacts' /\ TriedActive'
  BY DEF ReadInv
<1> USE DEF IInv
<1> DEFINE Same == UNCHANGED <<ss, ss_active, curr, i>>
<1>0. ASSUME Running, Static
      PROVE  PcFacts /\ TriedActive /\ ss_len = Len(ss) /\ filled = Len(ss) /\ mtx = "free"
  BY <1>0 DEF ReadInv, OffInv, ListInv
<1>1. CASE sm_start_scheduler
  BY <1>1 DEF sm_start_scheduler, list_vars, OffInv, Running, PcFacts, TriedActive, Tried,
              ActivatePcs, DeactivatePcs, Done, SweepOver, TypeOK
<1>2. CASE Tick \/ UNCHANGED vars
  <2>1. Running /\ Static /\ tpc' = tpc /\ Same
    BY <1>2 DEF Tick, vars, list_vars, Running, Static
  <2>2. QED
    BY <1>0, <2>1 DEF PcFacts, TriedActive, Tried, Done, SweepOver, InWindow
<1>3. CASE Sample
  BY <1>3 DEF Sample, list_vars, PcFacts, TriedActive, Tried, Done, SweepOver, ActivatePcs,
              DeactivatePcs, TypeOK
<1>4. CASE LoopTest
  <2>1. TriedActive /\ ss_len = Len(ss)
    BY <1>0, <1>4 DEF LoopTest, Running, Static
  <2>2. Same /\ tpc = "loop" /\ i \in Nat \ {0}
    BY <1>4 DEF LoopTest, list_vars, TypeOK
  <2>3. CASE i <= Len(ss)
    <3>1. tpc' = "a_active" /\ i \in 1..Len(ss)
      BY <1>4, <2>1, <2>2, <2>3 DEF LoopTest, TypeOK
    <3>2. QED
      BY <2>1, <2>2, <3>1 DEF PcFacts, TriedActive, Tried, Done, SweepOver, InWindow,
                              DeactivatePcs
  <2>4. CASE ~(i <= Len(ss))
    <3>1. tpc' = "sample" /\ \A k \in 1..Len(ss) : k < i
      BY <1>4, <2>1, <2>2, <2>4 DEF LoopTest, TypeOK
    <3>2. QED
      BY <2>1, <2>2, <3>1 DEF PcFacts, TriedActive, Tried, Done, SweepOver, InWindow,
                              ActivatePcs, DeactivatePcs
  <2>5. QED
    BY <2>3, <2>4
<1>5. ASSUME NEW from \in ActivatePcs \cup DeactivatePcs, NEW value, NEW yes, NEW no,
             Branch(from, Read(value), yes, no)
      PROVE  /\ tpc = from /\ tpc' = (IF value THEN yes ELSE no)
             /\ Same /\ PcFacts /\ TriedActive /\ i \in 1..Len(ss)
  <2>1. Running /\ Static /\ Same /\ tpc = from
    BY <1>5 DEF Branch, list_vars, Running, Static, ActivatePcs, DeactivatePcs
  <2>2. PcFacts /\ TriedActive /\ i \in 1..Len(ss)
    BY <1>0, <2>1 DEF PcFacts
  <2>3. Read(value) = {value}
    BY <2>1, <2>2, StaticRead
  <2>4. QED
    BY <1>5, <2>1, <2>2, <2>3 DEF Branch
<1>6. CASE TestInactive
  <2>1. /\ tpc = "a_active" /\ tpc' = (IF i \notin ss_active THEN "a_start" ELSE "d_active")
        /\ Same /\ PcFacts /\ TriedActive /\ i \in 1..Len(ss)
    BY <1>5, <1>6 DEF TestInactive, ActivatePcs
  <2>2. QED
    BY <2>1 DEF PcFacts, TriedActive, Tried, Done, SweepOver, InWindow, ActivatePcs, DeactivatePcs
<1>7. CASE TestStarted
  <2>1. /\ tpc = "a_start" /\ tpc' = (IF ss[i].start <= curr THEN "a_stop" ELSE "d_active")
        /\ Same /\ PcFacts /\ TriedActive /\ i \in 1..Len(ss)
    BY <1>5, <1>7 DEF TestStarted, ActivatePcs
  <2>2. QED
    BY <2>1 DEF PcFacts, TriedActive, Tried, Done, SweepOver, InWindow, ActivatePcs, DeactivatePcs
<1>8. CASE TestNotOver
  <2>1. /\ tpc = "a_stop" /\ tpc' = (IF ss[i].stop >= curr THEN "a_lock" ELSE "d_active")
        /\ Same /\ PcFacts /\ TriedActive /\ i \in 1..Len(ss)
    BY <1>5, <1>8 DEF TestNotOver, ActivatePcs
  <2>2. ss[i].stop >= curr <=> curr <= ss[i].stop
    BY <2>1, EntryTypes
  <2>3. QED
    BY <2>1, <2>2 DEF PcFacts, TriedActive, Tried, Done, SweepOver, InWindow, ActivatePcs,
                      DeactivatePcs
<1>9. CASE TestActive
  <2>1. /\ tpc = "d_active" /\ tpc' = (IF i \in ss_active THEN "d_start" ELSE "sleep")
        /\ Same /\ PcFacts /\ TriedActive /\ i \in 1..Len(ss)
    BY <1>5, <1>9 DEF TestActive, DeactivatePcs
  <2>2. QED
    BY <2>1 DEF PcFacts, TriedActive, Tried, Done, SweepOver, InWindow, ActivatePcs, DeactivatePcs
<1>10. CASE TestNotStarted
  <2>1. /\ tpc = "d_start" /\ tpc' = (IF curr < ss[i].start THEN "d_lock" ELSE "d_stop")
        /\ Same /\ PcFacts /\ TriedActive /\ i \in 1..Len(ss)
    BY <1>5, <1>10 DEF TestNotStarted, DeactivatePcs
  <2>2. curr < ss[i].start => ~InWindow(ss[i], curr)
    BY <2>1, EntryTypes DEF InWindow
  <2>3. QED
    BY <2>1, <2>2 DEF PcFacts, TriedActive, Tried, Done, SweepOver, InWindow, ActivatePcs,
                      DeactivatePcs
<1>11. CASE TestOver
  <2>1. /\ tpc = "d_stop" /\ tpc' = (IF curr > ss[i].stop THEN "d_lock" ELSE "sleep")
        /\ Same /\ PcFacts /\ TriedActive /\ i \in 1..Len(ss)
    BY <1>5, <1>11 DEF TestOver, DeactivatePcs
  <2>2. curr > ss[i].stop => ~InWindow(ss[i], curr)
    BY <2>1, EntryTypes DEF InWindow
  <2>3. QED
    BY <2>1, <2>2 DEF PcFacts, TriedActive, Tried, Done, SweepOver, InWindow, ActivatePcs,
                      DeactivatePcs
<1>12. CASE Activate
  <2>1. PcFacts /\ TriedActive /\ filled = Len(ss) /\ tpc = "a_lock"
    BY <1>0, <1>12 DEF Activate, SetUnderLock, Running, Static
  <2>2. i \in 1..Len(ss) /\ InBlock
    BY <2>1 DEF PcFacts, InBlock, ActivatePcs
  <2>3. UNCHANGED <<ss, curr, i>> /\ tpc' = "d_active" /\ ss_active' = ss_active \cup {i}
    BY <1>12, <2>2 DEF Activate, SetUnderLock
  <2>4. QED
    BY <2>1, <2>2, <2>3 DEF PcFacts, TriedActive, Tried, Done, SweepOver, InWindow, ActivatePcs,
                            DeactivatePcs
<1>13. CASE Deactivate
  <2>1. PcFacts /\ TriedActive /\ filled = Len(ss) /\ tpc = "d_lock"
    BY <1>0, <1>13 DEF Deactivate, SetUnderLock, Running, Static
  <2>2. i \in 1..Len(ss) /\ InBlock /\ ~InWindow(ss[i], curr)
    BY <2>1 DEF PcFacts, InBlock, DeactivatePcs
  <2>3. UNCHANGED <<ss, curr, i>> /\ tpc' = "sleep" /\ ss_active' = ss_active \ {i}
    BY <1>13, <2>2 DEF Deactivate, SetUnderLock
  <2>4. QED
    BY <2>1, <2>2, <2>3 DEF PcFacts, TriedActive, Tried, Done, SweepOver, InWindow, ActivatePcs,
                            DeactivatePcs
<1>14. CASE SleepNext
  <2>1. PcFacts /\ TriedActive /\ tpc = "sleep"
    BY <1>0, <1>14 DEF SleepNext, Running, Static
  <2>2. UNCHANGED <<ss, ss_active, curr>> /\ tpc' = "loop" /\ i' = i + 1 /\ i \in Nat
    BY <1>14 DEF SleepNext, list_vars, TypeOK
  <2>3. QED
    BY <2>1, <2>2 DEF PcFacts, TriedActive, Tried, Done, SweepOver, InWindow, ActivatePcs,
                      DeactivatePcs
<1>15. ASSUME NEW list \in Lists, SetLock(list) PROVE FALSE
  BY <1>15 DEF SetLock, Running, Static, TypeOK
<1>16. CASE SetFill \/ SetUnlock
  BY <1>0, <1>16 DEF SetFill, SetUnlock, Running, Static
<1>17. QED
  BY <1>1, <1>2, <1>3, <1>4, <1>6, <1>7, <1>8, <1>9, <1>10, <1>11, <1>12, <1>13, <1>14,
     <1>15, <1>16 DEF Next, Thread

\* The valve of the entry in a critical section is set; no other one changes.
LEMMA SetStep ==
  ASSUME TypeOK, InBlock, NEW from, NEW state \in {VALVE_OPEN, VALVE_CLOSED}, NEW flags,
         NEW next, SetUnderLock(from, state, flags, next)
  PROVE  /\ i \in 1..Len(ss) /\ ss' = ss /\ curr' = curr /\ refreshes' = refreshes
         /\ ss_active' = flags
         /\ \A v \in Valves : v_state'[v] = IF On(v, i) THEN state ELSE v_state[v]
BY SetValveType DEF SetUnderLock, InBlock, TypeOK, On

\* In the static regime the thread's critical sections stay inside the list.
LEMMA StaticInBlock ==
  ASSUME IInv, Static, tpc \in {"a_lock", "d_lock"}
  PROVE  InBlock /\ i \in 1..Len(ss)
BY DEF IInv, OffInv, ListInv, ReadInv, PcFacts, Running, InBlock, ActivatePcs, DeactivatePcs

LEMMA OpenStep == IInv /\ [Next]_vars => OpenMeansActive'
<1> SUFFICES ASSUME IInv, [Next]_vars, Static' PROVE OpenMeansActive'
  BY DEF OpenMeansActive
<1> USE DEF IInv, Open, On
<1>1. CASE QuietStep
  BY <1>1 DEF QuietStep, list_vars, OpenMeansActive, Static
<1>2. CASE Activate
  <2>1. tpc = "a_lock" /\ Static
    BY <1>2 DEF Activate, SetUnderLock, Static
  <2>2. /\ ss' = ss /\ ss_active' = ss_active \cup {i}
        /\ \A v \in Valves : v_state'[v] = IF On(v, i) THEN VALVE_OPEN ELSE v_state[v]
    BY <1>2, <2>1, StaticInBlock, SetStep DEF Activate
  <2>3. QED
    BY <2>1, <2>2 DEF OpenMeansActive
<1>3. CASE Deactivate
  <2>1. tpc = "d_lock" /\ Static
    BY <1>3 DEF Deactivate, SetUnderLock, Static
  <2>2. /\ ss' = ss /\ ss_active' = ss_active \ {i}
        /\ \A v \in Valves : v_state'[v] = IF On(v, i) THEN VALVE_CLOSED ELSE v_state[v]
    BY <1>3, <2>1, StaticInBlock, SetStep DEF Deactivate
  <2>3. QED
    BY <2>1, <2>2 DEF OpenMeansActive, VALVE_OPEN, VALVE_CLOSED
<1>4. ASSUME NEW list \in Lists, SetLock(list) PROVE OpenMeansActive'
  <2>1. ~Running /\ v_state' = v_state
    BY <1>4 DEF SetLock, Static, Running, TypeOK
  <2>2. QED
    BY <2>1 DEF OffInv, OpenMeansActive
<1>5. CASE SetFill \/ SetUnlock
  BY <1>5 DEF SetFill, SetUnlock, OpenMeansActive, Static
<1>6. QED
  BY <1>1, <1>2, <1>3, <1>4, <1>5, StepKinds

\* Two different entries of one valve never are active together: the sample
\* that activates one is too close to the other's window for that other to be
\* still active.
LEMMA NoRival ==
  ASSUME IInv, Static, Separated(ss), tpc = "a_lock",
         NEW j \in ss_active, ss[j].valve_id = ss[i].valve_id
  PROVE  j = i
<1> SUFFICES ASSUME j # i PROVE FALSE
  OBVIOUS
<1>1. i \in 1..Len(ss) /\ j \in 1..Len(ss)
  BY StaticInBlock DEF IInv, TypeOK
<1>2. InWindow(ss[i], curr)
  BY DEF IInv, ReadInv, PcFacts, Running
<1>3. Within(ss[j], curr, MaxDrift)
  BY DEF IInv, FlagInv, Running
<1>4. PICK p \in Minutes, d \in 0..MaxDrift : InWindow(ss[j], p) /\ curr = AfterMin(p, d)
  BY <1>3 DEF Within
<1>5. ~InWindow(ss[i], AfterMin(p, d))
  BY <1>1, <1>4 DEF Separated
<1>6. QED
  BY <1>2, <1>4, <1>5

LEMMA ValveStep == IInv /\ [Next]_vars => ValveInv'
<1> SUFFICES ASSUME IInv, [Next]_vars, Static', Separated(ss)' PROVE ValveInv'
  BY DEF ValveInv
<1> USE DEF Open
<1>0. ASSUME ss' = ss PROVE Separated(ss)
  BY <1>0 DEF Separated, InWindow
<1>1. CASE QuietStep
  BY <1>0, <1>1 DEF IInv, QuietStep, list_vars, ValveInv, Static
<1>2. CASE Activate
  <2>1. tpc = "a_lock" /\ Static
    BY <1>2 DEF Activate, SetUnderLock, Static
  <2>2. /\ ss' = ss /\ ss_active' = ss_active \cup {i}
        /\ \A v \in Valves : v_state'[v] = IF On(v, i) THEN VALVE_OPEN ELSE v_state[v]
    BY <1>2, <2>1, StaticInBlock, SetStep DEF Activate, IInv
  <2>3. \A j \in ss_active : ss[j].valve_id = ss[i].valve_id => j = i
    BY <1>0, <2>1, <2>2, NoRival
  <2>4. QED
    BY <1>0, <2>1, <2>2, <2>3 DEF IInv, ValveInv, On
<1>3. CASE Deactivate
  <2>1. tpc = "d_lock" /\ Static
    BY <1>3 DEF Deactivate, SetUnderLock, Static
  <2>2. /\ ss' = ss /\ ss_active' = ss_active \ {i}
        /\ \A v \in Valves : v_state'[v] = IF On(v, i) THEN VALVE_CLOSED ELSE v_state[v]
    BY <1>3, <2>1, StaticInBlock, SetStep DEF Deactivate, IInv
  <2>3. i \in ss_active
    BY <2>1 DEF IInv, ReadInv, PcFacts, Running
  <2>4. QED
    BY <1>0, <2>1, <2>2, <2>3 DEF IInv, ValveInv, On
<1>4. ASSUME NEW list \in Lists, SetLock(list) PROVE ValveInv'
  BY <1>4 DEF SetLock, ValveInv
<1>5. CASE SetFill \/ SetUnlock
  BY <1>5 DEF IInv, ListInv, SetFill, SetUnlock, ValveInv
<1>6. QED
  BY <1>1, <1>2, <1>3, <1>4, <1>5, StepKinds

LEMMA InvStep == IInv /\ [Next]_vars => IInv'
<1>1. IInv /\ [Next]_vars => TypeOK'
  BY TypeStep DEF IInv
<1>2. QED
  BY <1>1, ListStep, OffStep, ClockStep, FlagStep, ReadStep, OpenStep, ValveStep DEF IInv

\* The inductive invariant holds in every reachable state.
THEOREM Invariance == Spec => []IInv
BY InvInit, InvStep, PTL DEF Spec

----------------------------------------------------------------------------
(* What follows from it.                                                   *)

\* Every variable keeps its type (struct schedule_status, the loop index, ...).
THEOREM TypeCorrect == Spec => []TypeOK
<1>1. IInv => TypeOK
  BY DEF IInv
<1>2. QED
  BY <1>1, Invariance, PTL

\* Without replacements an open valve always belongs to an active schedule,
\* whatever lists the server sends.
THEOREM OpenIsActive == Spec => []OpenMeansActive
<1>1. IInv => OpenMeansActive
  BY DEF IInv
<1>2. QED
  BY <1>1, Invariance, PTL

\* Whatever replacements do, no entry stays active past the thread's visit
\* outside its window.
THEOREM PassedIsInWindow == Spec => []PassedActiveInWindow
<1>1. IInv => PassedActiveInWindow
  BY DEF IInv, FlagInv
<1>2. QED
  BY <1>1, Invariance, PTL

LEMMA WithinSum ==
  ASSUME NEW s, NEW m, NEW d \in 0..MaxDrift, Within(s, m, MaxDrift)
  PROVE  Within(s, AfterMin(m, d), 2 * MaxDrift)
<1>1. PICK p \in Minutes, e \in 0..MaxDrift : InWindow(s, p) /\ m = AfterMin(p, e)
  BY DEF Within
<1>2. AfterMin(m, d) = AfterMin(p, e + d) /\ e + d \in 0..2 * MaxDrift
  BY <1>1, AfterMinSum
<1>3. QED
  BY <1>1, <1>2 DEF Within

\* Without replacements no valve is open more than two sweeps outside the
\* windows of its schedules.
THEOREM NoOverwateringTheorem == Spec => []NoOverwatering
<1>1. ASSUME IInv PROVE NoOverwatering
  <2> SUFFICES ASSUME Static, NEW v \in Valves, Open(v)
               PROVE  \E k \in 1..Len(ss) : On(v, k) /\ Within(ss[k], mins, 2 * MaxDrift)
    BY DEF NoOverwatering
  <2>1. PICK k \in ss_active : On(v, k)
    BY <1>1 DEF IInv, OpenMeansActive
  <2>2. Running /\ k \in 1..Len(ss)
    BY <1>1 DEF IInv, OffInv, TypeOK
  <2>3. Within(ss[k], curr, MaxDrift)
    BY <1>1, <2>2 DEF IInv, FlagInv
  <2>4. mins = AfterMin(curr, drift) /\ drift \in 0..MaxDrift
    BY <1>1, <2>1 DEF IInv, ClockInv, TypeOK
  <2>5. QED
    BY <2>1, <2>2, <2>3, <2>4, WithinSum
<1>2. QED
  BY <1>1, Invariance, PTL

\* Without replacements and with separated schedules every sweep leaves the
\* valves exactly as the schedules ask.
THEOREM SweepCorrect == Spec => []SweepServesSchedules
<1>1. ASSUME IInv PROVE SweepServesSchedules
  <2> SUFFICES ASSUME Static, SweepOver, Separated(ss), NEW v \in Valves
               PROVE  Open(v) <=> \E k \in 1..Len(ss) : On(v, k) /\ InWindow(ss[k], curr)
    BY DEF SweepServesSchedules
  <2>1. ASSUME Open(v)
        PROVE  \E k \in 1..Len(ss) : On(v, k) /\ InWindow(ss[k], curr)
    <3>1. PICK k \in ss_active : On(v, k)
      BY <1>1, <2>1 DEF IInv, OpenMeansActive
    <3>2. InWindow(ss[k], curr) /\ k \in 1..Len(ss)
      BY <1>1 DEF IInv, FlagInv, PassedActiveInWindow, SweepOver, TypeOK
    <3>3. QED
      BY <3>1, <3>2
  <2>2. ASSUME NEW k \in 1..Len(ss), On(v, k), InWindow(ss[k], curr)
        PROVE  Open(v)
    <3>1. k \in ss_active
      BY <1>1, <2>2 DEF IInv, ReadInv, TriedActive, Tried, Running, SweepOver
    <3>2. QED
      BY <1>1, <2>2, <3>1 DEF IInv, ValveInv, On
  <2>3. QED
    BY <2>1, <2>2
<1>2. QED
  BY <1>1, Invariance, PTL

\* A valve loses its active schedule only when the list is replaced under it,
\* or through an index past a list that has shrunk.
THEOREM OrphansCauseTheorem == Spec => OrphanedOnlyByRefresh
<1> DEFINE Cause(v) == (~Orphan(v) /\ Orphan(v)') =>
                         (mtx # mtx' \/ (tpc = "a_lock" /\ ~InBlock))
<1>1. ASSUME TypeOK, [Next]_vars, NEW v \in Valves PROVE Cause(v)
  <2> USE DEF Orphan, Open, On
  <2>1. CASE QuietStep
    BY <2>1 DEF QuietStep, list_vars
  <2>2. CASE Activate
    <3>1. CASE InBlock
      <4>1. /\ ss' = ss /\ ss_active' = ss_active \cup {i}
            /\ v_state'[v] = IF On(v, i) THEN VALVE_OPEN ELSE v_state[v]
        BY <1>1, <2>2, <3>1, SetStep DEF Activate
      <4>2. QED
        BY <4>1
    <3>2. CASE ~InBlock
      BY <2>2, <3>2 DEF Activate, SetUnderLock
    <3>3. QED
      BY <3>1, <3>2
  <2>3. CASE Deactivate
    <3>1. CASE InBlock
      <4>1. /\ ss' = ss /\ ss_active' = ss_active \ {i}
            /\ v_state'[v] = IF On(v, i) THEN VALVE_CLOSED ELSE v_state[v]
        BY <1>1, <2>3, <3>1, SetStep DEF Deactivate
      <4>2. QED
        BY <4>1 DEF VALVE_OPEN, VALVE_CLOSED
    <3>2. CASE ~InBlock
      <4>1. PICK id \in ValveIds : vm_set_valve_state(id, VALVE_CLOSED)
        BY <2>3, <3>2 DEF Deactivate, SetUnderLock
      <4>2. v_state'[v] = v_state[v] \/ v_state'[v] = VALVE_CLOSED
        BY <1>1, <4>1, SetValveType DEF TypeOK
      <4>3. ss' = ss /\ ss_active' = ss_active
        BY <2>3, <3>2 DEF Deactivate, SetUnderLock
      <4>4. QED
        BY <4>2, <4>3 DEF VALVE_OPEN, VALVE_CLOSED
    <3>3. QED
      BY <3>1, <3>2
  <2>4. ASSUME NEW list \in Lists, SetLock(list) PROVE Cause(v)
    BY <2>4 DEF SetLock
  <2>5. CASE SetFill \/ SetUnlock
    BY <2>5 DEF SetFill, SetUnlock
  <2>6. QED
    BY <1>1, <2>1, <2>2, <2>3, <2>4, <2>5, StepKinds
<1>2. TypeOK /\ [Next]_vars => [\A v \in Valves : Cause(v)]_vars
  BY <1>1
<1>3. QED
  BY <1>2, TypeCorrect, PTL DEF Spec, OrphanedOnlyByRefresh
=============================================================================

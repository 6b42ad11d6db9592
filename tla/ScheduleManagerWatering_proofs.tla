------------------- MODULE ScheduleManagerWatering_proofs -------------------
(***************************************************************************)
(* Proof that ScheduleManager implements Watering: for every list, length  *)
(* of the day and number of replacements, each step of the two threads is  *)
(* a step of Watering or changes nothing that Watering speaks of.          *)
(***************************************************************************)
EXTENDS ScheduleManagerWatering, ScheduleManager_proofs

\* The history variable restricts nothing.
LEMMA HistoryStep == [HNext]_hvars => [Next]_vars
BY DEF HNext, hvars

\* What a fresh entry's test reads is what is there.
LEMMA FreshRead ==
  ASSUME IInv, StaleInv, ~stale, tpc \in ActivatePcs \cup DeactivatePcs, NEW value
  PROVE  Read(value) = {value}
<1>1. mtx = "free" /\ torn = FALSE /\ i \in 1..Len(ss)
  BY DEF StaleInv, FreshFacts, IInv, TypeOK
<1>2. QED
  BY <1>1 DEF Read, InBlock, IInv, ListInv

LEMMA FreshBranch ==
  ASSUME IInv, StaleInv, ~stale, NEW from \in ActivatePcs \cup DeactivatePcs, NEW value,
         NEW yes, NEW no, Branch(from, Read(value), yes, no)
  PROVE  /\ tpc = from /\ tpc' = (IF value THEN yes ELSE no)
         /\ UNCHANGED <<ss, ss_active, curr, i, mtx>> /\ ~torn' /\ i \in 1..Len(ss)
         /\ mtx = "free" /\ FreshFacts
<1>1. tpc = from
  BY DEF Branch
<1>2. Read(value) = {value}
  BY <1>1, FreshRead
<1>3. QED
  BY <1>1, <1>2 DEF Branch, list_vars, StaleInv, FreshFacts

\* An active entry is near its window when the thread starts to test it.
LEMMA ActiveNear ==
  ASSUME IInv, i \in ss_active, tpc \in ActivatePcs
  PROVE  Within(ss[i], curr, MaxDrift)
<1>1. Running /\ tpc \notin DeactivatePcs
  BY DEF Running, ActivatePcs, DeactivatePcs
<1>2. QED
  BY <1>1 DEF IInv, FlagInv

LEMMA FreshStep == IInv /\ StaleInv /\ [HNext]_hvars => (~stale => FreshFacts)'
<1> SUFFICES ASSUME IInv, StaleInv, [HNext]_hvars, ~stale' PROVE FreshFacts'
  OBVIOUS
<1>0. [Next]_vars
  BY HistoryStep
<1> USE DEF FreshFacts, InWindow
<1>1. CASE UNCHANGED hvars
  BY <1>1 DEF hvars, vars, StaleInv, Within
<1>2. CASE HNext /\ Tick
  BY <1>2 DEF HNext, Tick, list_vars, StaleInv, Within
<1>3. CASE HNext /\ (sm_start_scheduler \/ Sample \/ SleepNext)
  BY <1>3 DEF HNext, sm_start_scheduler, Sample, SleepNext, ActivatePcs, DeactivatePcs
<1>4. CASE HNext /\ LoopTest
  <2>1. CASE mtx = "free"
    <3>1. ss_len = Len(ss) /\ i \in Nat \ {0} /\ ~torn' /\ mtx' = "free" /\ ss' = ss /\ i' = i
      BY <1>4, <2>1 DEF LoopTest, list_vars, IInv, ListInv, TypeOK
    <3>2. tpc' = "sample" \/ (tpc' = "a_active" /\ i \in 1..Len(ss))
      BY <1>4, <3>1 DEF LoopTest, IInv, TypeOK
    <3>3. QED
      BY <3>1, <3>2 DEF ActivatePcs, DeactivatePcs
  <2>2. CASE mtx # "free"
    <3>1. ~stale /\ mtx = "main" /\ Running
      BY <1>4, <2>2 DEF HNext, LoopTest, IInv, TypeOK, Running
    <3>2. ss_len = 0 /\ ~(i <= 0)
      BY <3>1 DEF StaleInv, IInv, TypeOK
    <3>3. tpc' = "sample"
      BY <1>4, <3>2 DEF LoopTest
    <3>4. QED
      BY <3>3 DEF ActivatePcs, DeactivatePcs
  <2>3. QED
    BY <2>1, <2>2
<1>5. ASSUME HNext, TestInactive \/ TestStarted \/ TestNotOver \/ TestActive \/ TestNotStarted
                      \/ TestOver \/ Activate \/ Deactivate
      PROVE  ~stale /\ stale' = stale
  BY <1>5 DEF HNext, TestInactive, TestStarted, TestNotOver, TestActive, TestNotStarted,
              TestOver, Branch, Activate, Deactivate, SetUnderLock, StaleInv
<1>6. CASE HNext /\ TestInactive
  <2>1. /\ tpc = "a_active" /\ tpc' = (IF i \notin ss_active THEN "a_start" ELSE "d_active")
        /\ UNCHANGED <<ss, ss_active, curr, i, mtx>> /\ ~torn' /\ i \in 1..Len(ss) /\ mtx = "free"
    BY <1>5, <1>6, FreshBranch DEF TestInactive, ActivatePcs
  <2>2. i \in ss_active => Within(ss[i], curr, MaxDrift)
    BY <2>1, ActiveNear DEF ActivatePcs
  <2>3. QED
    BY <2>1, <2>2 DEF ActivatePcs, DeactivatePcs, Within
<1>7. CASE HNext /\ TestStarted
  <2>1. /\ tpc = "a_start" /\ tpc' = (IF ss[i].start <= curr THEN "a_stop" ELSE "d_active")
        /\ UNCHANGED <<ss, ss_active, curr, i, mtx>> /\ ~torn' /\ i \in 1..Len(ss) /\ mtx = "free"
        /\ FreshFacts
    BY <1>5, <1>7, FreshBranch DEF TestStarted, ActivatePcs
  <2>2. QED
    BY <2>1 DEF ActivatePcs, DeactivatePcs
<1>8. CASE HNext /\ TestNotOver
  <2>1. /\ tpc = "a_stop" /\ tpc' = (IF ss[i].stop >= curr THEN "a_lock" ELSE "d_active")
        /\ UNCHANGED <<ss, ss_active, curr, i, mtx>> /\ ~torn' /\ i \in 1..Len(ss) /\ mtx = "free"
        /\ FreshFacts
    BY <1>5, <1>8, FreshBranch DEF TestNotOver, ActivatePcs
  <2>2. ss[i].stop >= curr <=> curr <= ss[i].stop
    BY <2>1, EntryTypes DEF IInv
  <2>3. QED
    BY <2>1, <2>2 DEF ActivatePcs, DeactivatePcs
<1>9. CASE HNext /\ TestActive
  <2>1. /\ tpc = "d_active" /\ tpc' = (IF i \in ss_active THEN "d_start" ELSE "sleep")
        /\ UNCHANGED <<ss, ss_active, curr, i, mtx>> /\ ~torn' /\ i \in 1..Len(ss) /\ mtx = "free"
        /\ FreshFacts
    BY <1>5, <1>9, FreshBranch DEF TestActive, DeactivatePcs
  <2>2. QED
    BY <2>1 DEF ActivatePcs, DeactivatePcs, Within
<1>10. CASE HNext /\ TestNotStarted
  <2>1. /\ tpc = "d_start" /\ tpc' = (IF curr < ss[i].start THEN "d_lock" ELSE "d_stop")
        /\ UNCHANGED <<ss, ss_active, curr, i, mtx>> /\ ~torn' /\ i \in 1..Len(ss) /\ mtx = "free"
        /\ FreshFacts
    BY <1>5, <1>10, FreshBranch DEF TestNotStarted, DeactivatePcs
  <2>2. curr < ss[i].start => ~InWindow(ss[i], curr)
    BY <2>1, EntryTypes DEF InWindow, IInv
  <2>3. QED
    BY <2>1, <2>2 DEF ActivatePcs, DeactivatePcs, Within
<1>11. CASE HNext /\ TestOver
  <2>1. /\ tpc = "d_stop" /\ tpc' = (IF curr > ss[i].stop THEN "d_lock" ELSE "sleep")
        /\ UNCHANGED <<ss, ss_active, curr, i, mtx>> /\ ~torn' /\ i \in 1..Len(ss) /\ mtx = "free"
        /\ FreshFacts
    BY <1>5, <1>11, FreshBranch DEF TestOver, DeactivatePcs
  <2>2. curr > ss[i].stop => ~InWindow(ss[i], curr)
    BY <2>1, EntryTypes DEF InWindow, IInv
  <2>3. QED
    BY <2>1, <2>2 DEF ActivatePcs, DeactivatePcs, Within
<1>12. CASE HNext /\ Activate
  <2>1. /\ tpc = "a_lock" /\ tpc' = "d_active" /\ ~torn' /\ mtx = "free" /\ mtx' = "free"
        /\ UNCHANGED <<ss, curr, i>>
    BY <1>12 DEF Activate, SetUnderLock
  <2>2. FreshFacts
    BY <1>5, <1>12 DEF StaleInv
  <2>3. i \in 1..Len(ss) /\ InWindow(ss[i], curr) /\ curr \in Minutes /\ MaxDrift \in Nat
    BY <2>1, <2>2, ClockAssumption DEF ActivatePcs, IInv, TypeOK
  <2>4. Within(ss[i], curr, MaxDrift)
    BY <2>3, WithinHere
  <2>5. QED
    BY <2>1, <2>3, <2>4 DEF ActivatePcs, DeactivatePcs, Within
<1>13. CASE HNext /\ Deactivate
  <2>1. /\ tpc = "d_lock" /\ tpc' = "sleep" /\ ~torn' /\ mtx = "free" /\ mtx' = "free"
        /\ UNCHANGED <<ss, curr, i>>
    BY <1>13 DEF Deactivate, SetUnderLock
  <2>2. FreshFacts
    BY <1>5, <1>13 DEF StaleInv
  <2>3. QED
    BY <2>1, <2>2 DEF ActivatePcs, DeactivatePcs
<1>14. ASSUME HNext, NEW list \in Lists, SetLock(list) PROVE FreshFacts'
  <2>1. tpc' = tpc /\ (tpc = "off" \/ ss = << >>)
    BY <1>14 DEF SetLock, HNext
  <2>2. ASSUME ss = << >>, tpc \in ActivatePcs \cup DeactivatePcs \cup {"sleep"} PROVE FALSE
    <3>1. i \in 1..0
      BY <2>2 DEF StaleInv
    <3>2. QED
      BY <3>1
  <2>3. QED
    BY <2>1, <2>2 DEF ActivatePcs, DeactivatePcs
<1>15. CASE HNext /\ (SetFill \/ SetUnlock)
  <2>1. mtx = "main" /\ ~stale /\ UNCHANGED <<ss, ss_active, curr, i, tpc, torn>>
    BY <1>15 DEF HNext, SetFill, SetUnlock, StaleInv
  <2>2. tpc \notin ActivatePcs \cup DeactivatePcs \cup {"sleep"}
    BY <2>1 DEF StaleInv
  <2>3. QED
    BY <2>1, <2>2 DEF ActivatePcs, DeactivatePcs
<1>16. QED
  BY <1>1, <1>2, <1>3, <1>4, <1>6, <1>7, <1>8, <1>9, <1>10, <1>11, <1>12, <1>13, <1>14, <1>15
  DEF HNext, Next, Thread

LEMMA StaleStep == IInv /\ StaleInv /\ [HNext]_hvars => StaleInv'
<1> SUFFICES ASSUME IInv, StaleInv, [HNext]_hvars PROVE StaleInv'
  OBVIOUS
<1>1. (~stale => FreshFacts)'
  BY FreshStep
<1>2. stale' \in BOOLEAN
  BY DEF StaleInv, HNext, hvars
<1>3. (stale => Running /\ ss # << >>)'
  <2> SUFFICES ASSUME stale' PROVE Running' /\ ss' # << >>
    OBVIOUS
  <2>1. CASE QuietStep \/ Activate \/ Deactivate \/ SetFill \/ SetUnlock
    <3>1. ss' = ss /\ (Running => Running') /\ ~(mtx = "free" /\ mtx' = "main")
      BY <2>1 DEF QuietStep, Activate, Deactivate, SetUnderLock, SetFill, SetUnlock, Running,
                  list_vars
    <3>2. stale
      BY <3>1 DEF HNext, hvars, StaleInv
    <3>3. QED
      BY <3>1, <3>2 DEF StaleInv
  <2>2. ASSUME NEW list \in Lists, SetLock(list) PROVE Running' /\ ss' # << >>
    <3>1. ss' = list /\ list # << >> /\ tpc' = tpc /\ mtx = "free" /\ mtx' = "main"
      BY <2>2, ListsAssumption DEF SetLock
    <3>2. tpc # "off"
      BY <3>1 DEF HNext, hvars, vars
    <3>3. QED
      BY <3>1, <3>2 DEF Running
  <2>3. QED
    BY <2>1, <2>2, StepKinds, HistoryStep
<1>4. (Running /\ mtx = "main" /\ ss_len # 0 => stale)'
  <2> SUFFICES ASSUME Running', mtx' = "main", ss_len' # 0 PROVE stale'
    OBVIOUS
  <2>1. CASE QuietStep \/ Activate \/ Deactivate \/ SetFill \/ SetUnlock
    <3>1. mtx = "main" /\ ss_len' = ss_len
      BY <2>1 DEF QuietStep, Activate, Deactivate, SetUnderLock, SetFill, SetUnlock, list_vars
    <3>2. Running
      BY <2>1, <3>1 DEF QuietStep, Activate, Deactivate, SetUnderLock, SetFill, SetUnlock,
                        Running
    <3>3. stale
      BY <3>1, <3>2 DEF StaleInv
    <3>4. QED
      BY <3>1, <3>3 DEF HNext, hvars
  <2>2. ASSUME NEW list \in Lists, SetLock(list) PROVE stale'
    <3>1. mtx = "free" /\ mtx' = "main" /\ ss_len' = ss_len /\ tpc' = tpc
      BY <2>2 DEF SetLock
    <3>2. ss # << >>
      BY <3>1 DEF IInv, ListInv
    <3>3. QED
      BY <3>1, <3>2 DEF HNext, hvars, vars, Running
  <2>3. QED
    BY <2>1, <2>2, StepKinds, HistoryStep
<1>5. QED
  BY <1>1, <1>2, <1>3, <1>4 DEF StaleInv

THEOREM StaleInvariance == HSpec => [](IInv /\ StaleInv)
<1>1. HInit => IInv /\ StaleInv
  <2>1. HInit => IInv
    BY InvInit DEF HInit
  <2>2. HInit => StaleInv
    BY DEF HInit, Init, StaleInv, FreshFacts, ActivatePcs, DeactivatePcs, Running
  <2>3. QED
    BY <2>1, <2>2
<1>2. IInv /\ StaleInv /\ [HNext]_hvars => (IInv /\ StaleInv)'
  BY HistoryStep, InvStep, StaleStep
<1>3. QED
  BY <1>1, <1>2, PTL DEF HSpec

----------------------------------------------------------------------------
(* The refinement mapping.                                                 *)

LEMMA WantedWithin ==
  ASSUME NEW s, NEW d
  PROVE  Abstract!WantedLately(s, d) <=> Within(s, mins, d)
BY DEF Abstract!WantedLately, Within, Abstract!Minutes, Minutes, Abstract!Later, AfterMin,
       Abstract!Wants, InWindow

\* Every active entry is served in time, in the sense of Watering.
LEMMA ServedOnTime ==
  ASSUME IInv, StaleInv
  PROVE  Abstract!OnTime
<1> DEFINE x == IF i \in DOMAIN ss THEN i ELSE 0
<1>1. x \in {0} \cup DOMAIN ss
  OBVIOUS
<1>2. ASSUME NEW k \in ss_active
      PROVE  Abstract!WantedLately(ss[k], 2 * MaxDrift) \/ ("close" \in Strays /\ k = x)
  <2>1. Running /\ mtx = "free" /\ k \in DOMAIN ss
    BY DEF IInv, OffInv, ListInv, TypeOK
  <2>2. CASE Within(ss[k], curr, MaxDrift)
    <3>1. mins = AfterMin(curr, drift) /\ drift \in 0..MaxDrift
      BY DEF IInv, ClockInv, TypeOK
    <3>2. Within(ss[k], mins, 2 * MaxDrift)
      BY <2>2, <3>1, WithinSum
    <3>3. QED
      BY <3>2, WantedWithin
  <2>3. CASE ~Within(ss[k], curr, MaxDrift)
    <3>1. k = i /\ tpc \in DeactivatePcs
      BY <2>1, <2>3 DEF IInv, FlagInv
    <3>2. stale
      BY <2>3, <3>1 DEF StaleInv, FreshFacts
    <3>3. QED
      BY <2>1, <3>1, <3>2 DEF Strays, StrayPending
  <2>4. QED
    BY <2>2, <2>3
<1>3. QED
  BY <1>1, <1>2 DEF Abstract!OnTime

LEMMA StrayMembers ==
  /\ Strays \subseteq {"open", "close"}
  /\ "open" \in Strays <=> StrayPending(ActivatePcs)
  /\ "close" \in Strays <=> StrayPending(ActivatePcs \cup DeactivatePcs)
BY DEF Strays

\* While the mutex does not change hands the thread can only lose strays.
LEMMA StraysShrink ==
  ASSUME stale \in BOOLEAN, mtx' = mtx,
         \/ tpc' = tpc /\ stale' = stale
         \/ tpc \in ActivatePcs /\ tpc' \in ActivatePcs \cup DeactivatePcs /\ stale' = stale
         \/ tpc \in DeactivatePcs /\ tpc' \in DeactivatePcs \cup {"sleep"} /\ stale' = stale
         \/ tpc' \notin ActivatePcs \cup DeactivatePcs /\ stale' = stale
         \/ tpc = "loop" /\ stale' = (stale /\ mtx = "main")
  PROVE  Strays' \in SUBSET Strays
<1>1. StrayPending(ActivatePcs)' => StrayPending(ActivatePcs)
  BY DEF StrayPending, ActivatePcs, DeactivatePcs
<1>2. StrayPending(ActivatePcs \cup DeactivatePcs)' => StrayPending(ActivatePcs \cup DeactivatePcs)
  BY DEF StrayPending, ActivatePcs, DeactivatePcs
<1>3. QED
  BY <1>1, <1>2, StrayMembers DEF Strays

\* Steps that leave the clock, the list, the flags and the valves alone.
LEMMA TestSteps ==
  ASSUME IInv, StaleInv, HNext, QuietStep, mins' = mins
  PROVE  Abstract!NoStray
<1>1. UNCHANGED <<ss, ss_active, v_state, mtx>> /\ stale \in BOOLEAN
  BY DEF QuietStep, list_vars, StaleInv
<1>2. OpenValves' = OpenValves
  BY <1>1 DEF OpenValves
<1>3. Strays' \in SUBSET Strays
  <2>1. CASE tpc' = tpc
    BY <1>1, <2>1, StraysShrink DEF HNext
  <2>2. CASE sm_start_scheduler \/ Sample \/ SleepNext
    BY <1>1, <2>2, StraysShrink DEF HNext, sm_start_scheduler, Sample, SleepNext, ActivatePcs,
                                    DeactivatePcs
  <2>3. CASE LoopTest
    BY <1>1, <2>3, StraysShrink DEF HNext, LoopTest
  <2>4. CASE TestInactive \/ TestStarted \/ TestNotOver
    BY <1>1, <2>4, StraysShrink DEF HNext, TestInactive, TestStarted, TestNotOver, Branch,
                                    ActivatePcs, DeactivatePcs
  <2>5. CASE TestActive \/ TestNotStarted \/ TestOver
    BY <1>1, <2>5, StraysShrink DEF HNext, TestActive, TestNotStarted, TestOver, Branch,
                                    ActivatePcs, DeactivatePcs
  <2>6. CASE Tick \/ SetFill \/ SetUnlock \/ (\E list \in Lists : SetLock(list))
    BY <2>1, <2>6 DEF Tick, SetFill, SetUnlock, SetLock
  <2>7. CASE Activate \/ Deactivate
    BY <1>1, <2>7, StraysShrink DEF HNext, Activate, Deactivate, SetUnderLock, ActivatePcs,
                                    DeactivatePcs
  <2>8. QED
    BY <2>1, <2>2, <2>3, <2>4, <2>5, <2>6, <2>7 DEF HNext, Next, Thread
<1>4. QED
  BY <1>1, <1>2, <1>3 DEF Abstract!NoStray

\* The valve table as a set.
LEMMA OpenSet ==
  ASSUME TypeOK, NEW id, NEW state \in {VALVE_OPEN, VALVE_CLOSED}, vm_set_valve_state(id, state)
  PROVE  OpenValves' = IF state = VALVE_OPEN THEN OpenValves \cup ({id} \cap Valves)
                                             ELSE OpenValves \ {id}
<1>1. \A v \in Valves : v_state'[v] = IF v = id THEN state ELSE v_state[v]
  BY SetValveType DEF TypeOK
<1>2. QED
  BY <1>1 DEF OpenValves, VALVE_OPEN, VALVE_CLOSED

LEMMA ActivateStep ==
  ASSUME IInv, StaleInv, HNext, Activate
  PROVE  Abstract!StrayOpen \/ (\E k \in DOMAIN ss : Abstract!Serve(k))
<1>1. /\ tpc = "a_lock" /\ tpc' = "d_active" /\ mtx = "free" /\ mtx' = "free" /\ stale' = stale
      /\ UNCHANGED <<mins, ss, i>> /\ TypeOK /\ stale \in BOOLEAN
  BY DEF HNext, Activate, SetUnderLock, IInv, StaleInv
<1>2. CASE stale
  <2>1. "open" \in Strays /\ Strays' = {"close"}
    BY <1>1, <1>2, StrayMembers DEF Strays, StrayPending, ActivatePcs, DeactivatePcs
  <2>2. CASE InBlock
    <3>1. i \in DOMAIN ss /\ ss_active' = ss_active \cup {i}
      BY <1>1, <2>2 DEF Activate, SetUnderLock, InBlock, TypeOK
    <3>2. OpenValves' = OpenValves \cup ({ss[i].valve_id} \cap Valves)
      BY <1>1, <2>2, OpenSet DEF Activate, SetUnderLock
    <3>3. QED
      BY <1>1, <2>1, <3>1, <3>2 DEF Abstract!StrayOpen
  <2>3. CASE ~InBlock
    <3>1. PICK id \in ValveIds : vm_set_valve_state(id, VALVE_OPEN)
      BY <2>3 DEF Activate, SetUnderLock
    <3>2. ss_active' = ss_active /\ OpenValves' = OpenValves \cup ({id} \cap Valves)
      BY <1>1, <2>3, <3>1, OpenSet DEF Activate, SetUnderLock
    <3>3. QED
      BY <1>1, <2>1, <3>2 DEF Abstract!StrayOpen
  <2>4. QED
    BY <2>2, <2>3
<1>3. CASE ~stale
  <2>1. Strays' = {} /\ Strays = {}
    BY <1>1, <1>3 DEF Strays, StrayPending
  <2>2. /\ i \in 1..Len(ss) /\ i \notin ss_active /\ InWindow(ss[i], curr) /\ InBlock
    BY <1>1, <1>3 DEF StaleInv, FreshFacts, ActivatePcs, IInv, ListInv, InBlock
  <2>3. Abstract!WantedLately(ss[i], MaxDrift)
    <3>1. mins = AfterMin(curr, drift) /\ drift \in 0..MaxDrift /\ curr \in Minutes
      BY <1>1 DEF IInv, ClockInv, TypeOK
    <3>2. Within(ss[i], mins, MaxDrift)
      BY <2>2, <3>1 DEF Within
    <3>3. QED
      BY <3>2, WantedWithin
  <2>4. ss_active' = ss_active \cup {i} /\ OpenValves' = OpenValves \cup ({ss[i].valve_id} \cap Valves)
    BY <1>1, <2>2, OpenSet DEF Activate, SetUnderLock
  <2>5. Abstract!Serve(i)
    BY <1>1, <2>1, <2>2, <2>3, <2>4 DEF Abstract!Serve
  <2>6. QED
    BY <2>2, <2>5
<1>4. QED
  BY <1>1, <1>2, <1>3

LEMMA DeactivateStep ==
  ASSUME IInv, StaleInv, HNext, Deactivate
  PROVE  Abstract!StrayClose \/ (\E k \in DOMAIN ss : Abstract!Release(k))
<1>1. /\ tpc = "d_lock" /\ tpc' = "sleep" /\ mtx = "free" /\ mtx' = "free" /\ stale' = stale
      /\ UNCHANGED <<mins, ss, i>> /\ TypeOK /\ stale \in BOOLEAN
  BY DEF HNext, Deactivate, SetUnderLock, IInv, StaleInv
<1>2. CASE stale
  <2>1. "close" \in Strays /\ Strays' = {}
    BY <1>1, <1>2, StrayMembers DEF Strays, StrayPending, ActivatePcs, DeactivatePcs
  <2>2. CASE InBlock
    <3>1. i \in DOMAIN ss /\ ss_active' = ss_active \ {i}
      BY <1>1, <2>2 DEF Deactivate, SetUnderLock, InBlock, TypeOK
    <3>2. OpenValves' = OpenValves \ {ss[i].valve_id}
      BY <1>1, <2>2, OpenSet DEF Deactivate, SetUnderLock, VALVE_OPEN, VALVE_CLOSED
    <3>3. QED
      BY <1>1, <2>1, <3>1, <3>2 DEF Abstract!StrayClose
  <2>3. CASE ~InBlock
    <3>1. PICK id \in ValveIds : vm_set_valve_state(id, VALVE_CLOSED)
      BY <2>3 DEF Deactivate, SetUnderLock
    <3>2. ss_active' = ss_active /\ OpenValves' = OpenValves \ {id}
      BY <1>1, <2>3, <3>1, OpenSet DEF Deactivate, SetUnderLock, VALVE_OPEN, VALVE_CLOSED
    <3>3. QED
      BY <1>1, <2>1, <3>2 DEF Abstract!StrayClose
  <2>4. QED
    BY <2>2, <2>3
<1>3. CASE ~stale
  <2>1. Strays' = {} /\ Strays = {}
    BY <1>1, <1>3 DEF Strays, StrayPending
  <2>2. /\ i \in 1..Len(ss) /\ i \in ss_active /\ ~InWindow(ss[i], curr) /\ InBlock
    BY <1>1, <1>3 DEF StaleInv, FreshFacts, DeactivatePcs, IInv, ListInv, InBlock
  <2>3. Abstract!UnwantedLately(ss[i])
    <3>1. mins = AfterMin(curr, drift) /\ drift \in 0..MaxDrift /\ curr \in Minutes
      BY <1>1 DEF IInv, ClockInv, TypeOK
    <3>2. QED
      BY <2>2, <3>1 DEF Abstract!UnwantedLately, Abstract!Minutes, Minutes, Abstract!Later,
                        AfterMin, Abstract!Wants, InWindow
  <2>4. ss_active' = ss_active \ {i} /\ OpenValves' = OpenValves \ {ss[i].valve_id}
    BY <1>1, <2>2, OpenSet DEF Deactivate, SetUnderLock, VALVE_OPEN, VALVE_CLOSED
  <2>5. Abstract!Release(i)
    BY <1>1, <2>1, <2>2, <2>3, <2>4 DEF Abstract!Release
  <2>6. QED
    BY <2>2, <2>5
<1>4. QED
  BY <1>1, <1>2, <1>3

LEMMA SetterStep ==
  ASSUME IInv, StaleInv, HNext
  PROVE  /\ \A list \in Lists : SetLock(list) => Abstract!Replace(list)
         /\ SetFill \/ SetUnlock => Abstract!NoStray
<1>1. ASSUME NEW list \in Lists, SetLock(list) PROVE Abstract!Replace(list)
  <2>1. /\ ss' = list /\ ss_active' = {} /\ UNCHANGED <<mins, v_state>>
        /\ mtx' = "main" /\ stale' = (tpc # "off" /\ ss # << >>) /\ (tpc = "off" => ss = << >>)
    BY <1>1 DEF SetLock, HNext
  <2>2. OpenValves' = OpenValves
    BY <2>1 DEF OpenValves
  <2>3. Strays' = IF ss = << >> THEN {} ELSE {"open", "close"}
    BY <2>1 DEF Strays, StrayPending
  <2>4. QED
    BY <2>1, <2>2, <2>3 DEF Abstract!Replace
<1>2. ASSUME SetFill \/ SetUnlock PROVE Abstract!NoStray
  <2>1. UNCHANGED <<mins, ss, ss_active, v_state, tpc>> /\ mtx = "main" /\ stale' = stale
    BY <1>2 DEF SetFill, SetUnlock, HNext
  <2>2. OpenValves' = OpenValves
    BY <2>1 DEF OpenValves
  <2>3. Strays' \in SUBSET Strays
    BY <2>1, StrayMembers DEF Strays, StrayPending
  <2>4. QED
    BY <2>1, <2>2, <2>3 DEF Abstract!NoStray
<1>3. QED
  BY <1>1, <1>2

LEMMA TickStep ==
  ASSUME HNext, Tick
  PROVE  Abstract!Tick
<1>1. UNCHANGED <<ss, ss_active, v_state, mtx, tpc, stale>> /\ mins' = AfterMin(mins, 1)
  BY DEF Tick, HNext, list_vars
<1>2. OpenValves' = OpenValves /\ Strays' = Strays
  BY <1>1 DEF OpenValves, Strays, StrayPending
<1>3. QED
  BY <1>1, <1>2 DEF Abstract!Tick, Abstract!Later, AfterMin

LEMMA ImplementsStep ==
  ASSUME IInv, StaleInv, IInv', StaleInv', [HNext]_hvars
  PROVE  [Abstract!Next]_(Abstract!vars)
<1>1. CASE UNCHANGED hvars
  BY <1>1 DEF hvars, vars, Abstract!vars, OpenValves, Strays, StrayPending
<1>2. CASE HNext
  <2>1. Abstract!OnTime'
    BY ServedOnTime, PTL
  <2>2. CASE Activate
    BY <1>2, <2>1, <2>2, ActivateStep DEF Abstract!Next
  <2>3. CASE Deactivate
    BY <1>2, <2>1, <2>3, DeactivateStep DEF Abstract!Next
  <2>4. CASE SetFill \/ SetUnlock \/ (\E list \in Lists : SetLock(list))
    BY <1>2, <2>1, <2>4, SetterStep DEF Abstract!Next
  <2>5. CASE Tick
    BY <1>2, <2>1, <2>5, TickStep DEF Abstract!Next
  <2>6. ASSUME sm_start_scheduler \/ (Thread /\ ~Activate /\ ~Deactivate)
        PROVE  Abstract!NoStray
    <3>1. mins' = mins
      BY <2>6 DEF sm_start_scheduler, Thread, Sample, LoopTest, SleepNext, TestInactive,
                  TestStarted, TestNotOver, TestActive, TestNotStarted, TestOver, Branch
    <3>2. QuietStep
      <4>1. sm_start_scheduler \/ Sample \/ LoopTest \/ SleepNext => QuietStep
        BY DEF sm_start_scheduler, Sample, LoopTest, SleepNext, QuietStep, Running, list_vars
      <4>2. TestInactive \/ TestStarted \/ TestNotOver => QuietStep
        BY BranchQuiet DEF TestInactive, TestStarted, TestNotOver
      <4>3. TestActive \/ TestNotStarted \/ TestOver => QuietStep
        BY BranchQuiet DEF TestActive, TestNotStarted, TestOver
      <4>4. QED
        BY <2>6, <4>1, <4>2, <4>3 DEF Thread
    <3>3. QED
      BY <1>2, <3>1, <3>2, TestSteps
  <2>7. QED
    BY <1>2, <2>1, <2>2, <2>3, <2>4, <2>5, <2>6 DEF HNext, Next, Abstract!Next
<1>3. QED
  BY <1>1, <1>2

\* The two threads implement Watering, with every replacement of the list at
\* any point of the thread's unlocked reads.
THEOREM Implementation == HSpec => ImplementsWatering
<1>1. HInit => Abstract!Init
  BY DEF HInit, Init, Abstract!Init, OpenValves, Strays, StrayPending, Abstract!Minutes,
         Minutes, VALVE_OPEN, VALVE_CLOSED
<1>2. QED
  BY <1>1, StaleInvariance, ImplementsStep, PTL DEF HSpec, ImplementsWatering, Abstract!Spec
=============================================================================

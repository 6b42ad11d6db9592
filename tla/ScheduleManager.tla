-------------------------- MODULE ScheduleManager --------------------------
(***************************************************************************)
(* The irrigation device's scheduler: client/daemon/src/schedule_manager   *)
(* with the valve table of client/daemon/src/valve_manager.                *)
(*                                                                         *)
(* Two threads share the schedule list.  The scheduler thread samples the  *)
(* minute of the day, then sweeps the list, opening and closing valves.    *)
(* It reads the list WITHOUT the mutex and takes the mutex only to set a   *)
(* valve and its flag.  The main thread replaces the list under the mutex. *)
(* Every unlocked read is a step of its own here; a critical section of    *)
(* the scheduler thread is one step, because everything the main thread    *)
(* does to the shared data it does holding the same mutex.                 *)
(***************************************************************************)
EXTENDS Integers, Sequences

CONSTANTS
  Valves,      \* the valves of this device, as given to vm_init_set_valves
  ValveIds,    \* the valve ids a schedule may name; some may be unknown
  DayMins,     \* minutes in a day (1440 in the code)
  MaxDrift,    \* bound: minutes that can pass between two clock samples
  Lists,       \* the schedule lists the server may send
  MaxRefresh   \* bound: calls of sm_set_new_schedules after the start

\* struct schedule: minutes run from 0 to 1440 inclusive, as the web accepts
Schedules == [valve_id : ValveIds, start : 0..DayMins, stop : 0..DayMins]

ASSUME ValvesAssumption == Valves \subseteq ValveIds

\* A sweep sleeps 100 ms for each of at most 65535 entries: 110 minutes.
ASSUME ClockAssumption ==
  /\ DayMins \in Nat
  /\ MaxDrift \in Nat
  /\ 2 * MaxDrift < DayMins

\* cc_set_active_schedules never passes an empty list on.
ASSUME ListsAssumption == Lists \subseteq Seq(Schedules) \ {<< >>}

ASSUME RefreshAssumption == MaxRefresh \in Nat

VARIABLES
  mins,       \* the wall clock, as a minute of the day
  drift,      \* minutes passed since the last sample, at most MaxDrift
  curr,       \* curr_mins, the thread's last sample
  ss,         \* the schedules of the block _ss points to
  filled,     \* the entries 1..filled of that block are initialised
  ss_active,  \* the entries whose is_active flag is set
  ss_len,     \* _ss_len
  mtx,        \* _schedules_mtx: "free", or "main" when the main thread has it
  v_state,    \* the valve table
  tpc,        \* where the scheduler thread is
  i,          \* its loop index, counted from 1
  torn,       \* the block was replaced since the thread's previous step
  refreshes   \* calls of sm_set_new_schedules since the thread was started

list_vars == <<ss, filled, ss_active, ss_len>>
vars == <<mins, drift, curr, ss, filled, ss_active, ss_len, mtx, v_state,
          tpc, i, torn, refreshes>>

ActivatePcs == {"a_active", "a_start", "a_stop", "a_lock"}
DeactivatePcs == {"d_active", "d_start", "d_stop", "d_lock"}
ThreadPcs == {"off", "sample", "loop", "sleep"} \cup ActivatePcs \cup DeactivatePcs

VALVE_OPEN == "OPEN"
VALVE_CLOSED == "CLOSED"

Minutes == 0..DayMins - 1

\* The minute of the day d minutes after minute m.
AfterMin(m, d) == IF m + d < DayMins THEN m + d ELSE m + d - DayMins

InWindow(s, m) == s.start <= m /\ m <= s.stop

----------------------------------------------------------------------------
(* The valve table: an id that is not in it is reported and ignored.       *)

vm_set_valve_state(id, state) ==
  v_state' = IF id \in Valves THEN [v_state EXCEPT ![id] = state] ELSE v_state

----------------------------------------------------------------------------
(* The scheduler thread.                                                   *)

Init ==
  /\ mins \in Minutes
  /\ drift = 0
  /\ curr = 0
  /\ ss = << >> /\ filled = 0 /\ ss_active = {} /\ ss_len = 0
  /\ mtx = "free"
  /\ v_state = [v \in Valves |-> VALVE_CLOSED]
  /\ tpc = "off"
  /\ i = 1
  /\ torn = FALSE
  /\ refreshes = 0

\* Time passes while the thread sleeps, waits or is descheduled.
Tick ==
  /\ tpc # "off"
  /\ drift < MaxDrift
  /\ drift' = drift + 1
  /\ mins' = AfterMin(mins, 1)
  /\ UNCHANGED <<curr, list_vars, mtx, v_state, tpc, i, torn, refreshes>>

sm_start_scheduler ==
  /\ tpc = "off"
  /\ mtx = "free"
  /\ tpc' = "sample"
  /\ UNCHANGED <<mins, drift, curr, list_vars, mtx, v_state, i, torn, refreshes>>

Sample ==
  /\ tpc = "sample"
  /\ curr' = mins
  /\ drift' = 0
  /\ i' = 1
  /\ tpc' = "loop"
  /\ torn' = FALSE
  /\ UNCHANGED <<mins, list_vars, mtx, v_state, refreshes>>

\* Mutant: the clock is sampled once, before the endless loop.
LoopTestNoSample ==
  /\ tpc = "loop"
  /\ tpc' = IF i <= ss_len THEN "a_active" ELSE "loop"
  /\ i' = IF i <= ss_len THEN i ELSE 1
  /\ torn' = FALSE
  /\ UNCHANGED <<mins, drift, curr, list_vars, mtx, v_state, refreshes>>

LoopTest ==
  /\ tpc = "loop"
  /\ tpc' = IF i <= ss_len THEN "a_active" ELSE "sample"
  /\ torn' = FALSE
  /\ UNCHANGED <<mins, drift, curr, list_vars, mtx, v_state, i, refreshes>>

InBlock == i <= filled

\* The results an unlocked read of the i-th entry may give.  It is undefined
\* when the entry is past the initialised part of the block, or when the block
\* was freed between the load of the pointer _ss and the load of the field.
Read(value) == IF torn \/ ~InBlock THEN BOOLEAN ELSE {value}

Branch(from, results, yes, no) ==
  /\ tpc = from
  /\ \E b \in results : tpc' = IF b THEN yes ELSE no
  /\ torn' = FALSE
  /\ UNCHANGED <<mins, drift, curr, list_vars, mtx, v_state, i, refreshes>>

\* Mutant: start < curr_mins.
TestStartedStrict == Branch("a_start", Read(ss[i].start < curr), "a_stop", "d_active")

\* if(!is_active && start <= curr_mins && stop >= curr_mins)
TestInactive == Branch("a_active", Read(i \notin ss_active), "a_start", "d_active")
TestStarted == Branch("a_start", Read(ss[i].start <= curr), "a_stop", "d_active")
TestNotOver == Branch("a_stop", Read(ss[i].stop >= curr), "a_lock", "d_active")

\* The critical section of either branch: set the valve, then the flag.  An
\* index past the block names whatever id the memory there holds.
SetUnderLock(from, state, flags, next) ==
  /\ tpc = from
  /\ mtx = "free"
  /\ \/ /\ InBlock
        /\ vm_set_valve_state(ss[i].valve_id, state)
        /\ ss_active' = flags
     \/ /\ ~InBlock
        /\ \E id \in ValveIds : vm_set_valve_state(id, state)
        /\ UNCHANGED ss_active
  /\ tpc' = next
  /\ torn' = FALSE
  /\ UNCHANGED <<mins, drift, curr, ss, filled, ss_len, mtx, i, refreshes>>

\* Mutant: is_active is not set.
ActivateNoFlag == SetUnderLock("a_lock", VALVE_OPEN, ss_active, "d_active")

Activate == SetUnderLock("a_lock", VALVE_OPEN, ss_active \cup {i}, "d_active")

\* Mutant: curr_mins == stop + 1.
TestOverEqual == Branch("d_stop", Read(curr = ss[i].stop + 1), "d_lock", "sleep")

\* if(is_active && (curr_mins < start || curr_mins > stop))
TestActive == Branch("d_active", Read(i \in ss_active), "d_start", "sleep")
TestNotStarted == Branch("d_start", Read(curr < ss[i].start), "d_lock", "d_stop")
TestOver == Branch("d_stop", Read(curr > ss[i].stop), "d_lock", "sleep")

\* Mutant: the valve is opened instead of closed.
DeactivateOpens == SetUnderLock("d_lock", VALVE_OPEN, ss_active \ {i}, "sleep")

Deactivate == SetUnderLock("d_lock", VALVE_CLOSED, ss_active \ {i}, "sleep")

\* usleep, then i++
SleepNext ==
  /\ tpc = "sleep"
  /\ i' = i + 1
  /\ tpc' = "loop"
  /\ torn' = FALSE
  /\ UNCHANGED <<mins, drift, curr, list_vars, mtx, v_state, refreshes>>

Thread ==
  \/ Sample \/ LoopTest
  \/ TestInactive \/ TestStarted \/ TestNotOver \/ Activate
  \/ TestActive \/ TestNotStarted \/ TestOver \/ Deactivate
  \/ SleepNext

----------------------------------------------------------------------------
(* The main thread: sm_set_new_schedules, at most once before the start    *)
(* (cc_set_active_schedules) and then as often as MaxRefresh allows.       *)

\* Mutant: the flags are not reset.
SetLockKeepsFlags(list) ==
  /\ mtx = "free"
  /\ \/ tpc = "off" /\ ss = << >> /\ UNCHANGED refreshes
     \/ tpc # "off" /\ refreshes < MaxRefresh /\ refreshes' = refreshes + 1
  /\ mtx' = "main"
  /\ ss' = list
  /\ filled' = 0
  /\ ss_active' = ss_active \cap 1..Len(list)
  /\ torn' = (tpc # "off")
  /\ UNCHANGED <<mins, drift, curr, ss_len, v_state, tpc, i>>

\* lock; free(_ss); _ss = malloc(...)
SetLock(list) ==
  /\ mtx = "free"
  /\ \/ tpc = "off" /\ ss = << >> /\ UNCHANGED refreshes
     \/ tpc # "off" /\ refreshes < MaxRefresh /\ refreshes' = refreshes + 1
  /\ mtx' = "main"
  /\ ss' = list
  /\ filled' = 0
  /\ ss_active' = {}
  /\ torn' = (tpc # "off")
  /\ UNCHANGED <<mins, drift, curr, ss_len, v_state, tpc, i>>

\* _ss[i].sche = sches[i]; _ss[i].is_active = false
SetFill ==
  /\ mtx = "main"
  /\ filled < Len(ss)
  /\ filled' = filled + 1
  /\ UNCHANGED <<mins, drift, curr, ss, ss_active, ss_len, mtx, v_state, tpc, i,
                 torn, refreshes>>

\* Mutant: _ss_len keeps its old value.
SetUnlockOldLen ==
  /\ mtx = "main"
  /\ filled = Len(ss)
  /\ mtx' = "free"
  /\ UNCHANGED <<mins, drift, curr, ss, filled, ss_active, ss_len, v_state, tpc, i,
                 torn, refreshes>>

\* _ss_len = schedules_len; unlock
SetUnlock ==
  /\ mtx = "main"
  /\ filled = Len(ss)
  /\ ss_len' = Len(ss)
  /\ mtx' = "free"
  /\ UNCHANGED <<mins, drift, curr, ss, filled, ss_active, v_state, tpc, i,
                 torn, refreshes>>

Next ==
  \/ Tick
  \/ sm_start_scheduler
  \/ Thread
  \/ \E list \in Lists : SetLock(list)
  \/ SetFill \/ SetUnlock

Spec == Init /\ [][Next]_vars

\* The threads are scheduled fairly and the clock goes on; nobody has to call
\* sm_set_new_schedules, but a call that holds the mutex completes.
Fairness == WF_vars(Tick) /\ WF_vars(Thread) /\ WF_vars(SetFill \/ SetUnlock)

FairSpec == Spec /\ Fairness

----------------------------------------------------------------------------
(* Properties.                                                             *)

TypeOK ==
  /\ mins \in Minutes /\ drift \in 0..MaxDrift /\ curr \in Minutes
  /\ ss \in Seq(Schedules) /\ filled \in 0..Len(ss)
  /\ ss_active \subseteq 1..Len(ss) /\ ss_len \in Nat
  /\ mtx \in {"free", "main"}
  /\ v_state \in [Valves -> {VALVE_OPEN, VALVE_CLOSED}]
  /\ tpc \in ThreadPcs /\ i \in Nat \ {0} /\ torn \in BOOLEAN
  /\ refreshes \in 0..MaxRefresh

Open(v) == v_state[v] = VALVE_OPEN
On(v, k) == ss[k].valve_id = v
Static == refreshes = 0
Running == tpc # "off"

\* The thread is past entry k in its current sweep, or has ended the sweep.
Done(k) == k < i \/ (k = i /\ tpc = "sleep")
SweepOver == tpc = "sample" /\ i > Len(ss)

\* Minute m is at most d minutes after a minute of the schedule's window.
Within(s, m, d) ==
  \E p \in Minutes : \E e \in 0..d : InWindow(s, p) /\ m = AfterMin(p, e)

\* No two schedules of one valve overlap or follow one another so closely
\* that two consecutive samples can fall into the one and then the other.
Separated(list) ==
  \A j, k \in 1..Len(list) :
    (j # k /\ list[j].valve_id = list[k].valve_id) =>
      \A p \in Minutes : \A d \in 0..MaxDrift :
        InWindow(list[j], p) => ~InWindow(list[k], AfterMin(p, d))

\* While the list is never replaced, whatever lists the server sends: a valve
\* is open only on behalf of a schedule that is marked active.
OpenMeansActive ==
  Static => \A v \in Valves : Open(v) => \E k \in ss_active : On(v, k)

\* While the list is never replaced, no valve is open later than two sweeps
\* after the end of a window of one of its schedules (nor before its start).
NoOverwatering ==
  Static => \A v \in Valves :
    Open(v) => \E k \in 1..Len(ss) : On(v, k) /\ Within(ss[k], mins, 2 * MaxDrift)

\* While the list is never replaced and its schedules are separated, every
\* sweep leaves exactly those valves open that some schedule wants open at
\* the minute the sweep sampled: the contract of the scheduler thread.
SweepServesSchedules ==
  (Static /\ SweepOver /\ Separated(ss)) =>
    \A v \in Valves :
      Open(v) <=> \E k \in 1..Len(ss) : On(v, k) /\ InWindow(ss[k], curr)


\* However replacements of the list interleave with a sweep and whatever the
\* unlocked reads return, an entry the thread has passed is active only inside
\* its window: a stale decision is corrected before the thread moves on.
PassedActiveInWindow ==
  \A k \in ss_active : (Done(k) \/ tpc = "sample") => InWindow(ss[k], curr)

Orphan(v) == Open(v) /\ ~\E k \in ss_active : On(v, k)

\* A valve is left open without an active schedule only by the replacement of
\* the list under it or by an access past the end of a list that has shrunk.
OrphanedOnlyByRefresh ==
  [][\A v \in Valves :
       (~Orphan(v) /\ Orphan(v)') => (mtx # mtx' \/ (tpc = "a_lock" /\ ~InBlock))]_vars

\* Samples are at most MaxDrift minutes apart, so MaxDrift consecutive minutes
\* of a set contain a sample every day.
Sampled(M) == \E p \in Minutes : \A d \in 0..MaxDrift - 1 : AfterMin(p, d) \in M
Wanted(v) == {m \in Minutes : \E k \in 1..Len(ss) : On(v, k) /\ InWindow(ss[k], m)}
Settled == Running /\ mtx = "free" /\ refreshes = MaxRefresh
Serviceable(v) ==
  \E k \in 1..Len(ss) : On(v, k) /\ Sampled({m \in Minutes : InWindow(ss[k], m)})

\* Once the list no longer changes, a valve with a window that a sample must
\* hit is opened again and again.
WindowServed ==
  \A v \in Valves : (Settled /\ Separated(ss) /\ Serviceable(v)) ~> Open(v)

\* Once the list no longer changes, a valve the list names is closed again and
\* again, provided there is a pause between its windows: this includes a valve
\* that a replacement left open.
PauseServed ==
  \A v \in Valves :
    (Settled /\ Serviceable(v) /\ Sampled(Minutes \ Wanted(v))) ~> ~Open(v)

----------------------------------------------------------------------------
(* The inductive invariant behind the safety properties.                   *)

\* A list nobody is replacing is whole; one being replaced has no active entry.
ListInv ==
  /\ mtx = "free" => filled = Len(ss) /\ ss_len = Len(ss)
  /\ (mtx = "main" \/ torn) => ss_active = {}

OffInv ==
  /\ ~Running => /\ ss_active = {} /\ Static /\ ~torn /\ i = 1
                 /\ \A v \in Valves : ~Open(v)
  /\ (Running /\ Static) => mtx = "free" /\ ~torn

ClockInv ==
  (tpc \notin {"off", "sample"} \/ ss_active # {}) => mins = AfterMin(curr, drift)

\* An entry found active at d_start or later is in the state the reads showed.
FlagInv ==
  /\ (tpc = "d_stop" /\ i \in ss_active) => ss[i].start <= curr
  /\ PassedActiveInWindow
  /\ Running => \A k \in ss_active :
       \/ Within(ss[k], curr, MaxDrift)
       \/ ~Static /\ k = i /\ tpc \in DeactivatePcs

\* What the exact reads of an unchanged list tell at each point of the sweep.
PcFacts ==
  /\ tpc \in ActivatePcs \cup DeactivatePcs \cup {"sleep"} => i \in 1..Len(ss)
  /\ tpc \in {"a_stop", "a_lock"} => ss[i].start <= curr
  /\ tpc = "a_lock" => InWindow(ss[i], curr)
  /\ tpc \in {"d_start", "d_stop", "d_lock"} => i \in ss_active
  /\ tpc = "d_lock" => ~InWindow(ss[i], curr)

\* An entry the thread has passed, or tried to activate, is active if the
\* sample lies in its window.
Tried(k) == Done(k) \/ SweepOver \/ (k = i /\ tpc \in DeactivatePcs)
TriedActive == \A k \in 1..Len(ss) : (InWindow(ss[k], curr) /\ Tried(k)) => k \in ss_active

ReadInv == (Running /\ Static) => PcFacts /\ TriedActive

\* Of the active schedules of separated lists no two share a valve, and each
\* has its valve open.
ValveInv ==
  Static /\ Separated(ss) =>
    /\ \A j, k \in ss_active : ss[j].valve_id = ss[k].valve_id => j = k
    /\ \A k \in ss_active : ss[k].valve_id \in Valves => Open(ss[k].valve_id)

IInv ==
  /\ TypeOK /\ ListInv /\ OffInv /\ ClockInv /\ FlagInv /\ ReadInv
  /\ OpenMeansActive /\ ValveInv
=============================================================================

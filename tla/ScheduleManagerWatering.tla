----------------------- MODULE ScheduleManagerWatering -----------------------
(***************************************************************************)
(* ScheduleManager implements Watering.  A history variable tells whether  *)
(* the entry the thread is at was reached before the last replacement of   *)
(* the list was complete; it does not restrict any step.                   *)
(***************************************************************************)
EXTENDS ScheduleManager

VARIABLE stale

hvars == <<vars, stale>>

HInit == Init /\ stale = FALSE

\* Set by a replacement under a running thread of a list that had entries;
\* cleared when the thread tests its index with the new length in place.
HNext ==
  /\ Next
  /\ stale' = IF mtx = "free" /\ mtx' = "main" THEN tpc # "off" /\ ss # << >>
              ELSE IF tpc = "loop" /\ tpc' # "loop" THEN stale /\ mtx = "main"
              ELSE stale

HSpec == HInit /\ [][HNext]_hvars

HFairSpec == HSpec /\ Fairness

\* What the replacement may still upset: anything while it goes on, and then
\* what the thread does with the entry it is at.
OpenValves == {v \in Valves : v_state[v] = VALVE_OPEN}
StrayPending(pcs) == stale /\ (mtx = "main" \/ tpc \in pcs)
Strays ==
  (IF StrayPending(ActivatePcs) THEN {"open"} ELSE {})
    \cup (IF StrayPending(ActivatePcs \cup DeactivatePcs) THEN {"close"} ELSE {})

Abstract == INSTANCE Watering WITH
  Slack <- MaxDrift, now <- mins, plan <- ss, serving <- ss_active,
  open <- OpenValves, strays <- Strays

\* The scheduler thread implements Watering, replacements included: a valve
\* opens only for a schedule that lately wanted it, closes only for one that
\* lately did not, no schedule is served too long, and each replacement of the
\* list causes at most one valve to be opened and one to be closed by mistake,
\* however it interleaves with the thread's unlocked reads.
ImplementsWatering == Abstract!Spec

\* Behind it: an entry that was reached with the list in force is read exactly,
\* so that each point of the thread's program knows what its tests have shown.
FreshFacts ==
  /\ tpc \in ActivatePcs \cup DeactivatePcs \cup {"sleep"} =>
       mtx = "free" /\ ~torn /\ i \in 1..Len(ss)
  /\ tpc \in {"a_start", "a_stop", "a_lock"} => i \notin ss_active
  /\ tpc \in {"a_stop", "a_lock"} => ss[i].start <= curr
  /\ tpc = "a_lock" => InWindow(ss[i], curr)
  /\ tpc \in {"d_start", "d_stop", "d_lock"} => i \in ss_active
  /\ tpc = "d_lock" => ~InWindow(ss[i], curr)
  /\ tpc \in DeactivatePcs /\ i \in ss_active => Within(ss[i], curr, MaxDrift)

StaleInv ==
  /\ stale \in BOOLEAN
  /\ stale => Running /\ ss # << >>
  /\ Running /\ mtx = "main" /\ ss_len # 0 => stale
  /\ ~stale => FreshFacts
=============================================================================

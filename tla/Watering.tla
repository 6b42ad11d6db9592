------------------------------ MODULE Watering ------------------------------
(***************************************************************************)
(* What the device promises: which valves may be open, given the clock and *)
(* the list of schedules, and what a replacement of the list may upset.    *)
(* There are no threads, locks or sweeps here.  A schedule that is being   *)
(* served keeps its valve open until it is released or until its valve is  *)
(* closed for another one.  ScheduleManager is shown to implement this.    *)
(***************************************************************************)
EXTENDS Integers, Sequences

CONSTANTS
  Valves,      \* the valves of the device
  ValveIds,    \* the valve ids a schedule may name
  DayMins,     \* minutes in a day
  Slack,       \* how old, in minutes, the clock reading behind a decision may be
  Lists        \* the schedule lists the device may be given

VARIABLES
  now,         \* the minute of the day
  plan,        \* the list in force
  serving,     \* the entries of it being served
  open,        \* the open valves
  strays       \* the mistakes the last replacement may still cause

vars == <<now, plan, serving, open, strays>>

Minutes == 0..DayMins - 1
Later(m, d) == IF m + d < DayMins THEN m + d ELSE m + d - DayMins
Wants(s, m) == s.start <= m /\ m <= s.stop

\* The schedule wanted its valve open, or closed, at some minute up to d ago.
WantedLately(s, d) == \E p \in Minutes : \E e \in 0..d : Wants(s, p) /\ now = Later(p, e)
UnwantedLately(s) == \E p \in Minutes : \E e \in 0..Slack : ~Wants(s, p) /\ now = Later(p, e)

Init ==
  /\ now \in Minutes
  /\ plan = << >> /\ serving = {} /\ open = {}
  /\ strays = {}

\* A new list: nobody knows any more which valves were open for the old one.
\* The first list can upset nothing.
Replace(list) ==
  /\ plan' = list
  /\ serving' = {}
  /\ strays' = IF plan = << >> THEN {} ELSE {"open", "close"}
  /\ UNCHANGED <<now, open>>

Serve(k) ==
  /\ k \notin serving
  /\ WantedLately(plan[k], Slack)
  /\ serving' = serving \cup {k}
  /\ open' = open \cup ({plan[k].valve_id} \cap Valves)
  /\ UNCHANGED <<now, plan, strays>>

Release(k) ==
  /\ k \in serving
  /\ UnwantedLately(plan[k])
  /\ serving' = serving \ {k}
  /\ open' = open \ {plan[k].valve_id}
  /\ UNCHANGED <<now, plan, strays>>

\* After a replacement one valve may be opened that nothing wants open: that of
\* an entry of the new list, or any one.
StrayOpen ==
  /\ "open" \in strays /\ strays' = {"close"}
  /\ \/ \E k \in DOMAIN plan :
          /\ serving' = serving \cup {k}
          /\ open' = open \cup ({plan[k].valve_id} \cap Valves)
     \/ \E id \in ValveIds : open' = open \cup ({id} \cap Valves) /\ UNCHANGED serving
  /\ UNCHANGED <<now, plan>>

\* One valve may be closed that is to stay open.
StrayClose ==
  /\ "close" \in strays /\ strays' = {}
  /\ \/ \E k \in DOMAIN plan :
          /\ serving' = serving \ {k}
          /\ open' = open \ {plan[k].valve_id}
     \/ \E id \in ValveIds : open' = open \ {id} /\ UNCHANGED serving
  /\ UNCHANGED <<now, plan>>

\* A mistake that did not happen.
NoStray ==
  /\ strays' \in SUBSET strays
  /\ UNCHANGED <<now, plan, serving, open>>

Tick ==
  /\ now' = Later(now, 1)
  /\ UNCHANGED <<plan, serving, open, strays>>

\* Nothing is served longer than two readings of the clock after it ended,
\* except the entry of a stray opening while that is not put right.
OnTime ==
  \E x \in {0} \cup DOMAIN plan : \A k \in serving :
    WantedLately(plan[k], 2 * Slack) \/ ("close" \in strays /\ k = x)

Next ==
  /\ \/ Tick \/ NoStray \/ StrayOpen \/ StrayClose
     \/ \E list \in Lists : Replace(list)
     \/ \E k \in DOMAIN plan : Serve(k) \/ Release(k)
  /\ OnTime'

Spec == Init /\ [][Next]_vars
=============================================================================

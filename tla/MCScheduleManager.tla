------------------------- MODULE MCScheduleManager -------------------------
(***************************************************************************)
(* Small instances of ScheduleManager: a day of nine minutes, two valves   *)
(* the device has and an id it does not have.                              *)
(***************************************************************************)
EXTENDS ScheduleManagerWatering

CONSTANTS v1, v2, vx

MCValves == {v1, v2}
MCValveIds == {v1, v2, vx}

S(v, from, to) == [valve_id |-> v, start |-> from, stop |-> to]

\* Windows of one valve that overlap, and some that follow one another.
OverlappingLists ==
  { << S(v1, 0, 3), S(v1, 2, 5) >>,
    << S(v1, 2, 3), S(v1, 0, 1), S(v1, 3, 5) >> }

\* Two windows of one valve that are separated, with that of another between
\* them; a window that is never entered and one to the day's end; an unknown
\* valve; one short entry.  To replace one list by another grows it, shrinks
\* it, drops a valve or moves its window.
SchedulerLists ==
  { << S(v1, 0, 1), S(v2, 2, 3), S(v1, 4, 6) >>,
    << S(v1, 5, 2), S(v2, 3, 9) >>,
    << S(vx, 1, 2), S(v1, 3, 6) >>,
    << S(v2, 0, 1) >> } \cup OverlappingLists
=============================================================================

------------------------------- MODULE MCWire -------------------------------
(***************************************************************************)
(* Instances of Wire with bytes of three bits: words of 64 values, so that *)
(* 8 schedules, or 32 valves, are as many bytes as a word can count.       *)
(***************************************************************************)
EXTENDS Wire

Valve(k) == k + 9
Schedule(k) == <<k + 9, 2 * k + 1, 40 + k, 63 - k>>

\* Lengths around every limit, four valves that can be misread for a schedule, and
\* ids beyond a word.
MCValves ==
  { [k \in 1..n |-> Valve(k)] : n \in {0, 4, 31, 32} } \cup { <<10, 70>> }
MCSchedules ==
  { [k \in 1..n |-> Schedule(k)] : n \in {0, 2, 6, 7, 8} } \cup { << <<64, 1, 2, 3>> >> }
=============================================================================

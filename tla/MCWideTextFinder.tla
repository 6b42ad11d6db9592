-------------------------- MODULE MCWideTextFinder --------------------------
(***************************************************************************)
(* Small instances of WideTextFinder: a target with a beginning that comes *)
(* twice, strings longer than a byte counts, and numbers that do not fit.  *)
(***************************************************************************)
EXTENDS WideTextFinder

a == 97
b == 98
Comma == 44
One == 49
Two == 50

CallOf(op, target, post, skip, length) ==
  [op |-> op, target |-> target, post |-> post, skip |-> skip, length |-> length]

Searches ==
  { CallOf("findUntil", <<a, a, b>>, << >>, NO_SKIP_CHAR, 1),
    CallOf("findUntil", <<a, b>>, <<b, b>>, NO_SKIP_CHAR, 1),
    CallOf("findUntil", <<a, b, a, b>>, << >>, NO_SKIP_CHAR, 1),
    CallOf("getString", << >>, <<b, a>>, NO_SKIP_CHAR, 3),
    CallOf("getString", <<a>>, <<b>>, NO_SKIP_CHAR, 2) }

Values == { CallOf("getValue", << >>, << >>, skip, 1) : skip \in {NO_SKIP_CHAR, Comma} }

Floats ==
  { CallOf(op, << >>, << >>, NO_SKIP_CHAR, 1) : op \in {"getFloat", "getFloatDefault"} }

MCScenarios ==
  { [calls |-> Searches, chars |-> {a, b}],
    [calls |-> Values, chars |-> {Two, Minus, Comma}],
    [calls |-> Floats, chars |-> {One, Dot}],
    [calls |-> Searches \cup Values, chars |-> {NUL, a}] }
=============================================================================

---------------------------- MODULE MCBbdSystem ----------------------------
(***************************************************************************)
(* Small instances of BbdSystem.                                           *)
(***************************************************************************)
EXTENDS BbdSystemDelivery, TLC

CONSTANTS d1, d2, v1, v2

\* Each device has one valve.
OneEach == (v1 :> d1) @@ (v2 :> d2)

\* Only the first device has a valve.
OnlyOne == v1 :> d1

\* The first device has both.
BothOfFirst == (v1 :> d1) @@ (v2 :> d1)

\* The ids are alike, and so are the two devices with their valves.
Symmetry ==
  Permutations(Ids) \cup {(d1 :> d2) @@ (d2 :> d1) @@ (v1 :> v2) @@ (v2 :> v1)}
=============================================================================

------------------------ MODULE WideTextFinder_proofs ------------------------
(***************************************************************************)
(* Proofs about the text finder, for every range of the clock, timeout and *)
(* delay of the program.                                                   *)
(***************************************************************************)
EXTENDS WideTextFinder, TLAPS, SequenceTheorems, FiniteSetTheorems, WellFoundedInduction

LEMMA ClockFacts == ClockMod \in Nat /\ ClockMod > 0 /\ MaxLag \in Nat /\ MaxLag > 0
BY FinderAssumption

----------------------------------------------------------------------------
(* The waits.                                                              *)

ClockOK ==
  /\ millis \in 0..ClockMod - 1 /\ startMillis \in 0..ClockMod - 1
  /\ timeout \in 0..ClockMod - 1
  /\ lag \in Nat /\ waited \in 0..ClockMod

\* The end of the wait is before the wrap, and so close to it that read() may
\* test the time before it and after the wrap only.
EndMissed == startMillis + timeout \in ClockMod - MaxLag + 1..ClockMod - 1

\* The last test of a wait that goes on was made before the end.
WaitInv ==
  pc = "read" =>
    /\ lag <= MaxLag
    /\ waited < ClockMod =>
         millis = IF startMillis + waited < ClockMod THEN startMillis + waited
                                                     ELSE startMillis + waited - ClockMod
    /\ (timeout > 0 /\ timeout + MaxLag <= ClockMod /\ ~EndMissed) => waited < timeout + lag

FinderInv == ClockOK /\ WaitInv

LEMMA SmallRemainder ==
  ASSUME NEW c \in Nat \ {0}, NEW x \in 0..c - 1
  PROVE  x % c = x /\ (x + c) % c = x
BY SMT

LEMMA AnyRemainder ==
  ASSUME NEW c \in Nat \ {0}, NEW x \in Nat
  PROVE  x % c \in 0..c - 1
BY SMT

\* A sum of two clock values is at most one turn ahead.
LEMMA SumOfTimes ==
  ASSUME NEW t \in 0..ClockMod - 1, NEW u \in 0..ClockMod - 1
  PROVE  (t + u) % ClockMod = IF t + u < ClockMod THEN t + u ELSE t + u - ClockMod
<1>1. ClockMod \in Nat \ {0}
  BY ClockFacts
<1>2. CASE t + u < ClockMod
  <2>1. t + u \in 0..ClockMod - 1
    BY <1>1, <1>2
  <2>2. QED
    BY <1>1, <1>2, <2>1, SmallRemainder
<1>3. CASE ~(t + u < ClockMod)
  <2> DEFINE x == t + u - ClockMod
  <2>1. x \in 0..ClockMod - 1 /\ t + u = x + ClockMod
    BY <1>1, <1>3
  <2> HIDE DEF x
  <2>2. (x + ClockMod) % ClockMod = x
    BY <1>1, <2>1, SmallRemainder
  <2>3. QED
    BY <1>3, <2>1, <2>2 DEF x
<1>4. QED
  BY <1>2, <1>3

\* What a test of the loop in read() says, on either side of the wrap.
LEMMA ExpiredFacts ==
  ASSUME ClockOK
  PROVE  LET end == IF startMillis + timeout < ClockMod
                    THEN startMillis + timeout ELSE startMillis + timeout - ClockMod
         IN  (Expired => millis >= end) /\ (~Expired => millis < end)
<1> DEFINE end == IF startMillis + timeout < ClockMod
                  THEN startMillis + timeout ELSE startMillis + timeout - ClockMod
<1>1. end \in Int /\ millis \in Int
  BY ClockFacts DEF ClockOK
<1>2. (startMillis + timeout) % ClockMod = end
  BY SumOfTimes DEF ClockOK
<1> HIDE DEF end
<1>3. Expired <=> millis >= end
  BY <1>2 DEF Expired
<1>4. (Expired => millis >= end) /\ (~Expired => millis < end)
  BY <1>1, <1>3
<1>5. QED
  BY <1>4 DEF end

\* Every function goes on with the next read() or returns.
LEMMA ReadOrReturn ==
  ASSUME NEW c, Take(c)
  PROVE  \/ pc' = "read" /\ startMillis' = millis /\ waited' = 0
         \/ pc' = "idle" /\ startMillis' = startMillis /\ waited' = 0
<1>1. ReadOn \/ \E r : Return(r)
  <2>1. CASE Find(c)
    BY <2>1 DEF Find, Found, StartCopy
  <2>2. CASE Copy(c)
    BY <2>2 DEF Copy
  <2>3. CASE Skip(c)
    BY <2>3 DEF Skip
  <2>4. CASE Number(c)
    BY <2>4 DEF Number
  <2>5. QED
    BY <2>1, <2>2, <2>3, <2>4 DEF Take
<1>2. QED
  BY <1>1 DEF ReadOn, Return

LEMMA FreshWait ==
  ASSUME ClockOK, lag' = 0, UNCHANGED <<millis, timeout>>,
         \/ pc' = "read" /\ startMillis' = millis /\ waited' = 0
         \/ pc' = "idle" /\ startMillis' = startMillis /\ waited' = 0
  PROVE  FinderInv'
<1>1. ClockOK'
  BY ClockFacts DEF ClockOK
<1>2. WaitInv'
  BY ClockFacts DEF ClockOK, WaitInv
<1>3. QED
  BY <1>1, <1>2 DEF FinderInv

LEMMA FinderInit == Init => FinderInv
<1> SUFFICES ASSUME Init PROVE FinderInv
  OBVIOUS
<1>1. PICK s \in Seconds : timeout = (s * Millis) % ClockMod
  BY DEF Init
<1>2. s * Millis \in Nat /\ ClockMod \in Nat \ {0}
  BY FinderAssumption
<1>3. timeout \in 0..ClockMod - 1
  BY <1>1, <1>2, AnyRemainder
<1>4. QED
  BY <1>2, <1>3 DEF Init, FinderInv, ClockOK, WaitInv

\* A test that does not end the wait was made before its end.
LEMMA SpinStep == FinderInv /\ Spin => FinderInv'
<1> SUFFICES ASSUME ClockOK, WaitInv, Spin PROVE FinderInv'
  BY DEF FinderInv
<1>1. /\ pc = "read" /\ ~Expired /\ lag' = 0 /\ UNCHANGED <<millis, timeout, startMillis, pc, waited>>
  BY DEF Spin
<1>2. ClockOK'
  BY <1>1 DEF ClockOK
<1>3. millis < IF startMillis + timeout < ClockMod
               THEN startMillis + timeout ELSE startMillis + timeout - ClockMod
  BY <1>1, ExpiredFacts
<1>4. (timeout > 0 /\ timeout + MaxLag <= ClockMod /\ ~EndMissed) => waited < timeout
  <2>1. SUFFICES ASSUME timeout > 0, timeout + MaxLag <= ClockMod, ~EndMissed
                 PROVE  waited < timeout
    OBVIOUS
  <2>2. lag <= MaxLag /\ waited < timeout + lag /\ waited < ClockMod
    BY <1>1, <2>1, ClockFacts DEF WaitInv, ClockOK
  <2>3. millis = IF startMillis + waited < ClockMod THEN startMillis + waited
                                                    ELSE startMillis + waited - ClockMod
    BY <1>1, <2>2 DEF WaitInv
  <2>4. CASE startMillis + timeout < ClockMod
    <3>1. startMillis + timeout <= ClockMod - MaxLag
      BY <2>1, <2>4, ClockFacts DEF EndMissed, ClockOK
    <3>2. startMillis + waited < ClockMod
      BY <2>2, <3>1, ClockFacts DEF ClockOK
    <3>3. QED
      BY <1>3, <2>3, <2>4, <3>2 DEF ClockOK
  <2>5. CASE ~(startMillis + timeout < ClockMod)
    BY <1>3, <2>2, <2>3, <2>5, ClockFacts DEF ClockOK
  <2>6. QED
    BY <2>4, <2>5
<1>5. WaitInv'
  BY <1>1, <1>4, ClockFacts DEF WaitInv, EndMissed, ClockOK
<1>6. QED
  BY <1>2, <1>5 DEF FinderInv

LEMMA TickStep == FinderInv /\ Tick => FinderInv'
<1> SUFFICES ASSUME ClockOK, WaitInv, Tick PROVE FinderInv'
  BY DEF FinderInv
<1>1. /\ UNCHANGED <<timeout, startMillis, pc>> /\ (pc = "read" => lag < MaxLag)
      /\ millis' = (millis + 1) % ClockMod
      /\ lag' = IF pc = "read" THEN lag + 1 ELSE 0
      /\ waited' = IF pc = "read" /\ waited < ClockMod THEN waited + 1 ELSE waited
  BY DEF Tick
<1>2. millis' = IF millis + 1 < ClockMod THEN millis + 1 ELSE 0
  <2>1. CASE ClockMod = 1
    <3>1. millis + 1 = 0 + ClockMod
      BY <2>1 DEF ClockOK
    <3>2. QED
      BY <1>1, <2>1, <3>1, SmallRemainder, ClockFacts
  <2>2. CASE ClockMod # 1
    <3>1. 1 \in 0..ClockMod - 1
      BY <2>2, ClockFacts
    <3>2. QED
      BY <1>1, <3>1, SumOfTimes, ClockFacts DEF ClockOK
  <2>3. QED
    BY <2>1, <2>2
<1>3. ClockOK'
  BY <1>1, <1>2, ClockFacts DEF ClockOK
<1>4. WaitInv'
  <2>1. SUFFICES ASSUME pc = "read"
                 PROVE  /\ lag' <= MaxLag
                        /\ waited' < ClockMod =>
                             millis' = IF startMillis + waited' < ClockMod THEN startMillis + waited'
                                                                  ELSE startMillis + waited' - ClockMod
                        /\ (timeout > 0 /\ timeout + MaxLag <= ClockMod /\ ~EndMissed) =>
                             waited' < timeout + lag'
    BY <1>1 DEF WaitInv, EndMissed
  <2>2. lag' = lag + 1 /\ lag < MaxLag
    BY <1>1, <2>1
  <2>3. waited' <= waited + 1 /\ (waited' < ClockMod => waited' = waited + 1 /\ waited < ClockMod)
    BY <1>1, <2>1, ClockFacts DEF ClockOK
  <2>4. ASSUME waited' < ClockMod
        PROVE  millis' = IF startMillis + waited' < ClockMod THEN startMillis + waited'
                                                     ELSE startMillis + waited' - ClockMod
    BY <1>2, <2>1, <2>3, <2>4, ClockFacts DEF WaitInv, ClockOK
  <2>5. (timeout > 0 /\ timeout + MaxLag <= ClockMod /\ ~EndMissed) => waited' < timeout + lag'
    <3>1. waited' \in Nat /\ waited \in Nat /\ lag \in Nat /\ timeout \in Nat
      BY <1>3, ClockFacts DEF ClockOK
    <3>2. QED
      BY <2>1, <2>2, <2>3, <3>1 DEF WaitInv
  <2>6. QED
    BY <2>2, <2>4, <2>5, ClockFacts DEF ClockOK
<1>5. QED
  BY <1>3, <1>4 DEF FinderInv

LEMMA FinderStep == FinderInv /\ [Next]_vars => FinderInv'
<1> SUFFICES ASSUME FinderInv, [Next]_vars PROVE FinderInv'
  OBVIOUS
<1> USE DEF FinderInv
<1>1. CASE UNCHANGED vars
  BY <1>1 DEF vars, ClockOK, WaitInv, EndMissed
<1>2. CASE Begin
  <2>1. lag' = 0 /\ UNCHANGED <<millis, timeout>> /\ (ReadOn \/ \E r : Return(r))
    BY <1>2 DEF Begin, StartCopy
  <2>2. pc = "idle" /\ (pc' = "read" \/ pc' = "idle")
    BY <1>2, <2>1 DEF Begin, ReadOn, Return
  <2>3. QED
    BY <2>1, FreshWait DEF ReadOn, Return
<1>3. CASE SetTimeout
  <2>1. PICK s \in Seconds : timeout' = (s * Millis) % ClockMod
    BY <1>3 DEF SetTimeout
  <2>2. s * Millis \in Nat /\ ClockMod \in Nat \ {0}
    BY FinderAssumption
  <2>3. timeout' \in 0..ClockMod - 1
    BY <2>1, <2>2, AnyRemainder
  <2>4. QED
    BY <1>3, <2>3 DEF SetTimeout, ClockOK, WaitInv
<1>4. CASE GiveUp
  BY <1>4, FreshWait, ReadOrReturn DEF GiveUp
<1>5. CASE Receive
  BY <1>5, FreshWait, ReadOrReturn DEF Receive
<1>6. CASE Arrive
  BY <1>6 DEF Arrive, ClockOK, WaitInv, EndMissed
<1>7. QED
  BY <1>1, <1>2, <1>3, <1>4, <1>5, <1>6, SpinStep, TickStep DEF Next, Program

\* read() gives up only after its whole timeout, unless the clock wraps meanwhile,
\* and it waits longer than the timeout and one round of its loop only if the
\* end is so close to the wrap that the loop tests the time before and after it:
\* for every range of millis(), timeout, speed of the loop and every function
\* that reads.
THEOREM WaitsTheorem == Spec => WaitsAreReal
<1>1. ASSUME ClockOK, WaitInv, GiveUp
      PROVE  waited >= timeout \/ startMillis + timeout >= ClockMod
  <2>1. pc = "read" /\ Expired
    BY <1>1 DEF GiveUp
  <2>2. SUFFICES ASSUME startMillis + timeout < ClockMod PROVE waited >= timeout
    BY <1>1, ClockFacts DEF ClockOK
  <2>3. millis >= startMillis + timeout
    BY <1>1, <2>1, <2>2, ExpiredFacts
  <2>4. QED
    BY <1>1, <2>1, <2>3, ClockFacts DEF ClockOK, WaitInv
<1>2. ASSUME ClockOK, WaitInv, pc = "read", timeout > 0, waited >= timeout + MaxLag
      PROVE  EndMissed
  BY <1>2, ClockFacts DEF ClockOK, WaitInv
<1>3. FinderInv =>
        /\ GiveUp => waited >= timeout \/ startMillis + timeout >= ClockMod
        /\ (pc = "read" /\ timeout > 0 /\ waited >= timeout + MaxLag)
             => startMillis + timeout \in ClockMod - MaxLag + 1..ClockMod - 1
  BY <1>1, <1>2 DEF FinderInv, EndMissed
<1>4. QED
  BY FinderInit, FinderStep, <1>3, PTL DEF Spec, WaitsAreReal

----------------------------------------------------------------------------
(* Searching, as facts about any two sequences: g is what was read, t what  *)
(* is searched for.                                                         *)

Codes == 0..127

\* From position p on, g has t as far as g goes.
Match(g, t, p) == \A i \in 1..Len(t) : p + i - 1 <= Len(g) => g[p + i - 1] = t[i]
Occurs(g, t, p) == Match(g, t, p) /\ p + Len(t) - 1 <= Len(g)

\* A beginning of t ends right before position p.
Led(g, t, p) == \E j \in 1..Len(t) - 1 : j < p /\ \A i \in 1..j : g[p - j + i - 1] = t[i]

\* g ends with t.
Ends(g, t) == Len(t) <= Len(g) /\ \A i \in 1..Len(t) : g[Len(g) - Len(t) + i] = t[i]

\* An index that findUntil keeps: j characters of t have just been read, and
\* whatever else began is hidden by a beginning of t before it.
Tracked(g, t, j) ==
  /\ j \in 0..Len(t) - 1 /\ j <= Len(g)
  /\ \A i \in 1..j : g[Len(g) - j + i] = t[i]
  /\ \A p \in 1..Len(g) : Match(g, t, p) => Led(g, t, p) \/ j = Len(g) - p + 1

LEMMA TrackedMisses ==
  ASSUME NEW g \in Seq(Codes), NEW t \in Seq(Codes), NEW j, Tracked(g, t, j),
         NEW p \in 1..Len(g), Occurs(g, t, p)
  PROVE  Led(g, t, p)
<1>1. Len(g) \in Nat /\ Len(t) \in Nat
  OBVIOUS
<1>2. j <= Len(t) - 1 /\ j \in Int /\ p + Len(t) - 1 <= Len(g)
  BY <1>1 DEF Tracked, Occurs
<1>3. j # Len(g) - p + 1
  BY <1>1, <1>2
<1>4. QED
  BY <1>3 DEF Tracked, Occurs

LEMMA TrackedBegins ==
  ASSUME NEW t \in Seq(Codes), t # << >>
  PROVE  Tracked(<< >>, t, 0)
<1>1. Len(t) \in Nat /\ Len(t) > 0
  OBVIOUS
<1>2. QED
  BY <1>1 DEF Tracked

LEMMA Appended ==
  ASSUME NEW g \in Seq(Codes), NEW c \in Codes
  PROVE  /\ Append(g, c) \in Seq(Codes) /\ Len(Append(g, c)) = Len(g) + 1 /\ Len(g) \in Nat
         /\ Append(g, c)[Len(g) + 1] = c
         /\ \A k \in 1..Len(g) : Append(g, c)[k] = g[k]
OBVIOUS

\* What the next character does to a match that is not hidden.
LEMMA NextCharacter ==
  ASSUME NEW g \in Seq(Codes), NEW t \in Seq(Codes), NEW j, Tracked(g, t, j), NEW c \in Codes,
         NEW p \in 1..Len(g) + 1, Match(Append(g, c), t, p)
  PROVE  Led(Append(g, c), t, p) \/ (j = Len(g) - p + 1 /\ c = t[j + 1])
<1> DEFINE h == Append(g, c)
<1>1. /\ Len(h) = Len(g) + 1 /\ Len(g) \in Nat /\ Len(t) \in Nat /\ h[Len(g) + 1] = c
      /\ \A k \in 1..Len(g) : h[k] = g[k]
  BY Appended
<1> HIDE DEF h
<1>2. /\ j \in 0..Len(t) - 1 /\ j <= Len(g) /\ \A i \in 1..j : g[Len(g) - j + i] = t[i]
      /\ \A q \in 1..Len(g) : Match(g, t, q) => Led(g, t, q) \/ j = Len(g) - q + 1
  BY DEF Tracked
<1>3. Match(h, t, p)
  BY DEF h
<1>4. Led(g, t, p) => Led(h, t, p)
  <2>1. SUFFICES ASSUME NEW m \in 1..Len(t) - 1, m < p, \A i \in 1..m : g[p - m + i - 1] = t[i]
                 PROVE  \A i \in 1..m : h[p - m + i - 1] = t[i]
    BY DEF Led
  <2>2. \A i \in 1..m : p - m + i - 1 \in 1..Len(g)
    BY <1>1, <2>1
  <2>3. QED
    BY <1>1, <2>1, <2>2
<1>5. CASE p <= Len(g)
  <2>1. p \in 1..Len(g)
    BY <1>1, <1>5
  <2>2. Match(g, t, p)
    <3>1. SUFFICES ASSUME NEW i \in 1..Len(t), p + i - 1 <= Len(g) PROVE g[p + i - 1] = t[i]
      BY DEF Match
    <3>2. p + i - 1 \in 1..Len(g) /\ p + i - 1 <= Len(h)
      BY <1>1, <2>1, <3>1
    <3>3. QED
      BY <1>1, <1>3, <3>2 DEF Match
  <2>3. CASE j = Len(g) - p + 1
    <3>1. j + 1 \in 1..Len(t) /\ p + (j + 1) - 1 = Len(g) + 1
      BY <1>1, <1>2, <2>1, <2>3
    <3>2. h[p + (j + 1) - 1] = t[j + 1]
      <4>1. p + (j + 1) - 1 <= Len(h)
        BY <1>1, <3>1
      <4>2. QED
        BY <1>3, <3>1, <4>1 DEF Match
    <3>3. QED
      BY <1>1, <2>3, <3>1, <3>2
  <2>4. QED
    BY <1>2, <1>4, <2>1, <2>2, <2>3 DEF h
<1>6. CASE p = Len(g) + 1
  <2>1. CASE j = 0
    <3>1. 1 \in 1..Len(t) /\ p + 1 - 1 = Len(g) + 1 /\ j = Len(g) - p + 1
      BY <1>1, <1>2, <1>6, <2>1
    <3>2. h[p + 1 - 1] = t[1]
      BY <1>1, <1>3, <3>1 DEF Match
    <3>3. QED
      BY <1>1, <2>1, <3>1, <3>2
  <2>2. CASE j # 0
    <3>1. j \in 1..Len(t) - 1 /\ j < p
      BY <1>1, <1>2, <1>6, <2>2
    <3>2. \A i \in 1..j : g[p - j + i - 1] = t[i]
      <4>1. \A i \in 1..j : p - j + i - 1 = Len(g) - j + i
        BY <1>1, <1>2, <1>6
      <4>2. QED
        BY <1>2, <4>1
    <3>3. QED
      BY <1>4, <3>1, <3>2 DEF Led, h
  <2>3. QED
    BY <2>1, <2>2
<1>7. QED
  BY <1>1, <1>5, <1>6

\* One character of a search.
LEMMA TrackedStep ==
  ASSUME NEW g \in Seq(Codes), NEW t \in Seq(Codes), NEW j, Tracked(g, t, j), NEW c \in Codes
  PROVE  /\ c # t[j + 1] => Tracked(Append(g, c), t, 0)
         /\ (c = t[j + 1] /\ j + 1 # Len(t)) => Tracked(Append(g, c), t, j + 1)
         /\ (c = t[j + 1] /\ j + 1 = Len(t)) => Ends(Append(g, c), t)
         /\ \A p \in 1..Len(Append(g, c)) : Occurs(Append(g, c), t, p) =>
              Led(Append(g, c), t, p) \/ p + Len(t) - 1 = Len(Append(g, c))
<1> DEFINE h == Append(g, c)
<1>1. /\ Len(h) = Len(g) + 1 /\ Len(g) \in Nat /\ Len(t) \in Nat /\ h[Len(g) + 1] = c
      /\ \A k \in 1..Len(g) : h[k] = g[k]
  BY Appended
<1>2. /\ j \in 0..Len(t) - 1 /\ j <= Len(g) /\ \A i \in 1..j : g[Len(g) - j + i] = t[i]
  BY DEF Tracked
<1>3. \A p \in 1..Len(g) + 1 : Match(h, t, p) =>
        Led(h, t, p) \/ (j = Len(g) - p + 1 /\ c = t[j + 1])
  BY NextCharacter
<1> HIDE DEF h
<1>4. ASSUME c # t[j + 1] PROVE Tracked(h, t, 0)
  BY <1>1, <1>2, <1>3, <1>4 DEF Tracked
<1>5. ASSUME c = t[j + 1] PROVE \A i \in 1..j + 1 : h[Len(h) - (j + 1) + i] = t[i]
  <2>1. SUFFICES ASSUME NEW i \in 1..j + 1 PROVE h[Len(h) - (j + 1) + i] = t[i]
    OBVIOUS
  <2>2. Len(h) - (j + 1) + i = Len(g) - j + i
    BY <1>1, <1>2
  <2>3. CASE i = j + 1
    <3>1. Len(g) - j + i = Len(g) + 1
      BY <1>1, <1>2, <2>3
    <3>2. QED
      BY <1>1, <1>5, <2>2, <2>3, <3>1
  <2>4. CASE i # j + 1
    <3>1. i \in 1..j /\ Len(g) - j + i \in 1..Len(g)
      BY <1>1, <1>2, <2>4
    <3>2. QED
      BY <1>1, <1>2, <2>2, <3>1
  <2>5. QED
    BY <2>3, <2>4
<1>6. ASSUME c = t[j + 1], j + 1 # Len(t) PROVE Tracked(h, t, j + 1)
  <2>1. j + 1 \in 0..Len(t) - 1 /\ j + 1 <= Len(h)
    BY <1>1, <1>2, <1>6
  <2>2. ASSUME NEW p \in 1..Len(h), Match(h, t, p)
        PROVE  Led(h, t, p) \/ j + 1 = Len(h) - p + 1
    <3>1. p \in 1..Len(g) + 1
      BY <1>1
    <3>2. j = Len(g) - p + 1 => j + 1 = Len(h) - p + 1
      BY <1>1, <1>2, <3>1
    <3>3. QED
      BY <1>3, <2>2, <3>1, <3>2
  <2>3. QED
    BY <1>5, <1>6, <2>1, <2>2 DEF Tracked
<1>7. ASSUME c = t[j + 1], j + 1 = Len(t) PROVE Ends(h, t)
  <2>1. Len(t) <= Len(h)
    BY <1>1, <1>2, <1>7
  <2>2. \A i \in 1..Len(t) : h[Len(h) - Len(t) + i] = t[i]
    BY <1>5, <1>7
  <2>3. QED
    BY <2>1, <2>2 DEF Ends
<1>8. ASSUME NEW p \in 1..Len(h), Occurs(h, t, p)
      PROVE  Led(h, t, p) \/ p + Len(t) - 1 = Len(h)
  <2>1. CASE j = Len(g) - p + 1
    <3>1. p + Len(t) - 1 <= Len(h)
      BY <1>8 DEF Occurs
    <3>2. QED
      BY <1>1, <1>2, <2>1, <3>1
  <2>2. p \in 1..Len(g) + 1 /\ Match(h, t, p)
    BY <1>1, <1>8 DEF Occurs
  <2>3. QED
    BY <1>3, <2>1, <2>2
<1>9. QED
  BY <1>4, <1>6, <1>7, <1>8 DEF h

----------------------------------------------------------------------------
(* findUntil.                                                              *)

\* What is received and what is asked for.
TextOK ==
  /\ scenario \in Scenarios /\ line \in Seq(Codes) /\ got \in Seq(Codes) /\ call \in CallTypes

\* A search for something, with strings whose lengths a byte can count.
Searching ==
  /\ call.op = "findUntil" /\ call.target # << >>
  /\ {Len(call.target), Len(call.post)} \subseteq 0..ByteMod - 1

SearchInv ==
  (pc = "read" /\ Searching) =>
    /\ phase = "find"
    /\ Tracked(got, call.target, index)
    /\ call.post # << >> => Tracked(got, call.post, termIndex)

\* SearchVerdict, position by position.
VerdictInv ==
  (pc = "idle" /\ phase # "none" /\ Searching) =>
    /\ result = 1 => Ends(got, call.target)
    /\ (result = 0 /\ ~silent) => call.post # << >> /\ Ends(got, call.post)
    /\ result = 0 => \A p \in 1..Len(got) : Occurs(got, call.target, p) => Led(got, call.target, p)
    /\ (call.post # << >> /\ (result = 1 \/ silent)) =>
         \A p \in 1..Len(got) : Occurs(got, call.post, p) =>
           Led(got, call.post, p) \/ (result = 1 /\ p + Len(call.post) - 1 = Len(got))

FindInv == TextOK /\ SearchInv /\ VerdictInv

LEMMA StringsAreCodes ==
  ASSUME NEW t \in Seq(1..127)
  PROVE  t \in Seq(Codes)
BY 1..127 \subseteq Codes, SeqMonotonic DEF Codes

LEMMA CallFacts ==
  ASSUME TextOK
  PROVE  /\ call.target \in Seq(Codes) /\ call.post \in Seq(Codes) /\ call.length \in Nat \ {0}
         /\ scenario.calls \subseteq CallTypes /\ scenario.chars \subseteq Codes
         /\ call.op \in {"findUntil", "getString", "getValue", "getFloat", "getFloatDefault"}
<1>2. call.target \in Seq(1..127) /\ call.post \in Seq(1..127)
  BY DEF TextOK, CallTypes
<1>3. call.target \in Seq(Codes) /\ call.post \in Seq(Codes)
  BY <1>2, StringsAreCodes
<1>4. call.length \in Nat \ {0}
      /\ call.op \in {"findUntil", "getString", "getValue", "getFloat", "getFloatDefault"}
  BY DEF TextOK, CallTypes
<1>5. scenario \in [calls : SUBSET CallTypes, chars : SUBSET (0..127)]
  BY FinderAssumption DEF TextOK
<1>6. scenario.calls \subseteq CallTypes /\ scenario.chars \subseteq Codes
  BY <1>5 DEF Codes
<1>7. QED
  BY <1>3, <1>4, <1>6

LEMMA TextInit == Init => TextOK
<1> SUFFICES ASSUME Init PROVE TextOK
  OBVIOUS
<1>1. scenario \in Scenarios /\ call \in scenario.calls /\ line = << >> /\ got = << >>
  BY DEF Init
<1>2. scenario.calls \subseteq CallTypes
  BY <1>1, FinderAssumption
<1>3. QED
  BY <1>1, <1>2 DEF TextOK

LEMMA TextStep == TextOK /\ [Next]_vars => TextOK'
<1> SUFFICES ASSUME TextOK, [Next]_vars PROVE TextOK'
  OBVIOUS
<1> USE DEF line_vars
<1>1. CASE UNCHANGED vars
  BY <1>1 DEF vars, TextOK
<1>2. CASE Begin
  <2>1. call' \in scenario.calls /\ got' = << >> /\ UNCHANGED <<line, scenario>>
    BY <1>2 DEF Begin
  <2>2. QED
    BY <2>1, CallFacts DEF TextOK
<1>3. CASE SetTimeout \/ GiveUp \/ Spin \/ Tick
  BY <1>3 DEF SetTimeout, GiveUp, Spin, Tick, TextOK
<1>4. CASE Receive
  <2>1. /\ line # << >> /\ line' = Tail(line) /\ UNCHANGED <<scenario, call>>
        /\ got' \in {<< >>, got, Append(got, Head(line))}
    BY <1>4 DEF Receive
  <2>2. Head(line) \in Codes /\ line' \in Seq(Codes)
    BY <2>1 DEF TextOK
  <2>3. Append(got, Head(line)) \in Seq(Codes) /\ << >> \in Seq(Codes)
    BY <2>2, Appended DEF TextOK
  <2>4. QED
    BY <2>1, <2>2, <2>3 DEF TextOK
<1>5. CASE Arrive
  <2>1. PICK c \in scenario.chars : line' = IF Len(line) < LineSize THEN Append(line, c) ELSE line
    BY <1>5 DEF Arrive
  <2>2. c \in Codes
    BY <2>1, CallFacts
  <2>3. line' \in Seq(Codes)
    BY <2>1, <2>2 DEF TextOK
  <2>4. QED
    BY <1>5, <2>3 DEF Arrive, TextOK
<1>6. QED
  BY <1>1, <1>2, <1>3, <1>4, <1>5 DEF Next, Program

\* What findUntil does with a character, or with 0.
LEMMA FindOutcome ==
  ASSUME TextOK, SearchInv, pc = "read", Searching, NEW c, Take(c)
  PROVE  /\ phase' = "find"
         /\ \/ c = 0 /\ pc' = "idle" /\ result' = 0
            \/ /\ c # 0 /\ c = call.target[index + 1] /\ index + 1 = Len(call.target)
               /\ pc' = "idle" /\ result' = 1
            \/ /\ c # 0 /\ ~(c = call.target[index + 1] /\ index + 1 = Len(call.target))
               /\ index' = IF c = call.target[index + 1] THEN index + 1 ELSE 0
               /\ \/ /\ call.post # << >> /\ c = call.post[termIndex + 1]
                     /\ termIndex + 1 = Len(call.post) /\ pc' = "idle" /\ result' = 0
                  \/ /\ pc' = "read"
                     /\ call.post # << >> =>
                          /\ ~(c = call.post[termIndex + 1] /\ termIndex + 1 = Len(call.post))
                          /\ termIndex' = IF c = call.post[termIndex + 1] THEN termIndex + 1 ELSE 0
<1>1. phase = "find" /\ call.op = "findUntil"
  BY DEF SearchInv, Searching
<1>2. Find(c)
  BY <1>1 DEF Take, Copy, Skip, Number
<1>3. /\ Len(call.target) \in 0..ByteMod - 1 /\ Len(call.post) \in 0..ByteMod - 1
      /\ ByteMod \in Nat \ {0}
  BY FinderAssumption DEF Searching
<1>4. TargetLen = Len(call.target) /\ Terminate = call.post /\ TermLen = Len(call.post)
  <2>1. Len(call.target) % ByteMod = Len(call.target) /\ Len(call.post) % ByteMod = Len(call.post)
    BY <1>3, SmallRemainder
  <2>2. QED
    BY <1>1, <2>1 DEF TargetLen, Terminate, TermLen
<1>5. /\ index \in Nat /\ index + 1 <= Len(call.target)
      /\ call.post # << >> => termIndex \in Nat /\ termIndex + 1 <= Len(call.post)
  BY <1>3 DEF SearchInv, Tracked
<1>6. call.post # << >> <=> Len(call.post) > 0
  BY CallFacts
<1> DEFINE matches == c = call.target[index + 1]
           ends == Len(call.post) > 0 /\ c = call.post[termIndex + 1]
<1>7. \/ c = 0 /\ Return(0) /\ phase' = phase
      \/ c # 0 /\ matches /\ index + 1 >= Len(call.target) /\ Found
      \/ /\ c # 0 /\ ~(matches /\ index + 1 >= Len(call.target))
         /\ index' = IF matches THEN index + 1 ELSE 0
         /\ termIndex' = IF ends THEN termIndex + 1 ELSE 0
         /\ IF ends /\ termIndex + 1 >= Len(call.post) THEN Return(0) ELSE ReadOn
         /\ phase' = phase
  BY <1>2, <1>4 DEF Find
<1>8. CASE c = 0 /\ Return(0) /\ phase' = phase
  BY <1>1, <1>8 DEF Return
<1>9. CASE c # 0 /\ matches /\ index + 1 >= Len(call.target) /\ Found
  <2>1. Return(1) /\ phase' = phase
    BY <1>1, <1>9 DEF Found
  <2>2. index + 1 = Len(call.target)
    BY <1>3, <1>5, <1>9
  <2>3. QED
    BY <1>1, <1>9, <2>1, <2>2 DEF Return
<1>10. CASE /\ c # 0 /\ ~(matches /\ index + 1 >= Len(call.target))
            /\ index' = IF matches THEN index + 1 ELSE 0
            /\ termIndex' = IF ends THEN termIndex + 1 ELSE 0
            /\ IF ends /\ termIndex + 1 >= Len(call.post) THEN Return(0) ELSE ReadOn
            /\ phase' = phase
  <2>1. ~(matches /\ index + 1 = Len(call.target))
    BY <1>3, <1>5, <1>10
  <2>2. CASE ends /\ termIndex + 1 >= Len(call.post)
    <3>1. Return(0) /\ call.post # << >> /\ termIndex + 1 = Len(call.post)
      BY <1>3, <1>5, <1>6, <1>10, <2>2
    <3>2. QED
      BY <1>1, <1>10, <2>1, <2>2, <3>1 DEF Return
  <2>3. CASE ~(ends /\ termIndex + 1 >= Len(call.post))
    <3>1. ReadOn
      BY <1>10, <2>3
    <3>2. call.post # << >> =>
            /\ ~(c = call.post[termIndex + 1] /\ termIndex + 1 = Len(call.post))
            /\ termIndex' = IF c = call.post[termIndex + 1] THEN termIndex + 1 ELSE 0
      BY <1>3, <1>5, <1>6, <1>10, <2>3
    <3>3. QED
      BY <1>1, <1>10, <2>1, <3>1, <3>2 DEF ReadOn
  <2>4. QED
    BY <2>2, <2>3
<1>11. QED
  BY <1>7, <1>8, <1>9, <1>10

\* Silence, or a NUL: nothing more was read.
LEMMA SilenceStep ==
  ASSUME TextOK, SearchInv, pc = "read", Searching, Take(NUL), got' = got, silent' = TRUE,
         call' = call
  PROVE  SearchInv' /\ VerdictInv'
<1>1. phase' = "find" /\ pc' = "idle" /\ result' = 0
  BY FindOutcome DEF NUL
<1>2. \A p \in 1..Len(got) : Occurs(got, call.target, p) => Led(got, call.target, p)
  BY CallFacts, TrackedMisses DEF TextOK, SearchInv
<1>3. call.post # << >> =>
        \A p \in 1..Len(got) : Occurs(got, call.post, p) => Led(got, call.post, p)
  BY CallFacts, TrackedMisses DEF TextOK, SearchInv
<1>4. QED
  BY <1>1, <1>2, <1>3 DEF SearchInv, VerdictInv

LEMMA CharacterStep ==
  ASSUME TextOK, SearchInv, pc = "read", Searching, NEW c \in Codes, c # 0, Take(c),
         got' = Append(got, c), silent' = FALSE, call' = call
  PROVE  SearchInv' /\ VerdictInv'
<1> DEFINE t == call.target
           e == call.post
           h == Append(got, c)
<1>1. t \in Seq(Codes) /\ e \in Seq(Codes) /\ got \in Seq(Codes) /\ h \in Seq(Codes)
  BY CallFacts DEF TextOK
<1>2. /\ phase = "find" /\ Tracked(got, t, index)
      /\ e # << >> => Tracked(got, e, termIndex)
  BY DEF SearchInv
<1>3. /\ c # t[index + 1] => Tracked(h, t, 0)
      /\ (c = t[index + 1] /\ index + 1 # Len(t)) => Tracked(h, t, index + 1)
      /\ (c = t[index + 1] /\ index + 1 = Len(t)) => Ends(h, t)
  BY <1>1, <1>2, TrackedStep
<1>4. e # << >> =>
        /\ c # e[termIndex + 1] => Tracked(h, e, 0)
        /\ (c = e[termIndex + 1] /\ termIndex + 1 # Len(e)) => Tracked(h, e, termIndex + 1)
        /\ (c = e[termIndex + 1] /\ termIndex + 1 = Len(e)) => Ends(h, e)
        /\ \A p \in 1..Len(h) : Occurs(h, e, p) => Led(h, e, p) \/ p + Len(e) - 1 = Len(h)
  BY <1>1, <1>2, TrackedStep
<1>5. phase' = "find" /\ got' = h /\ call'.target = t /\ call'.post = e
  BY FindOutcome
<1> HIDE DEF t, e, h
<1>6. CASE c = t[index + 1] /\ index + 1 = Len(t) /\ pc' = "idle" /\ result' = 1
  BY <1>3, <1>4, <1>5, <1>6 DEF SearchInv, VerdictInv
<1>7. CASE /\ ~(c = t[index + 1] /\ index + 1 = Len(t))
           /\ index' = IF c = t[index + 1] THEN index + 1 ELSE 0
  <2>1. Tracked(h, t, index')
    BY <1>3, <1>7
  <2>2. CASE e # << >> /\ c = e[termIndex + 1] /\ termIndex + 1 = Len(e) /\ pc' = "idle" /\ result' = 0
    <3>1. \A p \in 1..Len(h) : Occurs(h, t, p) => Led(h, t, p)
      BY <1>1, <2>1, TrackedMisses
    <3>2. Ends(h, e)
      BY <1>4, <2>2
    <3>3. QED
      BY <1>5, <2>2, <3>1, <3>2 DEF SearchInv, VerdictInv
  <2>3. CASE /\ pc' = "read"
             /\ e # << >> =>
                  /\ ~(c = e[termIndex + 1] /\ termIndex + 1 = Len(e))
                  /\ termIndex' = IF c = e[termIndex + 1] THEN termIndex + 1 ELSE 0
    <3>1. e # << >> => Tracked(h, e, termIndex')
      BY <1>4, <2>3
    <3>2. QED
      BY <1>5, <2>1, <2>3, <3>1 DEF SearchInv, VerdictInv
  <2>4. QED
    BY <1>7, <2>2, <2>3, FindOutcome DEF t, e
<1>8. QED
  BY <1>6, <1>7, FindOutcome DEF t, e

LEMMA FindInit == Init => FindInv
<1> SUFFICES ASSUME Init PROVE FindInv
  OBVIOUS
<1>1. SearchInv /\ VerdictInv
  BY DEF Init, SearchInv, VerdictInv
<1>2. QED
  BY <1>1, TextInit DEF FindInv

LEMMA FindStep == FindInv /\ [Next]_vars => FindInv'
<1> SUFFICES ASSUME TextOK, SearchInv, VerdictInv, [Next]_vars PROVE FindInv'
  BY DEF FindInv
<1>1. TextOK'
  BY TextStep
<1>2. ASSUME UNCHANGED <<pc, phase, call, search_vars, result, got, silent>>
      PROVE  SearchInv' /\ VerdictInv'
  BY <1>2 DEF search_vars, SearchInv, VerdictInv, Searching
<1>3. ASSUME pc = "read", ~Searching, call' = call, GiveUp \/ Receive
      PROVE  SearchInv' /\ VerdictInv'
  <2>1. ~Searching'
    BY <1>3 DEF Searching
  <2>2. QED
    BY <2>1 DEF SearchInv, VerdictInv
<1>4. CASE UNCHANGED vars \/ SetTimeout \/ Spin \/ Arrive \/ Tick
  <2>1. UNCHANGED <<pc, phase, call, search_vars, result, got, silent>>
    BY <1>4 DEF vars, SetTimeout, Spin, Arrive, Tick, search_vars
  <2>2. QED
    BY <1>1, <1>2, <2>1 DEF FindInv
<1>5. CASE Begin
  <2>1. /\ got' = << >> /\ index' = 0 /\ termIndex' = 0
        /\ (call'.op = "findUntil" /\ call'.target # << >>) => phase' = "find" /\ ReadOn
    BY <1>5 DEF Begin
  <2>2. call'.target \in Seq(Codes) /\ call'.post \in Seq(Codes)
    <3>1. call' \in CallTypes
      BY <1>1 DEF TextOK
    <3>2. call'.target \in Seq(1..127) /\ call'.post \in Seq(1..127)
      BY <3>1 DEF CallTypes
    <3>3. QED
      BY <3>2, StringsAreCodes
  <2>3. /\ call'.target # << >> => Tracked(<< >>, call'.target, 0)
        /\ call'.post # << >> => Tracked(<< >>, call'.post, 0)
    BY <2>2, TrackedBegins
  <2>4. Searching' => phase' = "find" /\ pc' = "read"
    BY <2>1 DEF Searching, ReadOn
  <2>5. QED
    BY <1>1, <2>1, <2>3, <2>4 DEF FindInv, SearchInv, VerdictInv, Searching
<1>6. CASE GiveUp
  <2>1. pc = "read" /\ Take(NUL) /\ got' = got /\ silent' = TRUE /\ call' = call
    BY <1>6 DEF GiveUp
  <2>2. QED
    BY <1>1, <1>3, <1>6, <2>1, SilenceStep DEF FindInv
<1>7. CASE Receive
  <2> DEFINE c == Head(line)
  <2>1. /\ pc = "read" /\ Take(c) /\ silent' = (c = NUL) /\ call' = call /\ line # << >>
        /\ got' = IF phase' # phase /\ phase' = "copy" THEN << >>
                  ELSE IF c = NUL THEN got ELSE Append(got, c)
    BY <1>7 DEF Receive
  <2>2. c \in Codes
    BY <2>1 DEF TextOK
  <2> HIDE DEF c
  <2>3. CASE ~Searching
    BY <1>1, <1>3, <1>7, <2>1, <2>3 DEF FindInv
  <2>4. CASE Searching
    <3>1. phase' = "find"
      BY <2>1, <2>4, FindOutcome
    <3>2. CASE c = NUL
      <4>1. silent' = TRUE /\ got' = got /\ Take(NUL)
        BY <2>1, <3>1, <3>2
      <4>2. QED
        BY <1>1, <2>1, <2>4, <4>1, SilenceStep DEF FindInv
    <3>3. CASE c # NUL
      <4>1. silent' = FALSE /\ got' = Append(got, c) /\ c # 0
        BY <2>1, <3>1, <3>3 DEF NUL
      <4>2. QED
        BY <1>1, <2>1, <2>2, <2>4, <4>1, CharacterStep DEF FindInv
    <3>4. QED
      BY <3>2, <3>3
  <2>5. QED
    BY <2>3, <2>4
<1>8. QED
  BY <1>1, <1>2, <1>4, <1>5, <1>6, <1>7 DEF FindInv, Next, Program

\* The property's words in these terms.
LEMMA OccursThere ==
  ASSUME NEW t \in Seq(Codes), got \in Seq(Codes), NEW p \in 1..Len(got), OccursAt(t, p)
  PROVE  Occurs(got, t, p)
<1>1. Len(t) \in Nat /\ Len(got) \in Nat /\ p + Len(t) - 1 <= Len(got)
  BY DEF OccursAt
<1>2. SUFFICES ASSUME NEW i \in 1..Len(t) PROVE got[p + i - 1] = t[i]
  BY <1>1 DEF Occurs, Match
<1>3. SubSeq(got, p, p + Len(t) - 1)[i] = got[p + i - 1]
  BY <1>1, <1>2
<1>4. QED
  BY <1>3 DEF OccursAt

LEMMA LedBegins ==
  ASSUME NEW t \in Seq(Codes), got \in Seq(Codes), NEW p \in 1..Len(got), Led(got, t, p)
  PROVE  BeginsBefore(t, p)
<1>1. PICK j \in 1..Len(t) - 1 : j < p /\ \A i \in 1..j : got[p - j + i - 1] = t[i]
  BY DEF Led
<1>2. Len(t) \in Nat /\ Len(got) \in Nat
  OBVIOUS
<1> DEFINE before == SubSeq(got, p - j, p - 1)
           beginning == SubSeq(t, 1, j)
<1>3. /\ before \in Seq(Codes) /\ Len(before) = j
      /\ beginning \in Seq(Codes) /\ Len(beginning) = j
  BY <1>1, <1>2
<1>4. ASSUME NEW i \in 1..j PROVE before[i] = beginning[i]
  <2>1. before[i] = got[p - j + i - 1] /\ beginning[i] = t[i]
    BY <1>1, <1>2, <1>4
  <2>2. QED
    BY <1>1, <1>4, <2>1
<1> HIDE DEF before, beginning
<1>5. before = beginning
  BY <1>3, <1>4, SeqEqual
<1>6. QED
  BY <1>1, <1>5 DEF BeginsBefore, before, beginning

LEMMA EndsInSuffix ==
  ASSUME NEW t \in Seq(Codes), got \in Seq(Codes), Ends(got, t)
  PROVE  IsSuffix(t, got)
<1> DEFINE b == Reverse(t)
           a == Reverse(got)
           m == Len(t)
<1>1. Len(got) \in Nat /\ m \in Nat /\ m <= Len(got)
  BY DEF Ends
<1>2. /\ b = [i \in 1..m |-> t[m - i + 1]] /\ a = [i \in 1..Len(got) |-> got[Len(got) - i + 1]]
  BY DEF Reverse
<1>3. b \in Seq(Codes) /\ Len(b) = m /\ a \in Seq(Codes) /\ Len(a) = Len(got)
  BY <1>1, <1>2
<1>4. ASSUME NEW i \in 1..m PROVE b[i] = a[i]
  <2>1. m - i + 1 \in 1..m /\ i \in 1..Len(got)
    BY <1>1, <1>4
  <2>2. got[Len(got) - m + (m - i + 1)] = t[m - i + 1]
    BY <2>1 DEF Ends
  <2>3. Len(got) - m + (m - i + 1) = Len(got) - i + 1
    BY <1>1, <1>4
  <2>4. QED
    BY <1>2, <1>4, <2>1, <2>2, <2>3
<1> HIDE DEF a, b, m
<1>5. SubSeq(b, 1, Len(b)) = SubSeq(a, 1, Len(b))
  <2>1. /\ SubSeq(b, 1, m) \in Seq(Codes) /\ Len(SubSeq(b, 1, m)) = m
        /\ SubSeq(a, 1, m) \in Seq(Codes) /\ Len(SubSeq(a, 1, m)) = m
    BY <1>1, <1>3
  <2>2. \A i \in 1..m : SubSeq(b, 1, m)[i] = b[i] /\ SubSeq(a, 1, m)[i] = a[i]
    BY <1>1, <1>3
  <2>3. QED
    BY <1>3, <1>4, <2>1, <2>2, SeqEqual
<1>6. IsPrefix(b, a)
  BY <1>1, <1>3, <1>5 DEF IsPrefix
<1>7. QED
  BY <1>6 DEF IsSuffix, a, b

\* findUntil returns true only at the end of the target and false only at silence
\* or at the end of the terminator, and passes over one of them only right after
\* a beginning of it: for every target and terminator that a byte can count, and
\* whatever the modem sends, however the characters come.
THEOREM SearchTheorem == Spec => []SearchVerdict
<1>1. FindInv => SearchVerdict
  <2>1. SUFFICES ASSUME FindInv, Returned({"findUntil"}), call.target # << >>,
                        {Len(call.target), Len(call.post)} \subseteq 0..ByteMod - 1
                 PROVE  /\ result = 1 => IsSuffix(call.target, got)
                        /\ (result = 0 /\ ~silent) => call.post # << >> /\ IsSuffix(call.post, got)
                        /\ result = 0 => MissedOnlyOverlapped(call.target)
                        /\ (call.post # << >> /\ (result = 1 \/ silent)) =>
                             \A p \in 1..Len(got) : OccursAt(call.post, p) =>
                               \/ BeginsBefore(call.post, p)
                               \/ result = 1 /\ p + Len(call.post) - 1 = Len(got)
    BY DEF SearchVerdict
  <2>2. pc = "idle" /\ phase # "none" /\ Searching
    BY <2>1 DEF Returned, Searching
  <2>3. call.target \in Seq(Codes) /\ call.post \in Seq(Codes) /\ got \in Seq(Codes)
    BY <2>1, CallFacts DEF FindInv, TextOK
  <2>4. result = 1 => IsSuffix(call.target, got)
    BY <2>1, <2>2, <2>3, EndsInSuffix DEF FindInv, VerdictInv
  <2>5. (result = 0 /\ ~silent) => call.post # << >> /\ IsSuffix(call.post, got)
    BY <2>1, <2>2, <2>3, EndsInSuffix DEF FindInv, VerdictInv
  <2>6. result = 0 => MissedOnlyOverlapped(call.target)
    <3>1. SUFFICES ASSUME result = 0, NEW p \in 1..Len(got), OccursAt(call.target, p)
                   PROVE  BeginsBefore(call.target, p)
      BY DEF MissedOnlyOverlapped
    <3>2. Occurs(got, call.target, p)
      BY <2>3, <3>1, OccursThere
    <3>3. Led(got, call.target, p)
      BY <2>1, <2>2, <3>1, <3>2 DEF FindInv, VerdictInv
    <3>4. QED
      BY <2>3, <3>3, LedBegins
  <2>7. ASSUME call.post # << >>, result = 1 \/ silent, NEW p \in 1..Len(got), OccursAt(call.post, p)
        PROVE  BeginsBefore(call.post, p) \/ (result = 1 /\ p + Len(call.post) - 1 = Len(got))
    <3>1. Occurs(got, call.post, p)
      BY <2>3, <2>7, OccursThere
    <3>2. Led(got, call.post, p) \/ (result = 1 /\ p + Len(call.post) - 1 = Len(got))
      BY <2>1, <2>2, <2>7, <3>1 DEF FindInv, VerdictInv
    <3>3. QED
      BY <2>3, <3>2, LedBegins
  <2>8. QED
    BY <2>4, <2>5, <2>6, <2>7
<1>2. QED
  BY FindInit, FindStep, <1>1, PTL DEF Spec

----------------------------------------------------------------------------
(* getString.                                                              *)

\* What was copied is what was read, and there is room for one more character
\* and the end of the string.
CopyInv ==
  (pc = "read" /\ call.op = "getString") =>
    /\ phase \in {"find", "copy"}
    /\ phase = "copy" =>
         /\ DOMAIN buffer = 0..call.length - 1
         /\ count = Len(got) /\ count + 1 < call.length
         /\ \A k \in 1..Len(got) : got[k] # PostChar /\ buffer[k - 1] = got[k]

\* Only getString copies.
CopiesOnly == (pc = "read" /\ phase = "copy") => call.op = "getString"

\* ResultIsRead, but for the functions that return a number.
CopyVerdict == ~outside /\ ((Returned({"getString"}) /\ result > 0) => StringRead)

StringInv == TextOK /\ CopyInv /\ CopiesOnly /\ CopyVerdict

\* A character that is neither the poststring's nor the last.
LEMMA Copied ==
  ASSUME TextOK, CopyInv, pc = "read", call.op = "getString", phase = "copy", NEW c \in Codes,
         c # PostChar, got' = Append(got, c)
  PROVE  /\ Len(got') = count + 1 /\ count \in Nat
         /\ \A k \in 1..Len(got') : got'[k] # PostChar
         /\ \A k \in 1..count : got'[k] = buffer[k - 1]
         /\ got'[count + 1] = c
<1>1. /\ got \in Seq(Codes) /\ count = Len(got)
      /\ \A k \in 1..Len(got) : got[k] # PostChar /\ buffer[k - 1] = got[k]
  BY DEF TextOK, CopyInv
<1>2. /\ Len(got') = count + 1 /\ count \in Nat /\ got'[count + 1] = c
      /\ \A k \in 1..count : got'[k] = got[k]
  BY <1>1, Appended
<1>3. \A k \in 1..count + 1 : k \in 1..count \/ k = count + 1
  BY <1>2
<1>4. QED
  BY <1>1, <1>2, <1>3

LEMMA Written ==
  ASSUME NEW chars, Write(chars), DOMAIN chars \subseteq DOMAIN buffer, ~outside
  PROVE  /\ ~outside' /\ DOMAIN buffer' = DOMAIN buffer
         /\ \A i \in DOMAIN buffer : buffer'[i] = IF i \in DOMAIN chars THEN chars[i] ELSE buffer[i]
BY DEF Write

LEMMA CopyStep ==
  ASSUME TextOK, CopyInv, CopyVerdict, pc = "read", call.op = "getString", phase = "copy",
         NEW c \in Codes, c # 0, Copy(c), got' = Append(got, c), call' = call
  PROVE  CopyInv' /\ CopyVerdict' /\ phase' = phase
<1>1. /\ DOMAIN buffer = 0..call.length - 1 /\ count \in Nat /\ count + 1 < call.length
      /\ call.length \in Nat /\ count = Len(got) /\ got \in Seq(Codes) /\ ~outside
      /\ \A k \in 1..Len(got) : got[k] # PostChar /\ buffer[k - 1] = got[k]
  BY CallFacts DEF CopyInv, CopyVerdict, TextOK
<1>2. phase' = phase /\ PostChar' = PostChar
  BY DEF Copy, PostChar
<1>3. Len(got') = count + 1 /\ got'[count + 1] = c /\ got' # << >> /\ Last(got') = c
  BY <1>1, Appended DEF Last
<1>4. CASE c = PostChar
  <2> DEFINE chars == [i \in count..call.length - 1 |-> 0]
  <2>1. Write(chars) /\ Return(call.length)
    BY <1>4 DEF Copy
  <2> HIDE DEF chars
  <2>2. /\ \A i \in 0..call.length - 1 : buffer'[i] = IF i \in count..call.length - 1 THEN 0 ELSE buffer[i]
        /\ ~outside'
    <3>1. DOMAIN chars = count..call.length - 1 /\ \A i \in DOMAIN chars : chars[i] = 0
      BY DEF chars
    <3>2. DOMAIN chars \subseteq DOMAIN buffer
      BY <1>1, <3>1
    <3>3. QED
      BY <1>1, <2>1, <3>1, <3>2, Written
  <2>3. Front(got') = got
    <3>1. Front(got') = SubSeq(Append(got, c), 1, Len(got))
      BY <1>1, <1>3 DEF Front
    <3>2. /\ SubSeq(Append(got, c), 1, Len(got)) \in Seq(Codes)
          /\ Len(SubSeq(Append(got, c), 1, Len(got))) = Len(got)
          /\ \A i \in 1..Len(got) : SubSeq(Append(got, c), 1, Len(got))[i] = got[i]
      BY <1>1, Appended
    <3>3. QED
      BY <1>1, <3>1, <3>2, SeqEqual
  <2>4. \A i \in 0..count : buffer'[i] = IF i = count THEN 0 ELSE got[i + 1]
    <3>1. SUFFICES ASSUME NEW i \in 0..count PROVE buffer'[i] = IF i = count THEN 0 ELSE got[i + 1]
      OBVIOUS
    <3>2. CASE i = count
      BY <1>1, <2>2, <3>2
    <3>3. CASE i # count
      <4>1. i + 1 \in 1..Len(got) /\ i \in 0..call.length - 1 /\ i \notin count..call.length - 1
            /\ (i + 1) - 1 = i
        BY <1>1, <3>3
      <4>2. QED
        BY <1>1, <2>2, <3>3, <4>1
    <3>4. QED
      BY <3>2, <3>3
  <2>5. pc' = "idle" /\ result' = call.length
    BY <2>1 DEF Return
  <2>6. StringRead'
    BY <1>1, <1>2, <1>3, <1>4, <2>3, <2>4, <2>5 DEF StringRead, StringText, Closed
  <2>7. QED
    BY <1>2, <2>2, <2>5, <2>6 DEF CopyInv, CopyVerdict
<1>5. CASE c # PostChar
  <2>1. /\ \A k \in 1..count + 1 : got'[k] # PostChar
        /\ \A k \in 1..count : got'[k] = buffer[k - 1]
    BY <1>3, <1>5, Copied
  <2>2. CASE count + 1 < call.length - 1
    <3> DEFINE chars == [i \in {count} |-> c]
    <3>1. Write(chars) /\ ReadOn /\ count' = count + 1
      BY <1>5, <2>2 DEF Copy
    <3> HIDE DEF chars
    <3>2. /\ DOMAIN buffer' = 0..call.length - 1
          /\ \A i \in 0..call.length - 1 : buffer'[i] = IF i = count THEN c ELSE buffer[i]
          /\ ~outside'
      <4>1. DOMAIN chars = {count} /\ chars[count] = c
        BY DEF chars
      <4>2. DOMAIN chars \subseteq DOMAIN buffer
        BY <1>1, <4>1
      <4>3. QED
        BY <1>1, <3>1, <4>1, <4>2, Written
    <3>3. \A k \in 1..count + 1 : buffer'[k - 1] = got'[k]
      BY <1>1, <1>3, <2>1, <3>2
    <3>4. QED
      BY <1>1, <1>2, <1>3, <2>1, <2>2, <3>1, <3>2, <3>3 DEF CopyInv, CopyVerdict, Returned, ReadOn
  <2>3. CASE ~(count + 1 < call.length - 1)
    <3> DEFINE chars == [i \in {count, count + 1} |-> IF i = count THEN c ELSE 0]
    <3>1. Write(chars) /\ Return(count + 1)
      BY <1>5, <2>3 DEF Copy
    <3> HIDE DEF chars
    <3>2. /\ \A i \in 0..call.length - 1 :
               buffer'[i] = IF i = count THEN c ELSE IF i = count + 1 THEN 0 ELSE buffer[i]
          /\ ~outside'
      <4>1. DOMAIN chars = {count, count + 1} /\ chars[count] = c /\ chars[count + 1] = 0
        BY <1>1 DEF chars
      <4>2. DOMAIN chars \subseteq DOMAIN buffer
        BY <1>1, <4>1
      <4>3. QED
        BY SMTT(40), <1>1, <3>1, <4>1, <4>2, Written
    <3>3. \A i \in 0..count + 1 : buffer'[i] = IF i = count + 1 THEN 0 ELSE got'[i + 1]
      <4>1. SUFFICES ASSUME NEW i \in 0..count + 1
                     PROVE  buffer'[i] = IF i = count + 1 THEN 0 ELSE got'[i + 1]
        OBVIOUS
      <4>2. i \in 0..call.length - 1
        BY <1>1
      <4>3. CASE i \in {count, count + 1}
        BY <1>1, <1>3, <3>2, <4>2, <4>3
      <4>4. CASE i \notin {count, count + 1}
        <5>1. i + 1 \in 1..count /\ (i + 1) - 1 = i
          BY <1>1, <4>4
        <5>2. QED
          BY <2>1, <3>2, <4>2, <4>4, <5>1
      <4>5. QED
        BY <4>3, <4>4
    <3>4. pc' = "idle" /\ result' = count + 1
      BY <3>1 DEF Return
    <3>5. StringRead'
      BY <1>1, <1>2, <1>3, <1>5, <2>1, <2>3, <3>3, <3>4 DEF StringRead, StringText, Closed
    <3>6. QED
      BY <1>2, <3>2, <3>4, <3>5 DEF CopyInv, CopyVerdict
  <2>4. QED
    BY <2>2, <2>3
<1>6. QED
  BY <1>2, <1>4, <1>5

\* A copy that begins.
LEMMA CopyBegins ==
  ASSUME NEW length \in Nat \ {0}, StartCopy(length), length = call'.length, got' = << >>, ~outside,
         call'.op = "getString"
  PROVE  CopyInv' /\ CopyVerdict' /\ CopiesOnly'
<1>1. /\ phase' = "copy" /\ count' = 0 /\ DOMAIN buffer' = 0..length - 1 /\ ~outside'
      /\ length > 1 => pc' = "read"
      /\ ~(length > 1) => pc' = "idle" /\ result' = 0
  BY DEF StartCopy, ReadOn, Return
<1>2. \A k \in 1..Len(got') : FALSE
  OBVIOUS
<1>3. QED
  BY <1>1, <1>2 DEF CopyInv, CopyVerdict, CopiesOnly, Returned

\* getString looks for its prestring.
LEMMA PrestringStep ==
  ASSUME TextOK, CopyVerdict, pc = "read", call.op = "getString", phase = "find", NEW c, Take(c),
         call' = call, (c # 0 /\ phase' # phase /\ phase' = "copy") => got' = << >>
  PROVE  CopyInv' /\ CopyVerdict' /\ CopiesOnly'
<1>1. Find(c) /\ ~outside
  BY DEF Take, Copy, Skip, Number, CopyVerdict
<1>2. TermLen = 0
  BY FinderAssumption DEF TermLen, Terminate
<1>3. \/ phase' = phase /\ Return(0) /\ UNCHANGED copy_vars
      \/ phase' = phase /\ ReadOn /\ UNCHANGED copy_vars
      \/ c # 0 /\ Found
  BY <1>1, <1>2 DEF Find
<1>4. CASE phase' = phase /\ Return(0) /\ UNCHANGED copy_vars
  BY <1>1, <1>4 DEF Return, copy_vars, CopyInv, CopyVerdict, CopiesOnly
<1>5. CASE phase' = phase /\ ReadOn /\ UNCHANGED copy_vars
  BY <1>1, <1>5 DEF ReadOn, copy_vars, CopyInv, CopyVerdict, CopiesOnly, Returned
<1>6. CASE c # 0 /\ Found
  <2>1. StartCopy(call.length)
    BY <1>6 DEF Found
  <2>2. got' = << >>
    BY <1>6, <2>1 DEF StartCopy
  <2>3. QED
    BY <1>1, <2>1, <2>2, CopyBegins, CallFacts
<1>7. QED
  BY <1>3, <1>4, <1>5, <1>6

\* The other functions leave the buffer alone.
LEMMA OthersStep ==
  ASSUME CopiesOnly, CopyVerdict, pc = "read", call.op # "getString", NEW c, Take(c), call' = call
  PROVE  CopyInv' /\ CopyVerdict' /\ CopiesOnly'
<1>1. Find(c) \/ Skip(c) \/ Number(c)
  BY DEF Take, Copy, CopiesOnly
<1>2. outside' = outside /\ phase' # "copy"
  <2>1. CASE Find(c)
    BY <2>1 DEF Find, Found, copy_vars
  <2>2. CASE Skip(c) \/ Number(c)
    BY <2>2 DEF Skip, Number, copy_vars
  <2>3. QED
    BY <1>1, <2>1, <2>2
<1>3. QED
  BY <1>2 DEF CopyInv, CopyVerdict, CopiesOnly, Returned

LEMMA StringInit == Init => StringInv
<1> SUFFICES ASSUME Init PROVE StringInv
  OBVIOUS
<1>1. CopyInv /\ CopiesOnly /\ CopyVerdict
  BY DEF Init, CopyInv, CopiesOnly, CopyVerdict, Returned
<1>2. QED
  BY <1>1, TextInit DEF StringInv

LEMMA StringStep == StringInv /\ [Next]_vars => StringInv'
<1> SUFFICES ASSUME TextOK, CopyInv, CopiesOnly, CopyVerdict, [Next]_vars PROVE StringInv'
  BY DEF StringInv
<1>1. TextOK'
  BY TextStep
<1>2. CASE UNCHANGED vars \/ SetTimeout \/ Spin \/ Arrive \/ Tick
  <2>1. UNCHANGED <<pc, phase, call, count, buffer, outside, result, got>>
    BY <1>2 DEF vars, SetTimeout, Spin, Arrive, Tick, copy_vars
  <2>2. PostChar' = PostChar
    BY <2>1 DEF PostChar
  <2>3. StringRead' <=> StringRead
    BY <2>1, <2>2 DEF StringRead, StringText, Closed
  <2>4. QED
    BY <1>1, <2>1, <2>2, <2>3 DEF StringInv, CopyInv, CopiesOnly, CopyVerdict, Returned
<1>3. CASE Begin
  <2>1. got' = << >> /\ call' \in CallTypes
    BY <1>1, <1>3 DEF Begin, TextOK
  <2>2. call'.length \in Nat \ {0}
    BY <2>1 DEF CallTypes
  <2>3. CASE call'.op = "getString" /\ StartCopy(call'.length)
    BY <1>1, <2>1, <2>2, <2>3, CopyBegins DEF CopyVerdict, StringInv
  <2>4. CASE /\ UNCHANGED copy_vars
             /\ \/ call'.op # "getString" /\ phase' \in {"find", "skip"}
                \/ phase' = "find" /\ ReadOn
    BY <1>1, <2>4 DEF copy_vars, ReadOn, StringInv, CopyInv, CopiesOnly, CopyVerdict, Returned
  <2>5. QED
    BY <1>3, <2>3, <2>4 DEF Begin
<1>4. CASE GiveUp
  <2>1. pc = "read" /\ Take(NUL) /\ call' = call
    BY <1>4 DEF GiveUp
  <2>2. CASE call.op # "getString"
    BY <1>1, <2>1, <2>2, OthersStep DEF StringInv
  <2>3. CASE call.op = "getString" /\ phase = "find"
    BY <1>1, <2>1, <2>3, PrestringStep DEF StringInv, NUL
  <2>4. CASE call.op = "getString" /\ phase = "copy"
    <3>1. Copy(NUL)
      BY <2>1, <2>4 DEF Take, Find, Skip, Number
    <3>2. pc' = "idle" /\ result' = 0 /\ outside' = outside
      BY <3>1 DEF Copy, Return, copy_vars, NUL
    <3>3. QED
      BY <1>1, <3>2 DEF StringInv, CopyInv, CopiesOnly, CopyVerdict
  <2>5. QED
    BY <2>1, <2>2, <2>3, <2>4 DEF CopyInv
<1>5. CASE Receive
  <2> DEFINE c == Head(line)
  <2>1. /\ pc = "read" /\ Take(c) /\ call' = call /\ line # << >>
        /\ got' = IF phase' # phase /\ phase' = "copy" THEN << >>
                  ELSE IF c = NUL THEN got ELSE Append(got, c)
    BY <1>5 DEF Receive
  <2>2. c \in Codes
    BY <2>1 DEF TextOK
  <2> HIDE DEF c
  <2>3. CASE call.op # "getString"
    BY <1>1, <2>1, <2>3, OthersStep DEF StringInv
  <2>4. CASE call.op = "getString" /\ phase = "find"
    BY <1>1, <2>1, <2>4, PrestringStep DEF StringInv
  <2>5. CASE call.op = "getString" /\ phase = "copy"
    <3>1. Copy(c)
      BY <2>1, <2>5 DEF Take, Find, Skip, Number
    <3>2. phase' = phase
      BY <3>1 DEF Copy
    <3>3. CASE c = 0
      <4>1. pc' = "idle" /\ result' = 0 /\ outside' = outside
        BY <3>1, <3>3 DEF Copy, Return, copy_vars, PostChar, NUL
      <4>2. QED
        BY <1>1, <4>1 DEF StringInv, CopyInv, CopiesOnly, CopyVerdict
    <3>4. CASE c # 0
      <4>1. got' = Append(got, c)
        BY <2>1, <3>2, <3>4 DEF NUL
      <4>2. CopyInv' /\ CopyVerdict'
        BY <2>1, <2>2, <2>5, <3>1, <3>4, <4>1, CopyStep
      <4>3. QED
        BY <1>1, <2>1, <2>5, <4>2 DEF StringInv, CopiesOnly
    <3>5. QED
      BY <3>3, <3>4
  <2>6. QED
    BY <2>1, <2>3, <2>4, <2>5 DEF CopyInv
<1>6. QED
  BY <1>2, <1>3, <1>4, <1>5 DEF Next, Program

----------------------------------------------------------------------------
(* The value of a text, as facts about any sequence of characters.         *)

Less == {ss \in Nat \X Nat : ss[1] < ss[2]}

\* Induction over the numbers, for a set of them that is given as a value.
LEMMA LessWF == IsWellFoundedOn(Less, Nat)
<1>1. OpToRel(<, Nat) = Less
  BY Zenon DEF OpToRel, Less
<1>2. QED
  BY <1>1, NatLessThanWellFounded, Zenon

LEMMA SetInduction ==
  ASSUME NEW S, 0 \in S, \A n \in Nat : n \in S => n + 1 \in S
  PROVE  Nat \subseteq S
<1> SUFFICES ASSUME ~(Nat \subseteq S) PROVE FALSE
  OBVIOUS
<1> DEFINE T == {n \in Nat : n \notin S}
<1>1. T \subseteq Nat /\ T # {}
  OBVIOUS
<1>2. PICK x \in T : \A y \in T : ~(<<y, x>> \in Less)
  <2> HIDE DEF T
  <2>2. QED
    BY <1>1, LessWF, WFMin
<1>3. \A y \in T : ~(y < x)
  BY <1>2 DEF Less
<1>4. x # 0 /\ x - 1 \in Nat
  OBVIOUS
<1>5. x - 1 \in T
  OBVIOUS
<1>6. QED
  BY <1>3, <1>4, <1>5

\* One turn of the recursion of Decimal.
Turn(f, text, skip, k) ==
  IF k = 0 THEN 0
  ELSE IF Counts(text[k], skip) THEN f[k - 1] * 10 + text[k] - 48 ELSE f[k - 1]

\* f has the values of Decimal's function v up to position n.
Partial(f, text, skip, n) == \A k \in 0..n : f[k] = Turn(f, text, skip, k)

\* Such a function exists, and its values depend on the characters up to n only.
LEMMA PartialExists ==
  ASSUME NEW text \in Seq(Codes), NEW skip
  PROVE  \A n \in 0..Len(text) : \E f \in [0..n -> Int] : Partial(f, text, skip, n)
<1> DEFINE S == {n \in Nat : n <= Len(text) => \E f \in [0..n -> Int] : Partial(f, text, skip, n)}
<1>1. 0 \in S
  <2> DEFINE f == [k \in 0..0 |-> 0]
  <2>1. f \in [0..0 -> Int] /\ Partial(f, text, skip, 0)
    BY DEF Partial, Turn
  <2>2. QED
    BY <2>1
<1>2. ASSUME NEW n \in Nat, n \in S, n + 1 <= Len(text)
      PROVE  \E f \in [0..n + 1 -> Int] : Partial(f, text, skip, n + 1)
  <2>1. PICK g \in [0..n -> Int] : Partial(g, text, skip, n)
    BY <1>2
  <2>2. text[n + 1] \in Int
    <3>1. n + 1 \in 1..Len(text)
      BY <1>2
    <3>2. text[n + 1] \in Codes
      BY <3>1
    <3>3. Codes \subseteq Int
      BY DEF Codes
    <3>4. QED
      BY <3>2, <3>3
  <2>3. Turn(g, text, skip, n + 1) \in Int
    <3>1. n + 1 # 0 /\ (n + 1) - 1 = n /\ g[n] \in Int
      BY <2>1
    <3>2. QED
      BY <2>2, <3>1 DEF Turn
  <2> DEFINE f == [k \in 0..n + 1 |-> IF k <= n THEN g[k] ELSE Turn(g, text, skip, n + 1)]
  <2>4. f \in [0..n + 1 -> Int] /\ \A k \in 0..n : f[k] = g[k] /\ f[n + 1] = Turn(g, text, skip, n + 1)
    BY <2>1, <2>3
  <2> HIDE DEF f
  <2>5. ASSUME NEW k \in 0..n + 1 PROVE f[k] = Turn(f, text, skip, k)
    <3>1. CASE k \in 0..n
      <4>1. f[k] = Turn(g, text, skip, k)
        BY <2>1, <2>4, <3>1 DEF Partial
      <4>2. k # 0 => k - 1 \in 0..n
        BY <3>1
      <4>3. QED
        BY <2>4, <4>1, <4>2 DEF Turn
    <3>2. CASE k = n + 1
      <4>1. k # 0 /\ k - 1 = n /\ n \in 0..n
        BY <3>2
      <4>2. QED
        BY <2>4, <3>2, <4>1 DEF Turn
    <3>3. QED
      BY <3>1, <3>2
  <2>6. QED
    BY <2>4, <2>5 DEF Partial
<1>3. Nat \subseteq S
  <2>1. \A n \in Nat : n \in S => n + 1 \in S
    BY <1>2
  <2> HIDE DEF S
  <2>2. QED
    BY <1>1, <2>1, SetInduction
<1>4. QED
  BY <1>3

Agree(text, more, n) == \A k \in 1..n : text[k] = more[k]

LEMMA PartialsAgree ==
  ASSUME NEW text, NEW more, NEW skip, NEW n \in Nat,
         Agree(text, more, n),
         NEW f, Partial(f, text, skip, n), NEW g, Partial(g, more, skip, n)
  PROVE  \A k \in 0..n : f[k] = g[k]
<1> DEFINE S == {k \in Nat : k <= n => f[k] = g[k]}
<1>1. 0 \in S
  BY DEF Partial, Turn
<1>2. ASSUME NEW k \in Nat, k \in S PROVE k + 1 \in S
  <2>1. SUFFICES ASSUME k + 1 <= n PROVE f[k + 1] = g[k + 1]
    OBVIOUS
  <2>2. f[k] = g[k] /\ text[k + 1] = more[k + 1]
    BY <1>2, <2>1 DEF Agree
  <2>3. k + 1 \in 0..n /\ k + 1 # 0 /\ (k + 1) - 1 = k
    BY <2>1
  <2>4. f[k + 1] = Turn(f, text, skip, k + 1) /\ g[k + 1] = Turn(g, more, skip, k + 1)
    BY <2>3 DEF Partial
  <2>5. QED
    BY <2>2, <2>3, <2>4 DEF Turn
<1>3. Nat \subseteq S
  <2> HIDE DEF S
  <2>1. QED
    BY <1>1, <1>2, SetInduction
<1>4. QED
  BY <1>3

\* So the function that Decimal chooses is one of them.
LEMMA DecimalIsPartial ==
  ASSUME NEW text \in Seq(Codes), NEW skip
  PROVE  \E f \in [0..Len(text) -> Int] :
            Partial(f, text, skip, Len(text)) /\ Decimal(text, skip) = f[Len(text)]
<1> DEFINE n == Len(text)
           Whole(f) == f = [k \in 0..n |-> Turn(f, text, skip, k)]
           h == CHOOSE f : Whole(f)
<1>1. n \in Nat
  OBVIOUS
<1>2. PICK f \in [0..n -> Int] : Partial(f, text, skip, n)
  BY <1>1, PartialExists
<1>3. Whole(f)
  BY <1>2 DEF Partial
<1>4. Whole(h)
  BY <1>3, Zenon
<1>5. Decimal(text, skip) = h[n]
  BY Zenon DEF Decimal, Turn
<1>6. Partial(h, text, skip, n)
  <2> HIDE DEF h
  <2>1. QED
    BY <1>4 DEF Partial
<1>7. h[n] = f[n]
  <2> HIDE DEF h, n
  <2>1. QED
    <3>1. Agree(text, text, n)
      BY DEF Agree
    <3>2. \A k \in 0..n : h[k] = f[k]
      BY <1>1, <1>2, <1>6, <3>1, PartialsAgree
    <3>3. QED
      BY <1>1, <3>2
<1>8. QED
  BY <1>2, <1>5, <1>7

\* What one more character does to the value.
LEMMA DecimalStep ==
  ASSUME NEW text \in Seq(Codes), NEW skip, NEW c \in Codes
  PROVE  /\ Decimal(text, skip) \in Int
         /\ Decimal(<< >>, skip) = 0
         /\ Decimal(Append(text, c), skip)
              = IF Counts(c, skip) THEN Decimal(text, skip) * 10 + c - 48 ELSE Decimal(text, skip)
<1> DEFINE more == Append(text, c)
           n == Len(text)
<1>1. n \in Nat /\ more \in Seq(Codes) /\ Len(more) = n + 1
  OBVIOUS
<1>2. more[n + 1] = c /\ \A k \in 1..n : text[k] = more[k]
  OBVIOUS
<1>3. PICK f \in [0..n -> Int] : Partial(f, text, skip, n) /\ Decimal(text, skip) = f[n]
  BY DecimalIsPartial
<1> HIDE DEF more
<1>4. PICK g \in [0..n + 1 -> Int] : Partial(g, more, skip, n + 1) /\ Decimal(more, skip) = g[n + 1]
  BY <1>1, DecimalIsPartial
<1> HIDE DEF n
<1>5. f[n] = g[n]
  <2>1. n + 1 \in Nat /\ n <= n + 1 /\ n \in 0..n
    BY <1>1
  <2>2. Partial(g, more, skip, n)
    BY <1>4, <2>1 DEF Partial
  <2>3. \A k \in 0..n : f[k] = g[k]
    <3>1. n \in Nat
      BY <1>1
    <3>2. Agree(text, more, n)
      BY <1>2 DEF Agree
    <3>3. Partial(f, text, skip, n)
      BY <1>3
    <3>4. QED
      BY SMTT(40), <3>1, <3>2, <3>3, <2>2, PartialsAgree
  <2>4. QED
    BY <2>1, <2>3
<1>6. g[n + 1] = IF Counts(c, skip) THEN g[n] * 10 + c - 48 ELSE g[n]
  <2>1. n + 1 \in 0..n + 1 /\ n + 1 # 0 /\ (n + 1) - 1 = n
    BY <1>1
  <2>2. QED
    BY <1>2, <1>4, <2>1 DEF Partial, Turn
<1>7. Decimal(text, skip) \in Int
  BY <1>1, <1>3
<1>8. Decimal(<< >>, skip) = 0
  <2>1. << >> \in Seq(Codes) /\ Len(<< >>) = 0
    OBVIOUS
  <2>2. PICK e : Partial(e, << >>, skip, Len(<< >>)) /\ Decimal(<< >>, skip) = e[Len(<< >>)]
    BY <2>1, DecimalIsPartial
  <2>3. QED
    BY <2>1, <2>2 DEF Partial, Turn
<1>9. QED
  BY <1>3, <1>4, <1>5, <1>6, <1>7, <1>8 DEF more

HasPoint(text, skip) == \E j \in 1..Len(text) : text[j] = Dot /\ text[j] # skip

\* What one more character does to the number of decimals.
LEMMA DecimalsStep ==
  ASSUME NEW text \in Seq(Codes), NEW skip, NEW c \in Codes
  PROVE  /\ Decimals(text, skip) \in Nat
         /\ ~HasPoint(text, skip) => Decimals(text, skip) = 0
         /\ Decimals(Append(text, c), skip)
              = IF Counts(c, skip) /\ HasPoint(text, skip) THEN Decimals(text, skip) + 1
                                                          ELSE Decimals(text, skip)
         /\ HasPoint(Append(text, c), skip) <=> HasPoint(text, skip) \/ (c = Dot /\ c # skip)
<1> DEFINE After(t, k) == Counts(t[k], skip) /\ \E j \in 1..k : t[j] = Dot /\ t[j] # skip
           places == {k \in 1..Len(text) : After(text, k)}
           more == Append(text, c)
           n == Len(text)
<1>1. /\ n \in Nat /\ Len(more) = n + 1 /\ more[n + 1] = c /\ \A k \in 1..n : more[k] = text[k]
  BY Appended
<1> HIDE DEF more
<1>2. IsFiniteSet(places) /\ n + 1 \notin places
  <2>1. IsFiniteSet(1..n)
    BY <1>1, FS_Interval
  <2>2. places \subseteq 1..n
    OBVIOUS
  <2>3. IsFiniteSet(places)
    BY <2>1, <2>2, FS_Subset
  <2>4. n + 1 \notin 1..n
    BY <1>1
  <2>5. QED
    BY <2>2, <2>3, <2>4
<1>3. Decimals(text, skip) = Cardinality(places)
  BY DEF Decimals
<1>4. ASSUME NEW k \in 1..n PROVE After(more, k) <=> After(text, k)
  <2>1. \A j \in 1..k : more[j] = text[j]
    BY <1>1, <1>4
  <2>2. QED
    BY <1>1, <1>4, <2>1
<1>5. After(more, n + 1) <=> Counts(c, skip) /\ HasPoint(text, skip)
  <2>1. Counts(c, skip) => c # Dot
    BY DEF Counts, IsDigit, Dot
  <2>2. \A j \in 1..n + 1 : j \in 1..n \/ j = n + 1
    BY <1>1
  <2>3. QED
    BY <1>1, <2>1, <2>2 DEF HasPoint
<1>6. {k \in 1..n + 1 : After(more, k)}
        = IF Counts(c, skip) /\ HasPoint(text, skip) THEN places \cup {n + 1} ELSE places
  BY <1>1, <1>4, <1>5
<1>7. Decimals(more, skip)
        = Cardinality(IF Counts(c, skip) /\ HasPoint(text, skip) THEN places \cup {n + 1} ELSE places)
  BY <1>1, <1>6 DEF Decimals
<1>8. Cardinality(places) \in Nat /\ Cardinality(places \cup {n + 1}) = Cardinality(places) + 1
  <2> HIDE DEF places
  <2>1. QED
    BY <1>2, FS_CardinalityType, FS_AddElement
<1>9. ASSUME ~HasPoint(text, skip) PROVE Cardinality(places) = 0
  <2>1. places = {}
    BY <1>1, <1>9 DEF HasPoint
  <2>2. QED
    BY <2>1, FS_EmptySet
<1>10. HasPoint(more, skip) <=> HasPoint(text, skip) \/ (c = Dot /\ c # skip)
  <2>1. \A j \in 1..n + 1 : j \in 1..n \/ j = n + 1
    BY <1>1
  <2>2. QED
    BY <1>1, <2>1 DEF HasPoint
<1>11. QED
  BY <1>3, <1>7, <1>8, <1>9, <1>10 DEF more

\* The number that begins at a position of what was read, and the next character.
LEMMA RunStep ==
  ASSUME NEW g \in Seq(Codes), NEW c \in Codes, NEW first \in 1..Len(g) + 1
  PROVE  /\ SubSeq(g, first, Len(g)) \in Seq(Codes)
         /\ SubSeq(Append(g, c), first, Len(g) + 1) = Append(SubSeq(g, first, Len(g)), c)
         /\ SubSeq(Append(g, c), first, Len(g)) = SubSeq(g, first, Len(g))
         /\ first = Len(g) + 1 => SubSeq(g, first, Len(g)) = << >>
<1>1. /\ Append(g, c) \in Seq(Codes) /\ Len(Append(g, c)) = Len(g) + 1 /\ Len(g) \in Nat
      /\ Append(g, c)[Len(g) + 1] = c /\ \A k \in 1..Len(g) : Append(g, c)[k] = g[k]
  BY Appended
<1> DEFINE h == Append(g, c)
           run == SubSeq(g, first, Len(g))
           size == Len(g) + 1 - first
<1>2. size \in Nat /\ first \in Nat /\ first > 0 /\ size + 1 = Len(g) + 2 - first
  BY <1>1
<1>3. run \in Seq(Codes) /\ Len(run) = size /\ \A i \in 1..size : run[i] = g[first + i - 1]
  BY <1>1, <1>2
<1> HIDE DEF h
<1>4. /\ SubSeq(h, first, Len(g)) \in Seq(Codes) /\ Len(SubSeq(h, first, Len(g))) = size
      /\ \A i \in 1..size : SubSeq(h, first, Len(g))[i] = h[first + i - 1]
  BY <1>1, <1>2 DEF h
<1>5. /\ SubSeq(h, first, Len(g) + 1) \in Seq(Codes) /\ Len(SubSeq(h, first, Len(g) + 1)) = size + 1
      /\ \A i \in 1..size + 1 : SubSeq(h, first, Len(g) + 1)[i] = h[first + i - 1]
  BY <1>1, <1>2 DEF h
<1>6. \A i \in 1..size : first + i - 1 \in 1..Len(g)
  BY <1>1, <1>2
<1> HIDE DEF run, size
<1>7. /\ Append(run, c) \in Seq(Codes) /\ Len(Append(run, c)) = size + 1
      /\ Append(run, c)[size + 1] = c /\ \A i \in 1..size : Append(run, c)[i] = run[i]
  BY <1>3, Appended
<1>8. SubSeq(h, first, Len(g)) = run
  BY <1>1, <1>3, <1>4, <1>6, SeqEqual DEF h
<1>9. SubSeq(h, first, Len(g) + 1) = Append(run, c)
  <2>1. \A i \in 1..size : h[first + i - 1] = run[i]
    BY <1>1, <1>3, <1>6 DEF h
  <2>2. first + (size + 1) - 1 = Len(g) + 1 /\ \A i \in 1..size + 1 : i \in 1..size \/ i = size + 1
    BY <1>1, <1>2
  <2>3. \A i \in 1..size + 1 : SubSeq(h, first, Len(g) + 1)[i] = Append(run, c)[i]
    BY <1>1, <1>5, <1>7, <2>1, <2>2 DEF h
  <2>4. QED
    BY <1>5, <1>7, <2>3, SeqEqual
<1>10. ASSUME first = Len(g) + 1 PROVE run = << >>
  <2>1. size = 0
    BY <1>1, <1>10 DEF size
  <2>2. QED
    BY <1>3, <2>1
<1>11. QED
  BY <1>3, <1>8, <1>9, <1>10 DEF h, run

----------------------------------------------------------------------------
(* getValue and getFloat.                                                  *)

\* What has been read of a number that begins at position first.
NumberFrom(first) ==
  LET run == SubSeq(got, first, Len(got))
  IN  /\ Starts(got[first]) /\ \A k \in 1..first - 1 : ~Starts(got[k])
      /\ \A k \in first + 1..Len(got) : Within(got[k])
      /\ isNegative <=> got[first] = Minus /\ call.skip # Minus
      /\ isFraction <=> IsFloat /\ HasPoint(run, call.skip)
      /\ ~undefined => value = Decimal(run, call.skip)
      /\ scale = IF IsFloat THEN Decimals(run, call.skip) ELSE 0

NumberInv ==
  /\ (pc = "read" /\ phase = "skip") =>
       /\ \A k \in 1..Len(got) : ~Starts(got[k])
       /\ value = 0 /\ ~isNegative /\ ~isFraction /\ scale = 0
  /\ (pc = "read" /\ phase = "number") => \E first \in 1..Len(got) : NumberFrom(first)
  /\ (pc = "read" /\ phase \in {"find", "copy"}) => call.op \in {"findUntil", "getString"}

\* The part of ResultIsRead about numbers.
NumberVerdict == (Returned({"getValue", "getFloat"}) /\ ~undefined) => NumberRead

LEMMA SkipFacts ==
  ASSUME TextOK
  PROVE  call.skip \in 1..127 /\ ~Within(0) /\ ~Starts(0)
<1>1. call.skip \in 1..127
  BY DEF TextOK, CallTypes
<1>2. ~IsDigit(0) /\ Dot # 0 /\ Minus # 0
  BY DEF IsDigit, Dot, Minus
<1>3. QED
  BY <1>1, <1>2 DEF Within, Starts

\* One more character of a number.
LEMMA DigitStep ==
  ASSUME TextOK, NEW first \in 1..Len(got), NumberFrom(first), NEW c \in Codes, Within(c),
         Evaluate(c), call' = call, got' = Append(got, c)
  PROVE  first \in 1..Len(got') /\ NumberFrom(first)'
<1> DEFINE run == SubSeq(got, first, Len(got))
           skip == call.skip
<1>1. /\ got \in Seq(Codes) /\ Len(got) \in Nat /\ Len(got') = Len(got) + 1
      /\ got'[Len(got) + 1] = c /\ \A k \in 1..Len(got) : got'[k] = got[k]
  BY Appended DEF TextOK
<1>2. run \in Seq(Codes) /\ SubSeq(got', first, Len(got')) = Append(run, c)
  <2>1. first \in 1..Len(got) + 1
    BY <1>1
  <2>2. QED
    BY <1>1, <2>1, RunStep
<1> HIDE DEF run
<1>3. /\ Starts(got[first]) /\ \A k \in 1..first - 1 : ~Starts(got[k])
      /\ \A k \in first + 1..Len(got) : Within(got[k])
      /\ isNegative <=> got[first] = Minus /\ skip # Minus
      /\ isFraction <=> IsFloat /\ HasPoint(run, skip)
      /\ ~undefined => value = Decimal(run, skip)
      /\ scale = IF IsFloat THEN Decimals(run, skip) ELSE 0
  BY DEF NumberFrom, run
<1>4. IsFloat' = IsFloat /\ \A d : Within(d)' = Within(d) /\ Starts(d)' = Starts(d)
  BY DEF IsFloat, Within, Starts
<1>5. first \in 1..Len(got') /\ got'[first] = got[first] /\ \A k \in 1..first - 1 : got'[k] = got[k]
  BY <1>1
<1>6. \A k \in first + 1..Len(got') : Within(got'[k])
  <2>1. \A k \in first + 1..Len(got') : k \in first + 1..Len(got) \/ k = Len(got) + 1
    BY <1>1
  <2>2. QED
    BY <1>1, <1>3, <2>1
<1>7. isNegative' <=> isNegative
  <2>1. c = Minus => c = skip
    BY DEF Within, IsDigit, Minus, Dot
  <2>2. QED
    BY <2>1 DEF Evaluate
<1>8. isFraction' <=> IsFloat /\ HasPoint(Append(run, c), skip)
  <2>1. isFraction' <=> isFraction \/ (IsFloat /\ c = Dot /\ c # skip)
    BY DEF Evaluate
  <2>2. HasPoint(Append(run, c), skip) <=> HasPoint(run, skip) \/ (c = Dot /\ c # skip)
    BY <1>2, DecimalsStep
  <2>3. QED
    BY <1>3, <2>1, <2>2
<1>9. ASSUME ~undefined' PROVE value' = Decimal(Append(run, c), skip)
  <2>1. ~undefined /\ value = Decimal(run, skip)
    BY <1>3, <1>9 DEF Evaluate
  <2>2. value' = IF Counts(c, skip) THEN value * 10 + c - 48 ELSE value
    BY <1>9 DEF Evaluate, Counts
  <2>3. Decimal(Append(run, c), skip)
          = IF Counts(c, skip) THEN Decimal(run, skip) * 10 + c - 48 ELSE Decimal(run, skip)
    BY <1>2, DecimalStep
  <2>4. QED
    BY <2>1, <2>2, <2>3
<1>10. scale' = IF IsFloat THEN Decimals(Append(run, c), skip) ELSE 0
  <2>1. scale' = IF Counts(c, skip) /\ isFraction THEN scale + 1 ELSE scale
    BY DEF Evaluate, Counts
  <2>2. Decimals(Append(run, c), skip)
          = IF Counts(c, skip) /\ HasPoint(run, skip) THEN Decimals(run, skip) + 1 ELSE Decimals(run, skip)
    BY <1>2, DecimalsStep
  <2>3. QED
    BY <1>3, <2>1, <2>2
<1>11. QED
  BY <1>2, <1>3, <1>4, <1>5, <1>6, <1>7, <1>8, <1>9, <1>10 DEF NumberFrom

\* The first character of a number.
LEMMA FirstStep ==
  ASSUME TextOK, \A k \in 1..Len(got) : ~Starts(got[k]), value = 0, ~isNegative, ~isFraction, scale = 0,
         NEW c \in Codes, Starts(c), Evaluate(c), call' = call, got' = Append(got, c),
         NEW first, first = Len(got) + 1
  PROVE  first \in 1..Len(got') /\ NumberFrom(first)'
<1> DEFINE skip == call.skip
<1>1. /\ got \in Seq(Codes) /\ Len(got) \in Nat /\ Len(got') = Len(got) + 1
      /\ got'[Len(got) + 1] = c /\ \A k \in 1..Len(got) : got'[k] = got[k]
  BY Appended DEF TextOK
<1>2. SubSeq(got', first, Len(got')) = Append(<< >>, c)
  <2>1. got \in Seq(Codes) /\ first \in 1..Len(got) + 1
    BY <1>1
  <2>2. /\ SubSeq(Append(got, c), first, Len(got) + 1) = Append(SubSeq(got, first, Len(got)), c)
        /\ first = Len(got) + 1 => SubSeq(got, first, Len(got)) = << >>
    BY <2>1, RunStep
  <2>3. SubSeq(got, first, Len(got)) = << >>
    BY <2>2
  <2>4. QED
    BY <1>1, <2>2, <2>3
<1>3. << >> \in Seq(Codes) /\ Decimal(<< >>, skip) = 0 /\ ~HasPoint(<< >>, skip)
  <2>1. << >> \in Seq(Codes) /\ Len(<< >>) = 0
    OBVIOUS
  <2>2. ~HasPoint(<< >>, skip)
    BY <2>1 DEF HasPoint
  <2>3. QED
    BY <2>1, <2>2, DecimalStep
<1>4. c # Dot
  BY DEF Starts, IsDigit, Minus, Dot
<1>5. IsFloat' = IsFloat /\ \A d : Starts(d)' = Starts(d)
  BY DEF IsFloat, Starts
<1>6. isNegative' <=> c = Minus /\ skip # Minus
  BY DEF Evaluate
<1>7. ~isFraction' /\ ~HasPoint(Append(<< >>, c), skip)
  BY <1>3, <1>4, DecimalsStep DEF Evaluate
<1>8. scale' = 0 /\ Decimals(Append(<< >>, c), skip) = 0
  BY <1>3, DecimalsStep DEF Evaluate
<1>9. ASSUME ~undefined' PROVE value' = Decimal(Append(<< >>, c), skip)
  <2>1. value' = IF Counts(c, skip) THEN value * 10 + c - 48 ELSE value
    BY <1>9 DEF Evaluate, Counts
  <2>2. Decimal(Append(<< >>, c), skip)
          = IF Counts(c, skip) THEN Decimal(<< >>, skip) * 10 + c - 48 ELSE Decimal(<< >>, skip)
    BY <1>3, DecimalStep
  <2>3. QED
    BY <1>3, <2>1, <2>2
<1>10. \A k \in 1..first - 1 : ~Starts(got'[k])
  BY <1>1
<1>11. first \in 1..Len(got') /\ got'[first] = c /\ \A k \in first + 1..Len(got') : FALSE
  BY <1>1
<1>12. QED
  BY <1>2, <1>5, <1>6, <1>7, <1>8, <1>9, <1>10, <1>11 DEF NumberFrom

\* The end of a number, at another character or at silence.
LEMMA EndStep ==
  ASSUME TextOK, NEW first \in 1..Len(got), NumberFrom(first), NEW c \in Codes, ~Within(c),
         Number(c), call' = call, silent' <=> c = 0, got' = IF c = 0 THEN got ELSE Append(got, c)
  PROVE  pc' = "idle" /\ NumberVerdict'
<1> DEFINE run == SubSeq(got, first, Len(got))
           skip == call.skip
           end == Len(got)
           size == Decimal(run, skip)
<1>1. /\ got \in Seq(Codes) /\ Len(got) \in Nat /\ got' \in Seq(Codes)
      /\ c # 0 => /\ Len(got') = Len(got) + 1 /\ got'[Len(got) + 1] = c
                  /\ \A k \in 1..Len(got) : got'[k] = got[k]
  BY Appended DEF TextOK
<1>2. (IF silent' THEN Len(got') ELSE Len(got') - 1) = end
  BY <1>1
<1>3. \A k \in 1..Len(got) : got'[k] = got[k]
  BY <1>1
<1>4. SubSeq(got', first, end) = run
  <2>1. first \in 1..Len(got) + 1
    BY <1>1
  <2>2. QED
    BY <1>1, <2>1, RunStep
<1>5. /\ Starts(got[first]) /\ \A k \in 1..first - 1 : ~Starts(got[k])
      /\ \A k \in first + 1..end : Within(got[k])
      /\ isNegative <=> got[first] = Minus /\ skip # Minus
      /\ ~undefined => value = size
      /\ scale = IF IsFloat THEN Decimals(run, skip) ELSE 0
  BY DEF NumberFrom
<1>6. /\ pc' = "idle" /\ result' = IF isNegative THEN -value ELSE value
      /\ scale' = scale /\ (~undefined' => ~undefined)
  BY DEF Number, Return, Within
<1>7. IsFloat' = IsFloat /\ \A d : Within(d)' = Within(d) /\ Starts(d)' = Starts(d)
  BY DEF IsFloat, Within, Starts
<1>8. silent' \/ ~Within(got'[Len(got')])
  BY <1>1
<1>9. /\ got'[first] = got[first] /\ \A k \in 1..first - 1 : got'[k] = got[k]
      /\ \A k \in first + 1..end : got'[k] = got[k]
  BY <1>1, <1>3
<1> HIDE DEF run, end, size
<1>10. ASSUME ~undefined' PROVE NumberRead'
  <2>1. result' = IF got[first] = Minus /\ skip # Minus THEN -size ELSE size
    BY <1>5, <1>6, <1>10
  <2>2. first \in 1..end
    BY DEF end
  <2>3. Decimal(SubSeq(got', first, end), skip) = size
    BY <1>4 DEF size
  <2>4. scale' = IF IsFloat THEN Decimals(SubSeq(got', first, end), skip) ELSE 0
    BY <1>4, <1>5, <1>6
  <2>5. /\ Starts(got'[first]) /\ \A k \in 1..first - 1 : ~Starts(got'[k])
        /\ \A k \in first + 1..end : Within(got'[k])
    BY <1>5, <1>9
  <2>6. QED
    BY <1>2, <1>7, <1>8, <1>9, <2>1, <2>2, <2>3, <2>4, <2>5 DEF NumberRead
<1>11. QED
  BY <1>6, <1>10 DEF NumberVerdict

\* A character, or silence, for getValue and getFloat.
LEMMA NumericStep ==
  ASSUME TextOK, NumberInv, pc = "read", NEW c \in Codes, Take(c), phase \in {"skip", "number"},
         call' = call, silent' <=> c = 0, got' = IF c = 0 THEN got ELSE Append(got, c)
  PROVE  NumberInv' /\ NumberVerdict'
<1>1. /\ got \in Seq(Codes) /\ Len(got) \in Nat
      /\ c # 0 => /\ Len(got') = Len(got) + 1 /\ got'[Len(got) + 1] = c
                  /\ \A k \in 1..Len(got) : got'[k] = got[k]
  BY Appended DEF TextOK
<1>2. IsFloat' = IsFloat /\ \A d : Starts(d)' = Starts(d)
  BY DEF IsFloat, Starts
<1>3. CASE phase = "skip"
  <2>1. /\ \A k \in 1..Len(got) : ~Starts(got[k])
        /\ value = 0 /\ ~isNegative /\ ~isFraction /\ scale = 0
    BY <1>3 DEF NumberInv
  <2>2. Skip(c)
    BY <1>3 DEF Take, Find, Copy, Number
  <2>3. CASE Starts(c)
    <3>1. phase' = "number" /\ Evaluate(c) /\ pc' = "read"
      BY <2>2, <2>3, SkipFacts DEF Skip, Starts, ReadOn
    <3>2. got' = Append(got, c)
      BY <2>3, SkipFacts
    <3>3. \E first \in 1..Len(got') : NumberFrom(first)'
      BY <2>1, <2>3, <3>1, <3>2, FirstStep
    <3>4. QED
      BY <3>1, <3>3 DEF NumberInv, NumberVerdict, Returned
  <2>4. CASE ~Starts(c)
    <3>1. \A k \in 1..Len(got') : ~Starts(got'[k])
      <4>1. c # 0 => \A k \in 1..Len(got') : k \in 1..Len(got) \/ k = Len(got) + 1
        BY <1>1
      <4>2. QED
        BY <1>1, <2>1, <2>4, <4>1
    <3>2. \/ c = 0 /\ ~IsFloat /\ Return(0)
          \/ ReadOn
      BY <2>2, <2>4 DEF Skip, Starts
    <3>3. phase' = "skip" /\ UNCHANGED number_vars
      BY <1>3, <2>2, <2>4 DEF Skip, Starts
    <3>4. CASE c = 0 /\ ~IsFloat /\ Return(0)
      <4>1. NumberRead'
        BY <1>2, <3>1, <3>4 DEF NumberRead, Return
      <4>2. QED
        BY <3>4, <4>1 DEF Return, NumberInv, NumberVerdict
    <3>5. CASE ReadOn
      BY <1>2, <2>1, <3>1, <3>3, <3>5 DEF ReadOn, number_vars, NumberInv, NumberVerdict, Returned
    <3>6. QED
      BY <3>2, <3>4, <3>5
  <2>5. QED
    BY <2>3, <2>4
<1>4. CASE phase = "number"
  <2>1. PICK first \in 1..Len(got) : NumberFrom(first)
    BY <1>4 DEF NumberInv
  <2>2. Number(c)
    BY <1>4 DEF Take, Find, Copy, Skip
  <2>3. CASE Within(c)
    <3>1. phase' = "number" /\ Evaluate(c) /\ pc' = "read"
      BY <1>4, <2>2, <2>3 DEF Number, Within, ReadOn
    <3>2. got' = Append(got, c)
      BY <2>3, SkipFacts
    <3>3. first \in 1..Len(got') /\ NumberFrom(first)'
      BY <2>1, <2>3, <3>1, <3>2, DigitStep
    <3>4. QED
      BY <3>1, <3>3 DEF NumberInv, NumberVerdict, Returned
  <2>4. CASE ~Within(c)
    <3>1. pc' = "idle" /\ NumberVerdict'
      BY <2>1, <2>2, <2>4, EndStep
    <3>2. QED
      BY <3>1 DEF NumberInv
  <2>5. QED
    BY <2>3, <2>4
<1>5. QED
  BY <1>3, <1>4

\* The other functions return no number.
LEMMA SearchKept ==
  ASSUME NumberInv, pc = "read", NEW c, Take(c), phase \in {"find", "copy"}, call' = call
  PROVE  NumberInv' /\ NumberVerdict'
<1>1. call.op \in {"findUntil", "getString"}
  BY DEF NumberInv
<1>2. phase' \in {"find", "copy"}
  <2>1. CASE Find(c)
    BY <2>1 DEF Find, Found, StartCopy
  <2>2. CASE Copy(c)
    BY <2>2 DEF Copy
  <2>3. QED
    BY <2>1, <2>2 DEF Take, Skip, Number
<1>3. QED
  BY <1>1, <1>2 DEF NumberInv, NumberVerdict, Returned

LEMMA NumberInit == Init => NumberInv /\ NumberVerdict
BY DEF Init, NumberInv, NumberVerdict, Returned

LEMMA NumberStep ==
  TextOK /\ NumberInv /\ NumberVerdict /\ [Next]_vars => NumberInv' /\ NumberVerdict'
<1> SUFFICES ASSUME TextOK, NumberInv, NumberVerdict, [Next]_vars
             PROVE  NumberInv' /\ NumberVerdict'
  OBVIOUS
<1>1. CASE UNCHANGED vars \/ SetTimeout \/ Spin \/ Arrive \/ Tick
  <2>1. UNCHANGED <<pc, phase, call, number_vars, result, got, silent>>
    BY <1>1 DEF vars, SetTimeout, Spin, Arrive, Tick
  <2>2. IsFloat' = IsFloat /\ (\A d : Within(d)' = Within(d)) /\ \A d : Starts(d)' = Starts(d)
    BY <2>1 DEF IsFloat, Within, Starts
  <2>3. NumberRead' <=> NumberRead
    BY <2>1, <2>2 DEF NumberRead, number_vars
  <2>4. \A first : NumberFrom(first)' <=> NumberFrom(first)
    BY <2>1, <2>2 DEF NumberFrom, number_vars
  <2>5. QED
    BY <2>1, <2>2, <2>3, <2>4 DEF NumberInv, NumberVerdict, Returned, number_vars
<1>2. CASE Begin
  <2>1. /\ got' = << >> /\ value' = 0 /\ isNegative' = FALSE /\ isFraction' = FALSE /\ scale' = 0
        /\ \/ phase' = "skip" /\ pc' = "read"
           \/ phase' \in {"find", "copy"} /\ call'.op \in {"findUntil", "getString"}
    BY <1>2 DEF Begin, StartCopy, ReadOn
  <2>2. \A k \in 1..Len(got') : FALSE
    BY <2>1
  <2>3. QED
    BY <2>1, <2>2 DEF NumberInv, NumberVerdict, Returned
<1>3. ASSUME pc = "read", NEW c \in Codes, Take(c), call' = call, silent' <=> c = 0,
             phase \in {"skip", "number"} => got' = IF c = 0 THEN got ELSE Append(got, c)
      PROVE  NumberInv' /\ NumberVerdict'
  <2>1. CASE phase \in {"skip", "number"}
    BY <1>3, <2>1, NumericStep
  <2>2. CASE phase \in {"find", "copy"}
    BY <1>3, <2>2, SearchKept
  <2>3. QED
    BY <1>3, <2>1, <2>2 DEF Take, Find, Copy, Skip, Number
<1>4. CASE GiveUp
  <2>1. pc = "read" /\ Take(0) /\ call' = call /\ silent' /\ got' = got /\ 0 \in Codes
    BY <1>4 DEF GiveUp, NUL, Codes
  <2>2. QED
    BY <1>3, <2>1
<1>5. CASE Receive
  <2> DEFINE c == Head(line)
  <2>1. /\ pc = "read" /\ Take(c) /\ call' = call /\ line # << >> /\ silent' = (c = 0)
        /\ got' = IF phase' # phase /\ phase' = "copy" THEN << >>
                  ELSE IF c = 0 THEN got ELSE Append(got, c)
    BY <1>5 DEF Receive, NUL
  <2>2. c \in Codes
    BY <2>1 DEF TextOK
  <2> HIDE DEF c
  <2>3. ASSUME phase \in {"skip", "number"} PROVE phase' # "copy"
    BY <2>1, <2>3 DEF Take, Find, Copy, Skip, Number
  <2>4. QED
    BY <1>3, <2>1, <2>2, <2>3
<1>6. QED
  BY <1>1, <1>2, <1>4, <1>5 DEF Next, Program

\* What a successful getString puts into its buffer, and what getValue and getFloat
\* return, is what was read: for every buffer, skip character and largest long, and
\* whatever the modem sends.
THEOREM ResultTheorem == Spec => []ResultIsRead
<1> DEFINE All == StringInv /\ NumberInv /\ NumberVerdict
<1>1. Init => All
  BY StringInit, NumberInit
<1>2. All /\ [Next]_vars => All'
  BY StringStep, NumberStep DEF StringInv
<1>3. All => ResultIsRead
  BY DEF StringInv, CopyVerdict, NumberVerdict, ResultIsRead
<1> HIDE DEF All
<1>4. QED
  BY <1>1, <1>2, <1>3, PTL DEF Spec
==============================================================================

---------------------------- MODULE GsmRx_proofs ----------------------------
(***************************************************************************)
(* Proofs about GsmRx, for every timeout, buffer size, range of the clock, *)
(* answer and delay of the modem.                                          *)
(***************************************************************************)
EXTENDS GsmRx, TLAPS

\* A remainder whose dividend is in range, or one turn below it.
LEMMA SmallRemainder ==
  ASSUME NEW c \in Nat \ {0}, NEW x \in 0..c - 1
  PROVE  x % c = x
BY SMT

LEMMA WrappedRemainder ==
  ASSUME NEW c \in Nat \ {0}, NEW x \in 0..c - 1
  PROVE  (x - c) % c = x
BY SMT

LEMMA FullRemainder ==
  ASSUME NEW c \in Nat \ {0}
  PROVE  c % c = 0
BY SMT

\* The difference of two readings of a clock that wraps.
LEMMA Difference ==
  ASSUME NEW t \in Tmouts, NEW u \in Tmouts
  PROVE  (t - u) % ClockMod = IF u <= t THEN t - u ELSE t - u + ClockMod
<1>1. ClockMod \in Nat \ {0} /\ t \in 0..ClockMod - 1 /\ u \in 0..ClockMod - 1
  BY GsmAssumption DEF GsmAssumption, Tmouts
<1>2. CASE u <= t
  <2>1. t - u \in 0..ClockMod - 1
    BY <1>1, <1>2
  <2>2. QED
    BY <1>1, <1>2, <2>1, SmallRemainder
<1>3. CASE t < u
  <2> DEFINE x == t - u + ClockMod
  <2>1. x \in 0..ClockMod - 1 /\ t - u = x - ClockMod
    BY <1>1, <1>3
  <2> HIDE DEF x
  <2>2. (x - ClockMod) % ClockMod = x
    BY <1>1, <2>1, WrappedRemainder
  <2>3. (t - u) % ClockMod = x
    BY <2>1, <2>2
  <2>4. QED
    BY <1>1, <1>3, <2>3 DEF x
<1>4. QED
  BY <1>1, <1>2, <1>3

LEMMA ClockStep ==
  ASSUME NEW t \in Tmouts
  PROVE  (t + 1) % ClockMod = IF t + 1 < ClockMod THEN t + 1 ELSE 0
<1>1. ClockMod \in Nat \ {0} /\ t \in 0..ClockMod - 1
  BY GsmAssumption DEF GsmAssumption, Tmouts
<1>2. CASE t + 1 < ClockMod
  <2>1. t + 1 \in 0..ClockMod - 1
    BY <1>1, <1>2
  <2>2. QED
    BY <1>1, <1>2, <2>1, SmallRemainder
<1>3. CASE t + 1 >= ClockMod
  <2>1. t + 1 = ClockMod
    BY <1>1, <1>3
  <2>2. QED
    BY <1>1, <2>1, FullRemainder
<1>4. QED
  BY <1>1, <1>2, <1>3

\* What ReadBytes keeps of the characters received.
LEMMA KeptBytes ==
  ASSUME NEW buf \in Seq(TaggedChars), NEW more \in Seq(TaggedChars), NEW kept \in Nat,
         kept = IF Len(buf \o more) < CommBufLen THEN Len(buf \o more) ELSE CommBufLen
  PROVE  /\ SubSeq(buf \o more, 1, kept) \in Seq(TaggedChars)
         /\ Len(SubSeq(buf \o more, 1, kept)) = kept
         /\ kept <= CommBufLen
         /\ (buf # << >> \/ more # << >>) => kept > 0
<1>1. buf \o more \in Seq(TaggedChars) /\ Len(buf \o more) = Len(buf) + Len(more)
  OBVIOUS
<1>2. CommBufLen \in Nat /\ CommBufLen > 0
  BY GsmAssumption DEF GsmAssumption
<1>3. kept <= Len(buf \o more) /\ kept <= CommBufLen
  BY <1>1, <1>2
<1>4. (buf # << >> \/ more # << >>) => Len(buf) + Len(more) > 0
  OBVIOUS
<1>5. QED
  BY <1>1, <1>2, <1>3, <1>4

LEMMA AnswerText ==
  ASSUME NEW text \in Answers \cup {<< >>}
  PROVE  text \in Seq(Chars)
<1>1. Answers \subseteq Seq(Chars) /\ << >> \in Seq(Chars)
  BY GsmAssumption DEF GsmAssumption
<1>2. QED
  BY <1>1

LEMMA TaggedType ==
  ASSUME NEW text \in Seq(Chars), NEW n \in Nat
  PROVE  Tagged(text, n) \in Seq(TaggedChars)
<1>1. DOMAIN text = 1..Len(text) /\ Len(text) \in Nat
  OBVIOUS
<1>2. \A k \in 1..Len(text) : [ch |-> text[k], of |-> n] \in TaggedChars
  BY DEF TaggedChars
<1>3. Tagged(text, n) \in [1..Len(text) -> TaggedChars]
  BY <1>1, <1>2 DEF Tagged
<1>4. QED
  BY <1>1, <1>3

\* The loop over a call's attempts.
LEMMA FirstAttempt ==
  ASSUME NEW n \in 1..255
  PROVE  0 \in 0..n - 1
OBVIOUS

LEMMA NextAttempt ==
  ASSUME NEW n \in 1..255, NEW k \in 0..n - 1, k + 1 < n
  PROVE  k + 1 \in 0..n - 1
OBVIOUS

----------------------------------------------------------------------------
(* Types.                                                                  *)

LEMMA TypeInit == Init => TypeOK
<1> SUFFICES ASSUME Init PROVE TypeOK
  OBVIOUS
<1>1. ClockMod \in Nat \ {0} /\ 0 \in Tmouts
  BY GsmAssumption DEF GsmAssumption, Tmouts
<1>2. call \in Calls /\ call.attempts \in 1..255
  BY GsmAssumption DEF GsmAssumption, Init
<1>3. uart \in Seq(TaggedChars) /\ Len(uart) <= RxBufLen
  BY GsmAssumption DEF GsmAssumption, Init
<1>4. comm_buf \in Seq(TaggedChars) /\ Len(comm_buf) <= CommBufLen
  BY GsmAssumption DEF GsmAssumption, Init
<1>5. calls \in 0..MaxCalls
  BY GsmAssumption DEF GsmAssumption, Init
<1>6. rx_tmouts \in [start : Tmouts, gap : Tmouts] /\ silent \in 0..ClockMod
  BY <1>1 DEF Init
<1>7. attempt \in 0..call.attempts - 1
  BY <1>2, FirstAttempt DEF Init
<1>8. inbox \in Seq(Nat) /\ out \in Seq(TaggedChars)
  BY DEF Init
<1>9. now \in Tmouts /\ prev_time \in Tmouts
  BY <1>1 DEF Init
<1>10. {draining, drained} \subseteq BOOLEAN
  BY DEF Init
<1>11. lag \in Nat /\ {sent, base, last, quiet} \subseteq Nat
  BY DEF Init
<1>12. /\ rx_state = "NOT_STARTED" /\ status = "NOT_FINISHED" /\ pc = "idle"
       /\ ret_val = "NO_RESP"
  BY DEF Init
<1>13. QED
  BY <1>2, <1>3, <1>4, <1>5, <1>6, <1>7, <1>8, <1>9, <1>10, <1>11, <1>12 DEF TypeOK, Pcs

\* One lemma per actor: first the modem and the clock.
LEMMA ModemType == TypeOK /\ (Modem \/ Tick) => TypeOK'
<1> SUFFICES ASSUME TypeOK, Modem \/ Tick PROVE TypeOK'
  OBVIOUS
<1> USE DEF TypeOK, rx_vars, prog_vars, modem_vars
<1>1. CASE ModemAnswers
  <2>1. PICK text \in Answers \cup {<< >>} : out' = Tagged(text, Head(inbox))
    BY <1>1 DEF ModemAnswers
  <2>2. text \in Seq(Chars)
    BY AnswerText
  <2>3. Head(inbox) \in Nat /\ Tail(inbox) \in Seq(Nat)
    BY <1>1 DEF ModemAnswers
  <2>4. out' \in Seq(TaggedChars)
    BY <2>1, <2>2, <2>3, TaggedType
  <2>5. QED
    BY <1>1, <2>3, <2>4 DEF ModemAnswers
<1>2. CASE ModemSends
  <2>1. Head(out) \in TaggedChars /\ Tail(out) \in Seq(TaggedChars)
    BY <1>2 DEF ModemSends
  <2>2. uart' \in Seq(TaggedChars) /\ Len(uart') <= RxBufLen
    BY SMTT(40), <1>2, <2>1, GsmAssumption DEF ModemSends, GsmAssumption
  <2>3. QED
    BY <1>2, <2>1, <2>2 DEF ModemSends
<1>3. CASE Tick
  <2>1. now' \in Tmouts
    <3>1. ClockMod \in Nat \ {0} /\ now' = (now + 1) % ClockMod
      BY <1>3, GsmAssumption DEF Tick, GsmAssumption
    <3>2. QED
      BY <3>1, ClockStep DEF Tmouts
  <2>2. lag' \in Nat /\ quiet' \in Nat
    BY <1>3 DEF Tick
  <2>3. silent' \in 0..ClockMod
    BY SMTT(40), <1>3, GsmAssumption DEF Tick, GsmAssumption
  <2>4. QED
    BY <1>3, <2>1, <2>2, <2>3 DEF Tick
<1>4. QED
  BY <1>1, <1>2, <1>3 DEF Modem

\* The receive state machine.
LEMMA ReceiveType ==
  ASSUME TypeOK,
         RxInit \/ NoneAvailable \/ FirstAvailable \/ TestStartTmout \/ ReadBytes \/ TestGap
  PROVE  TypeOK'
<1> USE DEF TypeOK, rx_vars, modem_vars, Polled, Pcs
<1>1. CASE RxInit
  <2>1. rx_tmouts' \in [start : Tmouts, gap : Tmouts]
    BY <1>1, GsmAssumption DEF RxInit, GsmAssumption
  <2>2. << >> \in Seq(TaggedChars) /\ Len(<< >>) <= RxBufLen /\ Len(<< >>) <= CommBufLen
    BY GsmAssumption DEF GsmAssumption
  <2>3. 0 \in 0..ClockMod
    BY GsmAssumption DEF GsmAssumption
  <2>4. QED
    BY <1>1, <2>1, <2>2, <2>3 DEF RxInit
<1>2. CASE NoneAvailable
  BY <1>2 DEF NoneAvailable
<1>3. CASE FirstAvailable
  BY <1>3, GsmAssumption DEF FirstAvailable, GsmAssumption
<1>4. CASE TestStartTmout
  BY <1>4 DEF TestStartTmout
<1>5. CASE ReadBytes
  <2> DEFINE kept == IF Len(comm_buf \o uart) < CommBufLen THEN Len(comm_buf \o uart)
                                                           ELSE CommBufLen
  <2>1. kept \in Nat
    BY GsmAssumption DEF GsmAssumption
  <2>2. comm_buf' = SubSeq(comm_buf \o uart, 1, kept)
    BY <1>5 DEF ReadBytes
  <2>3. comm_buf' \in Seq(TaggedChars) /\ Len(comm_buf') <= CommBufLen
    BY SMTT(40), <2>1, <2>2, KeptBytes
  <2>4. last' \in Nat
    <3>1. uart # << >> => uart[Len(uart)] \in TaggedChars
      OBVIOUS
    <3>2. QED
      BY <1>5, <3>1 DEF ReadBytes, TaggedChars
  <2>5. uart' = << >> /\ prev_time' \in Tmouts /\ silent' \in 0..ClockMod
    BY <1>5, GsmAssumption DEF ReadBytes, GsmAssumption
  <2>6. uart' \in Seq(TaggedChars) /\ Len(uart') <= RxBufLen
    BY <2>5, GsmAssumption DEF GsmAssumption
  <2>7. QED
    BY <1>5, <2>3, <2>4, <2>5, <2>6 DEF ReadBytes
<1>6. CASE TestGap
  BY <1>6 DEF TestGap
<1>7. QED
  BY <1>1, <1>2, <1>3, <1>4, <1>5, <1>6

\* SendATCmdWaitResp.
LEMMA CallType ==
  ASSUME TypeOK, CallStarts \/ DelayEnds \/ Println \/ AttemptEnds \/ CallEnds
  PROVE  TypeOK'
<1> USE DEF TypeOK, rx_vars, modem_vars, Pcs
<1>1. CASE CallStarts
  <2>1. call' \in Calls /\ call'.attempts \in 1..255
    BY <1>1, GsmAssumption DEF CallStarts, GsmAssumption
  <2>2. calls' \in 0..MaxCalls
    BY <1>1, GsmAssumption DEF CallStarts, GsmAssumption
  <2>3. attempt' \in 0..call'.attempts - 1
    BY <1>1, <2>1, FirstAttempt DEF CallStarts
  <2>4. base' \in Nat /\ lag' \in Nat
    BY <1>1 DEF CallStarts
  <2>5. QED
    BY <1>1, <2>1, <2>2, <2>3, <2>4 DEF CallStarts
<1>2. CASE DelayEnds
  BY <1>2 DEF DelayEnds
<1>3. CASE Println
  BY <1>3 DEF Println
<1>4. CASE AttemptEnds
  <2>1. ret_val' \in {"NO_RESP", "DIF_RESP", "OK"}
    BY <1>4 DEF AttemptEnds, Result
  <2>2. call.attempts \in 1..255
    BY GsmAssumption DEF GsmAssumption
  <2>3. attempt' \in 0..call.attempts - 1
    <3>1. attempt \in 0..call.attempts - 1
      OBVIOUS
    <3>2. CASE attempt' = attempt
      BY <3>1, <3>2
    <3>3. CASE attempt + 1 < call.attempts /\ attempt' = attempt + 1
      BY <2>2, <3>1, <3>3, NextAttempt
    <3>4. QED
      BY <1>4, <3>2, <3>3 DEF AttemptEnds
  <2>4. {draining', drained'} \subseteq BOOLEAN /\ pc' \in Pcs
    BY <1>4 DEF AttemptEnds
  <2>5. QED
    BY <1>4, <2>1, <2>3, <2>4 DEF AttemptEnds
<1>5. CASE CallEnds
  BY <1>5 DEF CallEnds
<1>6. QED
  BY <1>1, <1>2, <1>3, <1>4, <1>5

LEMMA TypeStep == TypeOK /\ [Next]_vars => TypeOK'
<1>1. ASSUME TypeOK, UNCHANGED vars PROVE TypeOK'
  BY <1>1 DEF TypeOK, vars, rx_vars, prog_vars, modem_vars
<1>2. QED
  BY <1>1, ModemType, ReceiveType, CallType DEF Next, Program

\* Every variable keeps its type, the indices and lengths among them: an answer
\* never grows past comm_buf, nor a call past its number of attempts.
THEOREM TypeCorrect == Spec => []TypeOK
<1>1. QED
  BY TypeInit, TypeStep, PTL DEF Spec

----------------------------------------------------------------------------
(* The timeouts.                                                           *)

\* What makes TimeoutsAreReal inductive, for a program in the middle of a wait.
WaitInv ==
  \* The clock measures the silence as long as it is shorter than a whole turn.
  /\ silent < ClockMod => Elapsed = silent
  \* Nothing is stored before something was available, and the state changes
  \* only when there is something to store.
  /\ rx_state = "NOT_STARTED" => comm_buf = << >>
  /\ (pc = "poll" /\ rx_state = "ALREADY_STARTED") => (comm_buf # << >> \/ uart # << >>)
  \* Each timeout is tested in its own state.
  /\ pc = "start_tmout" => rx_state = "NOT_STARTED"
  /\ pc = "gap" => comm_buf # << >>
  \* The result is that of the present wait.
  /\ pc \in {"poll", "start_tmout", "gap"} => status = "NOT_FINISHED"

TimeoutInv == WaitInv /\ TimeoutsAreReal

LEMMA TimeoutInit == Init => TimeoutInv
<1> SUFFICES ASSUME Init PROVE TimeoutInv
  OBVIOUS
<1>1. Elapsed = 0
  BY GsmAssumption, Difference DEF Init, Elapsed, Tmouts, GsmAssumption
<1>2. QED
  BY <1>1 DEF Init, TimeoutInv, WaitInv, TimeoutsAreReal

\* Time passes for the clock and for the silence alike.
LEMMA TickElapsed ==
  ASSUME TypeOK, Tick, silent < ClockMod => Elapsed = silent
  PROVE  silent' < ClockMod => Elapsed' = silent'
<1> SUFFICES ASSUME silent' < ClockMod PROVE Elapsed' = silent'
  OBVIOUS
<1>1. /\ ClockMod \in Nat \ {0} /\ now \in Tmouts /\ prev_time \in Tmouts
      /\ silent \in 0..ClockMod
  BY GsmAssumption DEF GsmAssumption, TypeOK
<1>2. prev_time' = prev_time /\ silent < ClockMod /\ silent' = silent + 1
  BY <1>1 DEF Tick, rx_vars
<1>3. now' = IF now + 1 < ClockMod THEN now + 1 ELSE 0
  BY <1>1, ClockStep DEF Tick
<1>4. now' \in Tmouts
  BY <1>1, <1>3 DEF Tmouts
<1>5. silent = IF prev_time <= now THEN now - prev_time ELSE now - prev_time + ClockMod
  BY <1>1, <1>2, Difference DEF Elapsed
<1>6. Elapsed' = IF prev_time <= now' THEN now' - prev_time ELSE now' - prev_time + ClockMod
  BY <1>1, <1>2, <1>4, Difference DEF Elapsed
<1>7. QED
  BY <1>1, <1>2, <1>3, <1>5, <1>6 DEF Tmouts

\* Whatever sets prev_time to the present starts both from zero.
LEMMA ResetElapsed ==
  ASSUME TypeOK, prev_time' = now, now' = now, silent' = 0
  PROVE  Elapsed' = silent'
<1>1. now \in Tmouts
  BY DEF TypeOK
<1>2. (now - now) % ClockMod = 0
  BY <1>1, Difference DEF Tmouts
<1>3. QED
  BY <1>2 DEF Elapsed

\* A wait that the clock calls over is over, also after a whole turn of it.
LEMMA ElapsedIsSilent ==
  ASSUME TypeOK, silent < ClockMod => Elapsed = silent, NEW t \in Tmouts, Elapsed >= t
  PROVE  silent >= t
<1>1. ClockMod \in Nat /\ silent \in 0..ClockMod /\ t \in 0..ClockMod - 1
  BY GsmAssumption DEF TypeOK, Tmouts, GsmAssumption
<1>2. CASE silent < ClockMod
  BY <1>2
<1>3. CASE silent = ClockMod
  BY <1>1, <1>3
<1>4. QED
  BY <1>1, <1>2, <1>3

LEMMA TimeoutStep == TypeOK /\ TimeoutInv /\ [Next]_vars => TimeoutInv'
<1> SUFFICES ASSUME TypeOK, TimeoutInv, [Next]_vars PROVE TimeoutInv'
  OBVIOUS
<1> USE DEF TimeoutInv
<1>1. ASSUME UNCHANGED <<now, prev_time, silent>>
      PROVE  silent' < ClockMod => Elapsed' = silent'
  BY <1>1 DEF WaitInv, Elapsed
<1>2. CASE UNCHANGED vars
  BY <1>2 DEF vars, rx_vars, prog_vars, WaitInv, TimeoutsAreReal, Elapsed
<1>3. CASE Modem
  <2>1. UNCHANGED <<now, rx_vars, prog_vars, silent>>
    BY <1>3 DEF Modem, ModemAnswers, ModemSends
  <2>2. uart # << >> => uart' # << >>
    BY <1>3 DEF Modem, ModemAnswers, ModemSends, TypeOK
  <2>3. QED
    BY <1>1, <2>1, <2>2 DEF rx_vars, prog_vars, WaitInv, TimeoutsAreReal
<1>4. CASE Tick
  <2>1. silent' < ClockMod => Elapsed' = silent'
    BY <1>4, TickElapsed DEF WaitInv
  <2>2. silent' >= silent
    BY <1>4 DEF Tick, TypeOK
  <2>3. silent \in Nat /\ silent' \in Nat /\ rx_tmouts.start \in Nat /\ rx_tmouts.gap \in Nat
    BY <1>4, GsmAssumption DEF Tick, TypeOK, Tmouts, GsmAssumption
  <2>4. UNCHANGED rx_vars
    BY <1>4 DEF Tick
  <2>5. TimeoutsAreReal'
    BY <2>2, <2>3, <2>4 DEF rx_vars, TimeoutsAreReal
  <2>6. QED
    BY <1>4, <2>1, <2>5 DEF Tick, rx_vars, prog_vars, WaitInv
<1>5. CASE CallStarts \/ DelayEnds \/ Println \/ AttemptEnds \/ CallEnds
  <2>1. UNCHANGED <<now, rx_vars, silent>> /\ pc' \in {"println", "rxinit", "delay", "idle"}
    BY <1>5 DEF CallStarts, DelayEnds, Println, AttemptEnds, CallEnds
  <2>2. QED
    BY <1>1, <2>1 DEF rx_vars, WaitInv, TimeoutsAreReal
<1>6. CASE RxInit
  BY <1>6, ResetElapsed DEF RxInit, WaitInv, TimeoutsAreReal
<1>7. CASE NoneAvailable
  BY <1>1, <1>7 DEF NoneAvailable, Polled, rx_vars, WaitInv, TimeoutsAreReal
<1>8. CASE FirstAvailable
  BY <1>8, ResetElapsed DEF FirstAvailable, Polled, WaitInv, TimeoutsAreReal
<1>9. CASE TestStartTmout
  <2>1. rx_tmouts.start \in Tmouts
    BY DEF TypeOK
  <2>2. Elapsed >= rx_tmouts.start => silent >= rx_tmouts.start
    BY <2>1, ElapsedIsSilent DEF WaitInv
  <2>3. QED
    BY <1>1, <1>9, <2>2 DEF TestStartTmout, Polled, WaitInv, TimeoutsAreReal
<1>10. CASE ReadBytes
  <2>1. silent' < ClockMod => Elapsed' = silent'
    BY <1>1, <1>10, ResetElapsed DEF ReadBytes, Polled
  <2> DEFINE kept == IF Len(comm_buf \o uart) < CommBufLen THEN Len(comm_buf \o uart)
                                                           ELSE CommBufLen
  <2>2. kept \in Nat /\ comm_buf \in Seq(TaggedChars) /\ uart \in Seq(TaggedChars)
    BY GsmAssumption DEF GsmAssumption, TypeOK
  <2>3. comm_buf # << >> \/ uart # << >>
    BY <1>10 DEF ReadBytes, WaitInv
  <2>4. comm_buf' = SubSeq(comm_buf \o uart, 1, kept)
    BY <1>10 DEF ReadBytes
  <2>5. Len(comm_buf') > 0
    BY <2>2, <2>3, <2>4, KeptBytes
  <2>6. comm_buf' # << >>
    BY <2>5
  <2>7. QED
    BY <1>10, <2>1, <2>6 DEF ReadBytes, Polled, WaitInv, TimeoutsAreReal
<1>11. CASE TestGap
  <2>1. rx_tmouts.gap \in Tmouts
    BY DEF TypeOK
  <2>2. Elapsed >= rx_tmouts.gap => silent >= rx_tmouts.gap
    BY <2>1, ElapsedIsSilent DEF WaitInv
  <2>3. QED
    BY <1>1, <1>11, <2>2 DEF TestGap, Polled, WaitInv, TimeoutsAreReal
<1>12. QED
  BY <1>2, <1>3, <1>4, <1>5, <1>6, <1>7, <1>8, <1>9, <1>10, <1>11 DEF Next, Program

\* A wait is given up only after its full timeout of silence, also across any
\* number of turns of millis(), and "finished" never means an empty buffer: for
\* every timeout that an unsigned long can hold and any behaviour of the modem.
THEOREM TimeoutsTheorem == Spec => []TimeoutsAreReal
<1>1. TypeOK /\ TimeoutInv /\ [Next]_vars => TypeOK' /\ TimeoutInv'
  BY TypeStep, TimeoutStep
<1>2. Init => TypeOK /\ TimeoutInv
  BY TypeInit, TimeoutInit
<1>3. TimeoutInv => TimeoutsAreReal
  BY DEF TimeoutInv
<1>4. QED
  BY <1>1, <1>2, <1>3, PTL DEF Spec

----------------------------------------------------------------------------
(* Whole answers.                                                          *)

\* Command n is older than any that waits for its answer.
Older(n, box, latest) == n \in Nat /\ n <= latest /\ \A k \in 1..Len(box) : n < box[k]

NumberInv ==
  /\ \A k \in 1..Len(inbox) : inbox[k] \in Nat /\ 0 < inbox[k] /\ inbox[k] <= sent
  /\ \A k, l \in 1..Len(inbox) : k < l => inbox[k] < inbox[l]
  /\ Older(last, inbox, sent)
  /\ \A k \in 1..Len(uart) : uart[k].of > 0 /\ Older(uart[k].of, inbox, sent)
  /\ \A k \in 1..Len(out) : out[k].of > 0 /\ Older(out[k].of, inbox, sent)

\* While the rest of an answer is outstanding, the silence is not longer than the
\* modem's pause, or than the pause and the program's delay.
PaceInv ==
  /\ out # << >> => quiet <= MaxGap
  /\ pc = "gap" => lag <= MaxLag
  /\ (uart = << >> /\ out # << >> /\ out[1].of = last) => silent <= quiet
  /\ (pc = "gap" /\ uart # << >> /\ uart[1].of = last) => silent <= MaxGap + lag

\* WholeAnswer, by where the rest of the answer would be.
RestInv ==
  (status = "FINISHED" /\ MaxGap + MaxLag < rx_tmouts.gap) =>
    /\ uart # << >> => uart[1].of # last
    /\ (uart = << >> /\ out # << >>) => out[1].of # last

WholeInv == NumberInv /\ PaceInv /\ RestInv

LEMMA WholeInit == Init => WholeInv
<1> SUFFICES ASSUME Init PROVE WholeInv
  OBVIOUS
<1>1. NumberInv
  BY DEF Init, NumberInv, Older
<1>2. PaceInv /\ RestInv
  BY DEF Init, PaceInv, RestInv
<1>3. QED
  BY <1>1, <1>2 DEF WholeInv

LEMMA NumberStep == TypeOK /\ NumberInv /\ [Next]_vars => NumberInv'
<1> SUFFICES ASSUME TypeOK, NumberInv, [Next]_vars PROVE NumberInv'
  OBVIOUS
<1>1. /\ inbox \in Seq(Nat) /\ out \in Seq(TaggedChars) /\ uart \in Seq(TaggedChars)
      /\ sent \in Nat /\ last \in Nat
  BY DEF TypeOK
<1>2. ASSUME UNCHANGED <<inbox, uart, out, last, sent>> PROVE NumberInv'
  BY <1>2 DEF NumberInv, Older
<1>3. CASE UNCHANGED vars
  BY <1>2, <1>3 DEF vars, rx_vars, prog_vars, modem_vars
<1>4. CASE ModemAnswers
  <2>1. /\ inbox # << >> /\ inbox' = Tail(inbox) /\ UNCHANGED <<uart, last, sent>>
    BY <1>4 DEF ModemAnswers, rx_vars, prog_vars
  <2>2. PICK text \in Answers \cup {<< >>} : out' = Tagged(text, Head(inbox))
    BY <1>4 DEF ModemAnswers
  <2>3. /\ Len(inbox') = Len(inbox) - 1 /\ \A k \in 1..Len(inbox') : inbox'[k] = inbox[k + 1]
    BY <1>1, <2>1
  <2>4. /\ Len(inbox) \in Nat /\ 1 \in 1..Len(inbox)
        /\ \A k \in 1..Len(inbox') : k + 1 \in 1..Len(inbox) /\ 1 < k + 1
    BY <1>1, <2>1, <2>3
  <2>5. \A n : Older(n, inbox, sent) => Older(n, inbox', sent')
    <3>1. ASSUME NEW n, Older(n, inbox, sent), NEW k \in 1..Len(inbox') PROVE n < inbox'[k]
      BY <2>3, <2>4, <3>1 DEF Older
    <3>2. QED
      BY <2>1, <3>1 DEF Older
  <2>6. Head(inbox) = inbox[1] /\ inbox[1] > 0 /\ Older(inbox[1], inbox', sent')
    <3>1. \A k \in 1..Len(inbox') : inbox[1] < inbox'[k]
      BY <2>3, <2>4 DEF NumberInv
    <3>2. inbox[1] \in Nat /\ inbox[1] > 0 /\ inbox[1] <= sent
      BY <2>4 DEF NumberInv
    <3>3. Head(inbox) = inbox[1]
      BY <1>1, <2>1
    <3>4. QED
      BY <2>1, <3>1, <3>2, <3>3 DEF Older
  <2>7. \A k \in 1..Len(out') : out'[k].of > 0 /\ Older(out'[k].of, inbox', sent')
    <3>1. text \in Seq(Chars)
      BY AnswerText
    <3>2. Len(out') = Len(text) /\ \A k \in 1..Len(out') : out'[k].of = inbox[1]
      BY <2>2, <2>6, <3>1 DEF Tagged
    <3>3. QED
      BY <2>6, <3>2
  <2>8. \A k \in 1..Len(inbox') : inbox'[k] \in Nat /\ 0 < inbox'[k] /\ inbox'[k] <= sent
    BY <2>3, <2>4 DEF NumberInv
  <2>9. \A k, l \in 1..Len(inbox') : k < l => inbox'[k] < inbox'[l]
    BY SMTT(40), <2>3, <2>4 DEF NumberInv
  <2>10. QED
    BY <2>1, <2>5, <2>7, <2>8, <2>9 DEF NumberInv
<1>5. CASE ModemSends
  <2>1. /\ out # << >> /\ out' = Tail(out) /\ UNCHANGED <<inbox, last, sent>>
        /\ uart' = IF Len(uart) < RxBufLen THEN Append(uart, Head(out)) ELSE uart
    BY <1>5 DEF ModemSends, rx_vars, prog_vars
  <2>2. \A n : Older(n, inbox', sent') <=> Older(n, inbox, sent)
    BY <2>1 DEF Older
  <2>3. /\ \A k \in 1..Len(out') : k + 1 \in 1..Len(out) /\ out'[k] = out[k + 1]
        /\ Head(out) = out[1] /\ 1 \in 1..Len(out)
    BY <1>1, <2>1
  <2>4. \A k \in 1..Len(uart') : (k \in 1..Len(uart) /\ uart'[k] = uart[k]) \/ uart'[k] = out[1]
    BY <1>1, <2>1, <2>3
  <2>5. QED
    BY <2>1, <2>2, <2>3, <2>4 DEF NumberInv
<1>6. CASE Tick
  BY <1>2, <1>6 DEF Tick, rx_vars, prog_vars, modem_vars
<1>7. CASE Println
  <2>1. sent' = sent + 1 /\ inbox' = Append(inbox, sent + 1) /\ UNCHANGED <<uart, out, last>>
    BY <1>7 DEF Println, rx_vars
  <2>2. /\ Len(inbox') = Len(inbox) + 1 /\ Len(inbox) \in Nat
        /\ \A k \in 1..Len(inbox') : (k \in 1..Len(inbox) /\ inbox'[k] = inbox[k])
                                     \/ (k = Len(inbox) + 1 /\ inbox'[k] = sent + 1)
    BY <1>1, <2>1
  <2>3. \A n : Older(n, inbox, sent) => Older(n, inbox', sent')
    BY <1>1, <2>1, <2>2 DEF Older
  <2>4. \A k \in 1..Len(inbox') : inbox'[k] \in Nat /\ 0 < inbox'[k] /\ inbox'[k] <= sent'
    BY <1>1, <2>1, <2>2 DEF NumberInv
  <2>5. ASSUME NEW k \in 1..Len(inbox'), NEW l \in 1..Len(inbox'), k < l
        PROVE  inbox'[k] < inbox'[l]
    <3>1. k \in 1..Len(inbox) /\ inbox'[k] = inbox[k]
      BY <2>2, <2>5
    <3>2. inbox[k] \in Nat /\ inbox[k] <= sent
      BY <3>1 DEF NumberInv
    <3>3. CASE l \in 1..Len(inbox) /\ inbox'[l] = inbox[l]
      BY <2>5, <3>1, <3>3 DEF NumberInv
    <3>4. CASE inbox'[l] = sent + 1
      BY <1>1, <3>1, <3>2, <3>4
    <3>5. QED
      BY <2>2, <3>3, <3>4
  <2>6. QED
    BY <2>1, <2>3, <2>4, <2>5 DEF NumberInv
<1>8. CASE RxInit
  <2>1. uart' = << >> /\ last' = 0 /\ UNCHANGED <<inbox, out, sent>>
    BY <1>8 DEF RxInit, modem_vars
  <2>2. \A n : Older(n, inbox', sent') <=> Older(n, inbox, sent)
    BY <2>1 DEF Older
  <2>3. Older(0, inbox, sent)
    BY <1>1 DEF NumberInv, Older
  <2>4. QED
    BY <2>1, <2>2, <2>3 DEF NumberInv
<1>9. CASE ReadBytes
  <2>1. /\ uart' = << >> /\ UNCHANGED <<inbox, out, sent>>
        /\ last' = IF uart = << >> THEN last ELSE uart[Len(uart)].of
    BY <1>9 DEF ReadBytes, Polled, modem_vars
  <2>2. \A n : Older(n, inbox', sent') <=> Older(n, inbox, sent)
    BY <2>1 DEF Older
  <2>3. Older(last', inbox, sent)
    <3>1. uart # << >> => Len(uart) \in 1..Len(uart)
      BY <1>1
    <3>2. QED
      BY <2>1, <3>1 DEF NumberInv
  <2>4. QED
    BY <2>1, <2>2, <2>3 DEF NumberInv
<1>10. CASE \/ NoneAvailable \/ FirstAvailable \/ TestStartTmout \/ TestGap
            \/ CallStarts \/ DelayEnds \/ AttemptEnds \/ CallEnds
  BY <1>2, <1>10 DEF NoneAvailable, FirstAvailable, TestStartTmout, TestGap, Polled, CallStarts,
     DelayEnds, AttemptEnds, CallEnds, rx_vars, modem_vars
<1>11. QED
  BY <1>3, <1>4, <1>5, <1>6, <1>7, <1>8, <1>9, <1>10 DEF Next, Modem, Program

\* A character that arrives is the first to be read only in an empty buffer.
LEMMA FirstUnread ==
  ASSUME NEW buf \in Seq(TaggedChars), NEW queue \in Seq(TaggedChars), queue # << >>, NEW next,
         next = IF Len(buf) < RxBufLen THEN Append(buf, Head(queue)) ELSE buf
  PROVE  next # << >> /\ next[1] = IF buf = << >> THEN queue[1] ELSE buf[1]
<1>1. RxBufLen \in Nat /\ RxBufLen > 0
  BY GsmAssumption DEF GsmAssumption
<1>2. CASE buf = << >>
  BY <1>1, <1>2
<1>3. CASE buf # << >> /\ Len(buf) < RxBufLen
  <2>1. Head(queue) \in TaggedChars /\ Len(buf) \in Nat /\ Len(buf) >= 1
    BY <1>3
  <2>2. next = Append(buf, Head(queue))
    BY <1>3
  <2>3. QED
    BY <1>3, <2>1, <2>2
<1>4. CASE buf # << >> /\ ~(Len(buf) < RxBufLen)
  BY <1>4
<1>5. QED
  BY <1>2, <1>3, <1>4

LEMMA PaceStep == TypeOK /\ NumberInv /\ PaceInv /\ [Next]_vars => PaceInv'
<1> SUFFICES ASSUME TypeOK, NumberInv, PaceInv, [Next]_vars PROVE PaceInv'
  OBVIOUS
<1>1. /\ inbox \in Seq(Nat) /\ out \in Seq(TaggedChars) /\ uart \in Seq(TaggedChars)
      /\ last \in Nat /\ quiet \in Nat /\ lag \in Nat /\ silent \in Nat
      /\ {MaxGap, MaxLag} \subseteq Nat /\ ClockMod \in Nat /\ RxBufLen \in Nat /\ RxBufLen > 0
  <2>1. /\ inbox \in Seq(Nat) /\ out \in Seq(TaggedChars) /\ uart \in Seq(TaggedChars)
        /\ last \in Nat /\ quiet \in Nat /\ lag \in Nat /\ silent \in 0..ClockMod
    BY DEF TypeOK
  <2>2. {MaxGap, MaxLag} \subseteq Nat /\ ClockMod \in Nat /\ RxBufLen \in Nat /\ RxBufLen > 0
    BY GsmAssumption
  <2>3. QED
    BY <2>1, <2>2
<1>2. CASE UNCHANGED vars
  BY <1>2 DEF vars, rx_vars, prog_vars, modem_vars, PaceInv
<1>3. CASE ModemAnswers
  <2>1. /\ inbox # << >> /\ out = << >> /\ quiet' = 0 /\ UNCHANGED <<uart, last, silent, lag, pc>>
    BY <1>3 DEF ModemAnswers, rx_vars, prog_vars
  <2>2. PICK text \in Answers \cup {<< >>} : out' = Tagged(text, Head(inbox))
    BY <1>3 DEF ModemAnswers
  <2>3. Head(inbox) # last
    <3>1. 1 \in 1..Len(inbox) /\ Head(inbox) = inbox[1]
      BY <1>1, <2>1
    <3>2. QED
      BY <1>1, <3>1 DEF NumberInv, Older
  <2>4. out' # << >> => out'[1].of = Head(inbox)
    <3>1. text \in Seq(Chars)
      BY AnswerText
    <3>2. QED
      BY <2>2, <3>1 DEF Tagged
  <2>5. QED
    BY <1>1, <2>1, <2>3, <2>4 DEF PaceInv
<1>4. CASE ModemSends
  <2>1. /\ out # << >> /\ quiet' = 0 /\ UNCHANGED <<last, silent, lag, pc>>
        /\ uart' = IF Len(uart) < RxBufLen THEN Append(uart, Head(out)) ELSE uart
    BY <1>4 DEF ModemSends, rx_vars, prog_vars
  <2>2. uart' # << >> /\ uart'[1] = IF uart = << >> THEN out[1] ELSE uart[1]
    BY <1>1, <2>1, FirstUnread
  <2>3. (pc = "gap" /\ uart'[1].of = last) => silent <= MaxGap + lag
    BY <1>1, <2>1, <2>2 DEF PaceInv
  <2>4. QED
    BY <1>1, <2>1, <2>2, <2>3 DEF PaceInv
<1>5. CASE Tick
  <2>1. /\ UNCHANGED <<uart, out, last, pc>> /\ silent' <= silent + 1
        /\ pc = "gap" => lag < MaxLag /\ lag' = lag + 1
        /\ out # << >> => quiet < MaxGap /\ quiet' = quiet + 1
    BY <1>1, <1>5 DEF Tick, ModemBusy, rx_vars, prog_vars, modem_vars
  <2>2. silent' \in Nat /\ lag' \in Nat /\ quiet' \in Nat
    BY <1>1, <1>5 DEF Tick
  <2>3. QED
    BY <1>1, <2>1, <2>2 DEF PaceInv
<1>6. CASE RxInit
  <2>1. /\ uart' = << >> /\ last' = 0 /\ pc' = "poll" /\ UNCHANGED <<out, quiet>>
    BY <1>6 DEF RxInit, modem_vars
  <2>2. out # << >> => out[1].of # 0
    <3>1. out # << >> => 1 \in 1..Len(out)
      BY <1>1
    <3>2. QED
      BY <3>1 DEF NumberInv
  <2>3. QED
    BY <2>1, <2>2 DEF PaceInv
<1>7. CASE ReadBytes
  <2>1. /\ uart' = << >> /\ pc' = "gap" /\ lag' = 0 /\ UNCHANGED <<out, quiet>>
        /\ last' = IF uart = << >> THEN last ELSE uart[Len(uart)].of
        /\ silent' = IF uart = << >> THEN silent ELSE 0
    BY <1>7 DEF ReadBytes, Polled, modem_vars
  <2>2. QED
    BY <1>1, <2>1 DEF PaceInv
<1>8. CASE FirstAvailable
  <2>1. /\ UNCHANGED <<uart, out, quiet, last>> /\ pc' = "poll" /\ silent' = 0
    BY <1>8 DEF FirstAvailable, Polled, modem_vars
  <2>2. QED
    BY <1>1, <2>1 DEF PaceInv
<1>9. CASE \/ NoneAvailable \/ TestStartTmout \/ TestGap
           \/ CallStarts \/ DelayEnds \/ Println \/ AttemptEnds \/ CallEnds
  <2>1. /\ UNCHANGED <<uart, out, quiet, last, silent>> /\ pc' # "gap"
    BY <1>9 DEF NoneAvailable, TestStartTmout, TestGap, Polled, CallStarts, DelayEnds, Println,
       AttemptEnds, CallEnds, rx_vars, modem_vars
  <2>2. QED
    BY <2>1 DEF PaceInv
<1>10. QED
  BY <1>2, <1>3, <1>4, <1>5, <1>6, <1>7, <1>8, <1>9 DEF Next, Modem, Program

LEMMA RestStep ==
  TypeOK /\ TimeoutInv /\ NumberInv /\ PaceInv /\ RestInv /\ [Next]_vars => RestInv'
<1> SUFFICES ASSUME TypeOK, TimeoutInv, NumberInv, PaceInv, RestInv, [Next]_vars PROVE RestInv'
  OBVIOUS
<1>1. /\ inbox \in Seq(Nat) /\ out \in Seq(TaggedChars) /\ uart \in Seq(TaggedChars)
      /\ last \in Nat /\ quiet \in Nat /\ lag \in Nat /\ silent \in Nat
      /\ {MaxGap, MaxLag} \subseteq Nat /\ RxBufLen \in Nat /\ RxBufLen > 0
      /\ rx_tmouts.gap \in Tmouts /\ rx_tmouts.gap \in Nat
  <2>1. rx_tmouts.gap \in Tmouts
    BY DEF TypeOK
  <2>2. rx_tmouts.gap \in Nat /\ silent \in Nat
    BY <2>1, GsmAssumption DEF TypeOK, Tmouts, GsmAssumption
  <2>3. /\ inbox \in Seq(Nat) /\ out \in Seq(TaggedChars) /\ uart \in Seq(TaggedChars)
        /\ last \in Nat /\ quiet \in Nat /\ lag \in Nat
    BY DEF TypeOK
  <2>4. {MaxGap, MaxLag} \subseteq Nat /\ RxBufLen \in Nat /\ RxBufLen > 0
    BY GsmAssumption
  <2>5. QED
    BY <2>1, <2>2, <2>3, <2>4
<1>2. ASSUME UNCHANGED <<uart, out, last, status, rx_tmouts>> PROVE RestInv'
  BY <1>2 DEF RestInv
<1>3. ASSUME status' # "FINISHED" PROVE RestInv'
  BY <1>3 DEF RestInv
<1>4. CASE UNCHANGED vars
  BY <1>2, <1>4 DEF vars, rx_vars, modem_vars
<1>5. CASE ModemAnswers
  <2>1. /\ inbox # << >> /\ out = << >> /\ UNCHANGED <<uart, last, status, rx_tmouts>>
    BY <1>5 DEF ModemAnswers, rx_vars
  <2>2. PICK text \in Answers \cup {<< >>} : out' = Tagged(text, Head(inbox))
    BY <1>5 DEF ModemAnswers
  <2>3. Head(inbox) # last
    <3>1. 1 \in 1..Len(inbox) /\ Head(inbox) = inbox[1]
      BY <1>1, <2>1
    <3>2. QED
      BY <1>1, <3>1 DEF NumberInv, Older
  <2>4. out' # << >> => out'[1].of = Head(inbox)
    <3>1. text \in Seq(Chars)
      BY AnswerText
    <3>2. QED
      BY <2>2, <3>1 DEF Tagged
  <2>5. QED
    BY <2>1, <2>3, <2>4 DEF RestInv
<1>6. CASE ModemSends
  <2>1. /\ out # << >> /\ UNCHANGED <<last, status, rx_tmouts>>
        /\ uart' = IF Len(uart) < RxBufLen THEN Append(uart, Head(out)) ELSE uart
    BY <1>6 DEF ModemSends, rx_vars
  <2>2. uart' # << >> /\ uart'[1] = IF uart = << >> THEN out[1] ELSE uart[1]
    BY <1>1, <2>1, FirstUnread
  <2>3. QED
    BY <2>1, <2>2 DEF RestInv
\* The wait ends after a silence that is too long for a pause in an answer.
<1>7. CASE TestGap
  <2>1. /\ pc = "gap" /\ UNCHANGED <<uart, out, last, rx_tmouts>>
        /\ status' = status \/ (status' = "FINISHED" /\ Elapsed >= rx_tmouts.gap)
    BY <1>7 DEF TestGap, Polled, modem_vars
  <2>2. CASE status' = status
    BY <1>2, <2>1, <2>2
  <2>3. CASE Elapsed >= rx_tmouts.gap
    <3>1. silent >= rx_tmouts.gap
      BY <1>1, <2>3, ElapsedIsSilent DEF TimeoutInv, WaitInv
    <3>2. SUFFICES ASSUME MaxGap + MaxLag < rx_tmouts.gap
                   PROVE  /\ uart # << >> => uart[1].of # last
                          /\ (uart = << >> /\ out # << >>) => out[1].of # last
      BY <2>1 DEF RestInv
    <3>3. lag <= MaxLag /\ (out # << >> => quiet <= MaxGap)
      BY <2>1 DEF PaceInv
    <3>4. QED
      BY SMTT(40), <1>1, <2>1, <3>1, <3>2, <3>3 DEF PaceInv
  <2>4. QED
    BY <2>1, <2>2, <2>3
<1>8. CASE RxInit
  BY <1>3, <1>8 DEF RxInit
<1>9. CASE ReadBytes
  BY <1>3, <1>9 DEF ReadBytes, Polled, TimeoutInv, WaitInv
<1>10. CASE TestStartTmout
  BY <1>3, <1>10 DEF TestStartTmout, Polled, TimeoutInv, WaitInv
<1>11. CASE \/ NoneAvailable \/ FirstAvailable \/ Tick
            \/ CallStarts \/ DelayEnds \/ Println \/ AttemptEnds \/ CallEnds
  BY <1>2, <1>11 DEF NoneAvailable, FirstAvailable, Tick, Polled, CallStarts, DelayEnds, Println,
     AttemptEnds, CallEnds, rx_vars, modem_vars
<1>12. QED
  BY <1>4, <1>5, <1>6, <1>7, <1>8, <1>9, <1>10, <1>11 DEF Next, Modem, Program

\* IsRxFinished never cuts an answer in two: for every timeout, buffer size, clock
\* and answer, if the modem's pauses and the program's delays stay below the
\* inter-character timeout, what is unread or unsent when a wait finishes is
\* another command's answer.
THEOREM AnswersAreWhole == Spec => []WholeAnswer
<1> DEFINE All == TypeOK /\ TimeoutInv /\ WholeInv
<1>1. Init => All
  BY TypeInit, TimeoutInit, WholeInit
<1>2. All /\ [Next]_vars => All'
  BY TypeStep, TimeoutStep, NumberStep, PaceStep, RestStep DEF WholeInv
<1>3. All => WholeAnswer
  <2> SUFFICES ASSUME TypeOK, RestInv PROVE WholeAnswer
    BY DEF WholeInv
  <2>1. uart \in Seq(TaggedChars) /\ out \in Seq(TaggedChars)
    BY DEF TypeOK
  <2>2. uart \o out # << >> =>
           /\ uart # << >> \/ out # << >>
           /\ Head(uart \o out) = IF uart # << >> THEN uart[1] ELSE out[1]
    BY <2>1
  <2>3. QED
    BY <2>2 DEF WholeAnswer, RestInv
<1> HIDE DEF All
<1>4. QED
  BY <1>1, <1>2, <1>3, PTL DEF Spec

----------------------------------------------------------------------------
(* Whose answer it is.                                                     *)

Waiting == pc \in {"poll", "start_tmout", "gap"}

Shorter(wait) == IF wait.start < wait.gap THEN wait.start ELSE wait.gap

\* What the program is waiting for, and how long it lets the receiver wait.
RoleInv ==
  /\ (Waiting \/ pc = "after") =>
       /\ rx_tmouts.start = IF draining THEN DrainStart ELSE call.start
       /\ rx_tmouts.gap = IF draining THEN DrainGap ELSE call.gap
  /\ draining => call.drains /\ (Waiting \/ pc \in {"rxinit", "after"})
  /\ base <= sent
  /\ Waiting => lag <= MaxLag

\* The modem is never late.
QuietInv ==
  /\ out # << >> => quiet <= MaxGap
  /\ (out = << >> /\ inbox # << >>) => quiet <= MaxLatency
  /\ (out = << >> /\ inbox = << >>) => quiet = 0

\* A second command goes unanswered only at the last moment before the modem
\* begins with the answer to the first.
BacklogInv ==
  /\ Len(inbox) \in {0, 1, 2}
  /\ Len(inbox) = 2 =>
       /\ out = << >> /\ quiet = MaxLatency /\ ~draining
       /\ pc = "rxinit" \/ (Waiting /\ silent = 0)

\* The silence of a wait is bounded by what the modem is still doing.
ListenInv ==
  LET awaited == IF inbox # << >> THEN 0 ELSE MaxLatency
  IN  /\ (Waiting /\ uart = << >> /\ (out # << >> \/ inbox # << >>)) => silent <= quiet + awaited
      /\ (pc \in {"start_tmout", "gap"} /\ uart # << >>) => silent <= lag + MaxGap + awaited

\* A wait that was given up has used up most of the modem's latency, the delay
\* before the next attempt uses up the rest, and a final WaitResp outlasts it all.
BetweenInv ==
  /\ (pc \in {"after", "delay", "idle", "println"} /\ ~draining /\ inbox # << >>) =>
       /\ out = << >>
       /\ pc = "after" => quiet >= Shorter(call)
       /\ pc = "delay" => quiet >= Shorter(call) + lag
       /\ pc \in {"idle", "println"} => quiet >= MaxLatency
  /\ ((pc = "after" /\ draining) \/ (pc = "idle" /\ drained)) => out = << >> /\ inbox = << >>

\* After such a WaitResp everything under way answers the present call.
OwnInv ==
  drained =>
    /\ \A k \in 1..Len(inbox) : inbox[k] > base
    /\ \A k \in 1..Len(out) : out[k].of > base
    /\ (Waiting \/ pc = "after") =>
         /\ \A k \in 1..Len(uart) : uart[k].of > base
         /\ \A k \in 1..Len(comm_buf) : comm_buf[k].of > base

PacedInv == BacklogInv /\ ListenInv /\ BetweenInv /\ OwnInv

\* The types that these proofs count with.
LEMMA Numbers ==
  ASSUME TypeOK
  PROVE  /\ inbox \in Seq(Nat) /\ out \in Seq(TaggedChars) /\ uart \in Seq(TaggedChars)
         /\ comm_buf \in Seq(TaggedChars)
         /\ {sent, base, quiet, lag, silent} \subseteq Nat
         /\ {MaxGap, MaxLag, MaxLatency, RetryDelay, RxBufLen, CommBufLen} \subseteq Nat
         /\ RxBufLen > 0 /\ CommBufLen > 0
         /\ {call.start, call.gap, rx_tmouts.start, rx_tmouts.gap, DrainStart, DrainGap} \subseteq Nat
         /\ call \in Calls /\ {draining, drained} \subseteq BOOLEAN
<1>1. Tmouts \subseteq Nat /\ 0..ClockMod \subseteq Nat
  BY GsmAssumption DEF GsmAssumption, Tmouts
<1>2. /\ inbox \in Seq(Nat) /\ out \in Seq(TaggedChars) /\ uart \in Seq(TaggedChars)
      /\ comm_buf \in Seq(TaggedChars) /\ {draining, drained} \subseteq BOOLEAN /\ call \in Calls
      /\ {sent, base, quiet, lag} \subseteq Nat /\ silent \in 0..ClockMod
      /\ {rx_tmouts.start, rx_tmouts.gap} \subseteq Tmouts
  BY DEF TypeOK
<1>3. {call.start, call.gap} \subseteq Tmouts
  BY <1>2, GsmAssumption DEF GsmAssumption
<1>4. /\ {MaxGap, MaxLag, MaxLatency, RetryDelay, RxBufLen, CommBufLen} \subseteq Nat
      /\ RxBufLen > 0 /\ CommBufLen > 0 /\ {DrainStart, DrainGap} \subseteq Tmouts
  BY GsmAssumption DEF GsmAssumption
<1>5. QED
  BY <1>1, <1>2, <1>3, <1>4

\* ModemKeepsPace, for the shorter of a call's two timeouts.
LEMMA Paced ==
  ASSUME ModemKeepsPace, TypeOK
  PROVE  /\ MaxGap + MaxLag < Shorter(call)
         /\ MaxLatency <= Shorter(call) + RetryDelay
         /\ ~call.drains => MaxLatency <= Shorter(call)
         /\ MaxLatency + MaxGap + MaxLag < DrainStart /\ MaxLatency + MaxGap + MaxLag < DrainGap
         /\ Shorter(call) \in Nat /\ Shorter(call) <= call.start /\ Shorter(call) <= call.gap
<1>1. call \in Calls /\ {call.start, call.gap, MaxLatency, MaxGap, MaxLag, RetryDelay} \subseteq Nat
  BY Numbers
<1>2. \A wait \in {call.start, call.gap} :
        MaxGap + MaxLag < wait /\ MaxLatency <= wait + (IF call.drains THEN RetryDelay ELSE 0)
  BY <1>1 DEF ModemKeepsPace
<1>3. MaxLatency + MaxGap + MaxLag < DrainStart /\ MaxLatency + MaxGap + MaxLag < DrainGap
  BY DEF ModemKeepsPace
<1>4. Shorter(call) \in {call.start, call.gap} /\ Shorter(call) <= call.start /\ Shorter(call) <= call.gap
  BY <1>1 DEF Shorter
<1>5. /\ MaxGap + MaxLag < Shorter(call)
      /\ MaxLatency <= Shorter(call) + (IF call.drains THEN RetryDelay ELSE 0)
  BY <1>2, <1>4
<1>6. QED
  BY <1>1, <1>3, <1>4, <1>5

LEMMA RoleStep == TypeOK /\ RoleInv /\ [Next]_vars => RoleInv'
<1> SUFFICES ASSUME TypeOK, RoleInv, [Next]_vars PROVE RoleInv'
  OBVIOUS
<1>1. {sent, base, lag, MaxLag} \subseteq Nat
  BY Numbers
<1>2. CASE UNCHANGED vars \/ Modem
  <2>1. UNCHANGED <<lag, rx_tmouts, pc, draining, call, base, sent>>
    BY <1>2 DEF vars, rx_vars, prog_vars, Modem, ModemAnswers, ModemSends
  <2>2. QED
    BY <2>1 DEF RoleInv, Waiting
<1>3. CASE Tick
  <2>1. /\ UNCHANGED <<rx_tmouts, pc, draining, call, base, sent>>
        /\ Waiting => lag < MaxLag /\ lag' = lag + 1
    BY <1>3 DEF Tick, rx_vars, prog_vars, Waiting
  <2>2. QED
    BY <1>1, <2>1 DEF RoleInv, Waiting
<1>4. CASE RxInit
  BY <1>1, <1>4 DEF RxInit, RoleInv, Waiting
<1>5. CASE NoneAvailable \/ FirstAvailable \/ TestStartTmout \/ ReadBytes \/ TestGap
  <2>1. /\ UNCHANGED <<rx_tmouts, draining, call, base, sent>> /\ lag' = 0
        /\ Waiting /\ pc' \in {"poll", "start_tmout", "gap", "after"}
    BY <1>5 DEF NoneAvailable, FirstAvailable, TestStartTmout, ReadBytes, TestGap, Polled,
       rx_vars, Waiting
  <2>2. QED
    BY <1>1, <2>1 DEF RoleInv, Waiting
<1>6. CASE CallStarts \/ DelayEnds \/ CallEnds
  <2>1. /\ pc' \in {"println", "idle"} /\ pc \in {"idle", "delay", "after"}
        /\ draining' = FALSE \/ (draining' = draining /\ pc = "delay")
        /\ UNCHANGED sent /\ base' \in {base, sent}
    BY <1>6 DEF CallStarts, DelayEnds, CallEnds
  <2>2. QED
    BY <1>1, <2>1 DEF RoleInv, Waiting
<1>7. CASE Println
  BY <1>1, <1>7 DEF Println, RoleInv, Waiting
<1>8. CASE AttemptEnds
  BY <1>1, <1>8 DEF AttemptEnds, RoleInv, Waiting
<1>9. QED
  BY <1>2, <1>3, <1>4, <1>5, <1>6, <1>7, <1>8 DEF Next, Program

LEMMA QuietStep == TypeOK /\ QuietInv /\ [Next]_vars => QuietInv'
<1> SUFFICES ASSUME TypeOK, QuietInv, [Next]_vars PROVE QuietInv'
  OBVIOUS
<1>1. {quiet, MaxGap, MaxLatency} \subseteq Nat /\ inbox \in Seq(Nat)
  BY Numbers
<1>2. CASE Modem
  BY <1>1, <1>2 DEF Modem, ModemAnswers, ModemSends, QuietInv
<1>3. CASE Tick
  <2>1. /\ UNCHANGED <<inbox, out>>
        /\ ModemBusy => quiet < (IF out # << >> THEN MaxGap ELSE MaxLatency) /\ quiet' = quiet + 1
        /\ ~ModemBusy => quiet' = 0
    BY <1>3 DEF Tick, modem_vars
  <2>2. QED
    BY <1>1, <2>1 DEF QuietInv, ModemBusy
<1>4. CASE Println
  <2>1. UNCHANGED <<out, quiet>> /\ inbox' = Append(inbox, sent + 1)
    BY <1>4 DEF Println
  <2>2. QED
    BY <1>1, <2>1 DEF QuietInv
<1>5. CASE \/ UNCHANGED vars \/ RxInit \/ NoneAvailable \/ FirstAvailable \/ TestStartTmout
           \/ ReadBytes \/ TestGap \/ CallStarts \/ DelayEnds \/ AttemptEnds \/ CallEnds
  <2>1. UNCHANGED <<inbox, out, quiet>>
    BY <1>5 DEF vars, RxInit, NoneAvailable, FirstAvailable, TestStartTmout, ReadBytes, TestGap,
       Polled, CallStarts, DelayEnds, AttemptEnds, CallEnds, modem_vars
  <2>2. QED
    BY <2>1 DEF QuietInv
<1>6. QED
  BY <1>2, <1>3, <1>4, <1>5 DEF Next, Program

\* A wait is over: the modem is late with its next answer, or has none to give.
LEMMA WaitIsOver ==
  ASSUME ModemKeepsPace, TypeOK, TimeoutInv, RoleInv, QuietInv, ListenInv,
         TestStartTmout \/ TestGap, pc' = "after"
  PROVE  /\ silent > 0
         /\ (~draining /\ inbox # << >>) => out = << >> /\ quiet >= Shorter(call)
         /\ draining => out = << >> /\ inbox = << >>
<1>1. /\ {quiet, lag, silent, MaxGap, MaxLag, MaxLatency, RetryDelay} \subseteq Nat
      /\ {call.start, call.gap, rx_tmouts.start, rx_tmouts.gap, DrainStart, DrainGap} \subseteq Nat
  BY Numbers
<1>2. Waiting /\ pc \in {"start_tmout", "gap"} /\ lag <= MaxLag
  BY DEF TestStartTmout, TestGap, Waiting, RoleInv
<1>3. /\ rx_tmouts.start = IF draining THEN DrainStart ELSE call.start
      /\ rx_tmouts.gap = IF draining THEN DrainGap ELSE call.gap
  BY <1>2 DEF RoleInv
<1>4. silent >= rx_tmouts.start \/ silent >= rx_tmouts.gap
  <2>1. rx_tmouts.start \in Tmouts /\ rx_tmouts.gap \in Tmouts
    BY DEF TypeOK
  <2>2. Elapsed >= rx_tmouts.start \/ Elapsed >= rx_tmouts.gap
    BY <1>2 DEF TestStartTmout, TestGap, Polled
  <2>3. QED
    BY <2>1, <2>2, ElapsedIsSilent DEF TimeoutInv, WaitInv
<1>5. ASSUME draining PROVE silent > MaxLatency + MaxGap + MaxLag
  BY <1>1, <1>3, <1>4, <1>5, Paced
<1>6. ASSUME ~draining PROVE silent >= Shorter(call) /\ silent > MaxGap + MaxLag
  BY <1>1, <1>3, <1>4, <1>6, Paced
<1>7. ASSUME inbox # << >>, silent > MaxGap + MaxLag PROVE out = << >> /\ quiet >= silent
  <2>1. uart = << >>
    BY <1>1, <1>2, <1>7 DEF ListenInv
  <2>2. silent <= quiet
    BY <1>1, <1>2, <1>7, <2>1 DEF ListenInv
  <2>3. QED
    BY <1>1, <1>7, <2>2 DEF QuietInv
<1>8. ASSUME inbox = << >>, silent > MaxLatency + MaxGap + MaxLag PROVE out = << >>
  <2>1. uart = << >>
    BY <1>1, <1>2, <1>8 DEF ListenInv
  <2>2. out # << >> => silent <= quiet + MaxLatency
    BY <1>1, <1>2, <1>8, <2>1 DEF ListenInv
  <2>3. QED
    BY <1>1, <1>8, <2>2 DEF QuietInv
<1>9. CASE draining
  <2>1. silent > MaxLatency + MaxGap + MaxLag
    BY <1>5, <1>9
  <2>2. inbox # << >> => quiet > MaxLatency /\ out = << >>
    BY <1>1, <1>7, <2>1
  <2>3. inbox = << >>
    BY <1>1, <2>2 DEF QuietInv
  <2>4. QED
    BY <1>1, <1>8, <1>9, <2>1, <2>3
<1>10. CASE ~draining
  <2>1. silent >= Shorter(call) /\ silent > MaxGap + MaxLag /\ Shorter(call) \in Nat
    BY <1>6, <1>10, Paced
  <2>2. QED
    BY <1>1, <1>7, <1>10, <2>1
<1>11. QED
  BY <1>9, <1>10

\* How many commands are waiting.
LEMMA Backlog ==
  ASSUME TypeOK, BacklogInv
  PROVE  /\ Len(inbox) \in {0, 1, 2} /\ (inbox = << >> <=> Len(inbox) = 0)
         /\ \A n \in Nat : Len(Append(inbox, n)) = Len(inbox) + 1
         /\ inbox # << >> => Len(Tail(inbox)) \in {0, 1}
         /\ Len(inbox) = 1 => Tail(inbox) = << >>
<1>1. inbox \in Seq(Nat) /\ Len(inbox) \in {0, 1, 2}
  BY Numbers DEF BacklogInv
<1>2. inbox = << >> <=> Len(inbox) = 0
  BY <1>1
<1>3. inbox # << >> => Tail(inbox) \in Seq(Nat) /\ Len(Tail(inbox)) = Len(inbox) - 1
  BY <1>1
<1>4. \A n \in Nat : Len(Append(inbox, n)) = Len(inbox) + 1
  BY <1>1
<1>5. inbox # << >> => Len(Tail(inbox)) \in {0, 1}
  BY <1>1, <1>2, <1>3
<1>6. \A q \in Seq(Nat) : Len(q) = 0 => q = << >>
  OBVIOUS
<1>7. ASSUME Len(inbox) = 1 PROVE Tail(inbox) = << >>
  <2>1. Tail(inbox) \in Seq(Nat) /\ Len(Tail(inbox)) = Len(inbox) - 1
    BY <1>2, <1>3, <1>7
  <2>2. Len(Tail(inbox)) = 0
    BY <1>7, <2>1
  <2>3. QED
    BY <1>6, <2>1, <2>2
<1>8. QED
  BY <1>1, <1>2, <1>4, <1>5, <1>7

LEMMA BacklogStep ==
  ASSUME ModemKeepsPace, TypeOK, TimeoutInv, RoleInv, QuietInv, PacedInv, [Next]_vars
  PROVE  BacklogInv'
<1> USE DEF PacedInv
<1>1. {quiet, silent, sent, MaxLatency} \subseteq Nat /\ Len(inbox) \in {0, 1, 2}
  BY Numbers, Backlog
<1>2. ASSUME UNCHANGED <<inbox, out, quiet, draining>>, Len(inbox) # 2 PROVE BacklogInv'
  BY <1>2 DEF BacklogInv
<1>3. CASE UNCHANGED vars
  BY <1>3 DEF vars, rx_vars, prog_vars, modem_vars, BacklogInv, Waiting
<1>4. CASE ModemAnswers
  <2>1. inbox' = Tail(inbox) /\ inbox # << >>
    BY <1>4 DEF ModemAnswers
  <2>2. Len(inbox') \in {0, 1}
    BY <2>1, Backlog
  <2>3. QED
    BY <2>2 DEF BacklogInv
<1>5. CASE ModemSends
  BY <1>2, <1>5, <1>1 DEF ModemSends, BacklogInv
<1>6. CASE Tick
  <2>1. Len(inbox) # 2
    <3>1. SUFFICES ASSUME Len(inbox) = 2 PROVE FALSE
      OBVIOUS
    <3>2. out = << >> /\ inbox # << >> /\ quiet = MaxLatency
      BY <3>1, Backlog DEF BacklogInv
    <3>3. QED
      BY <1>1, <1>6, <3>2 DEF Tick, ModemBusy
  <2>2. QED
    BY <1>1, <1>6, <2>1 DEF Tick, modem_vars, BacklogInv
<1>7. CASE Println
  <2>1. /\ pc = "println" /\ pc' = "rxinit" /\ UNCHANGED <<out, quiet, draining>>
        /\ inbox' = Append(inbox, sent + 1)
    BY <1>7 DEF Println
  <2>2. ~draining /\ Len(inbox) # 2
    BY <2>1 DEF RoleInv, BacklogInv, Waiting
  <2>3. Len(inbox') = Len(inbox) + 1 /\ (Len(inbox) = 1 => inbox # << >>)
    <3>1. sent + 1 \in Nat
      BY <1>1
    <3>2. Len(inbox') = Len(inbox) + 1
      BY <2>1, <3>1, Backlog
    <3>3. Len(inbox) = 1 => inbox # << >>
      BY Backlog
    <3>4. QED
      BY <3>2, <3>3
  <2>4. inbox # << >> => out = << >> /\ quiet = MaxLatency
    BY <1>1, <2>1, <2>2 DEF BetweenInv, QuietInv
  <2>5. QED
    <3>1. CASE Len(inbox) = 0
      <4>1. Len(inbox') = 1
        BY <2>3, <3>1
      <4>2. QED
        BY <4>1 DEF BacklogInv
    <3>2. CASE Len(inbox) = 1
      <4>1. Len(inbox') = 2 /\ out = << >> /\ quiet = MaxLatency
        BY <2>3, <2>4, <3>2
      <4>2. QED
        BY <2>1, <2>2, <4>1 DEF BacklogInv
    <3>3. QED
      BY <1>1, <2>2, <3>1, <3>2
<1>8. CASE RxInit
  BY <1>1, <1>8 DEF RxInit, modem_vars, BacklogInv, Waiting
<1>9. CASE NoneAvailable \/ FirstAvailable \/ TestStartTmout \/ ReadBytes \/ TestGap
  <2>1. /\ UNCHANGED <<inbox, out, quiet, draining>> /\ Waiting
        /\ silent' \in {silent, 0} /\ pc' \in {"poll", "start_tmout", "gap", "after"}
        /\ pc' = "after" => TestStartTmout \/ TestGap
    BY <1>9 DEF NoneAvailable, FirstAvailable, TestStartTmout, ReadBytes, TestGap, Polled,
       modem_vars, Waiting
  <2>2. pc' = "after" => silent > 0
    BY <2>1, WaitIsOver
  <2>3. Waiting => pc # "rxinit"
    BY DEF Waiting
  <2>4. QED
    BY <1>1, <2>1, <2>2, <2>3 DEF BacklogInv, Waiting
<1>10. CASE CallStarts \/ DelayEnds \/ AttemptEnds \/ CallEnds
  <2>1. UNCHANGED <<inbox, out, quiet>> /\ pc \in {"idle", "delay", "after"}
    BY <1>10 DEF CallStarts, DelayEnds, AttemptEnds, CallEnds, modem_vars
  <2>2. Len(inbox) # 2
    BY <2>1 DEF BacklogInv, Waiting
  <2>3. QED
    BY <1>1, <2>1, <2>2 DEF BacklogInv
<1>11. QED
  BY <1>3, <1>4, <1>5, <1>6, <1>7, <1>8, <1>9, <1>10 DEF Next, Modem, Program

LEMMA ListenStep ==
  ASSUME ModemKeepsPace, TypeOK, TimeoutInv, RoleInv, QuietInv, PacedInv, [Next]_vars
  PROVE  ListenInv'
<1> USE DEF PacedInv
<1>1. /\ inbox \in Seq(Nat) /\ out \in Seq(TaggedChars) /\ uart \in Seq(TaggedChars)
      /\ {quiet, lag, silent, MaxGap, MaxLag, MaxLatency, RxBufLen} \subseteq Nat /\ RxBufLen > 0
  BY Numbers
<1>2. CASE UNCHANGED vars
  BY <1>2 DEF vars, rx_vars, prog_vars, modem_vars, ListenInv, Waiting
<1>3. CASE ModemAnswers
  <2>1. /\ out = << >> /\ inbox # << >> /\ inbox' = Tail(inbox) /\ quiet' = 0
        /\ UNCHANGED <<lag, uart, silent, pc>>
    BY <1>3 DEF ModemAnswers, prog_vars
  <2>2. quiet <= MaxLatency
    BY <2>1 DEF QuietInv
  <2>3. CASE Len(inbox) = 2
    <3>1. Waiting => silent = 0
      BY <2>3 DEF BacklogInv, Waiting
    <3>2. QED
      BY SMTT(40), <1>1, <2>1, <3>1 DEF ListenInv, Waiting
  <2>4. CASE Len(inbox) # 2
    <3>1. inbox' = << >>
      BY <2>1, <2>4, Backlog
    <3>2. (Waiting /\ uart = << >>) => silent <= MaxLatency
      BY <1>1, <2>1, <2>2 DEF ListenInv
    <3>3. (pc \in {"start_tmout", "gap"} /\ uart # << >>) => silent <= lag + MaxGap
      BY <1>1, <2>1 DEF ListenInv
    <3>4. QED
      BY <1>1, <2>1, <3>1, <3>2, <3>3 DEF ListenInv, Waiting
  <2>5. QED
    BY <2>3, <2>4
<1>4. CASE ModemSends
  <2>1. /\ out # << >> /\ quiet' = 0 /\ UNCHANGED <<lag, silent, pc, inbox>>
        /\ uart' = IF Len(uart) < RxBufLen THEN Append(uart, Head(out)) ELSE uart
    BY <1>4 DEF ModemSends, prog_vars
  <2>2. uart' # << >> /\ quiet <= MaxGap
    BY <1>1, <2>1, FirstUnread DEF QuietInv
  <2>3. QED
    BY SMTT(40), <1>1, <2>1, <2>2 DEF ListenInv, Waiting
<1>5. CASE Tick
  <2>1. /\ UNCHANGED <<uart, inbox, out, pc>> /\ silent' <= silent + 1
        /\ pc # "idle" => lag' = lag + 1
        /\ (out # << >> \/ inbox # << >>) => quiet' = quiet + 1
    BY <1>1, <1>5 DEF Tick, ModemBusy, prog_vars, modem_vars
  <2>2. silent' \in Nat
    BY <1>1, <1>5 DEF Tick
  <2>3. (Waiting /\ uart = << >> /\ (out # << >> \/ inbox # << >>)) =>
           silent' <= quiet' + (IF inbox # << >> THEN 0 ELSE MaxLatency)
    BY <1>1, <2>1, <2>2 DEF ListenInv
  <2>4. (pc \in {"start_tmout", "gap"} /\ uart # << >>) =>
           silent' <= lag' + MaxGap + (IF inbox # << >> THEN 0 ELSE MaxLatency)
    BY SMTT(40), <1>1, <2>1, <2>2 DEF ListenInv
  <2>5. QED
    BY <2>1, <2>3, <2>4 DEF ListenInv, Waiting
<1>6. CASE RxInit \/ FirstAvailable
  <2>1. silent' = 0 /\ pc' = "poll" /\ UNCHANGED <<inbox, out, quiet>>
    BY <1>6 DEF RxInit, FirstAvailable, Polled, modem_vars
  <2>2. QED
    BY <1>1, <2>1 DEF ListenInv
<1>7. CASE NoneAvailable
  <2>1. Waiting /\ uart = << >> /\ UNCHANGED <<uart, inbox, out, quiet, silent>>
    BY <1>7 DEF NoneAvailable, Polled, modem_vars, Waiting
  <2>2. QED
    BY <1>1, <2>1 DEF ListenInv
<1>8. CASE TestStartTmout \/ TestGap
  <2>1. Waiting /\ UNCHANGED <<uart, inbox, out, quiet, silent>> /\ pc' \in {"poll", "after"}
    BY <1>8 DEF TestStartTmout, TestGap, Polled, modem_vars, Waiting
  <2>2. QED
    BY <1>1, <2>1 DEF ListenInv
<1>9. CASE ReadBytes
  <2>1. /\ Waiting /\ uart' = << >> /\ UNCHANGED <<inbox, out, quiet>>
        /\ silent' = IF uart = << >> THEN silent ELSE 0
    BY <1>9 DEF ReadBytes, Polled, modem_vars, Waiting
  <2>2. QED
    BY <1>1, <2>1 DEF ListenInv
<1>10. CASE CallStarts \/ DelayEnds \/ Println \/ AttemptEnds \/ CallEnds
  BY <1>10 DEF CallStarts, DelayEnds, Println, AttemptEnds, CallEnds, ListenInv, Waiting
<1>11. QED
  BY <1>2, <1>3, <1>4, <1>5, <1>6, <1>7, <1>8, <1>9, <1>10 DEF Next, Modem, Program

LEMMA BetweenStep ==
  ASSUME ModemKeepsPace, TypeOK, TimeoutInv, RoleInv, QuietInv, PacedInv, [Next]_vars
  PROVE  BetweenInv'
<1> USE DEF PacedInv
<1>1. {quiet, lag, Shorter(call), MaxLatency, RetryDelay} \subseteq Nat
  BY Numbers, Paced
<1>2. CASE UNCHANGED vars
  BY <1>2 DEF vars, rx_vars, prog_vars, modem_vars, BetweenInv
<1>3. CASE ModemAnswers
  <2>1. /\ inbox # << >> /\ inbox' = Tail(inbox) /\ UNCHANGED <<pc, draining, drained>>
    BY <1>3 DEF ModemAnswers, prog_vars
  <2>2. pc \in {"after", "delay", "idle", "println"} => inbox' = << >>
    <3>1. pc \in {"after", "delay", "idle", "println"} => Len(inbox) = 1
      BY <2>1, Backlog DEF BacklogInv, Waiting
    <3>2. QED
      BY <2>1, <3>1, Backlog
  <2>3. QED
    BY <2>1, <2>2 DEF BetweenInv
<1>4. CASE ModemSends
  <2>1. out # << >> /\ UNCHANGED <<pc, draining, drained, inbox>>
    BY <1>4 DEF ModemSends, prog_vars
  <2>2. QED
    BY <2>1 DEF BetweenInv
<1>5. CASE Tick
  <2>1. /\ UNCHANGED <<pc, call, draining, drained, inbox, out>>
        /\ inbox # << >> => quiet' = quiet + 1
        /\ pc = "delay" => lag' = lag + 1
    BY <1>5 DEF Tick, ModemBusy, prog_vars, modem_vars
  <2>2. QED
    BY <1>1, <2>1 DEF BetweenInv
<1>6. CASE RxInit \/ NoneAvailable \/ FirstAvailable \/ ReadBytes
  <2>1. pc' \in {"poll", "start_tmout", "gap"}
    BY <1>6 DEF RxInit, NoneAvailable, FirstAvailable, ReadBytes, Polled
  <2>2. QED
    BY <2>1 DEF BetweenInv
<1>7. CASE TestStartTmout \/ TestGap
  <2>1. UNCHANGED <<call, draining, drained, inbox, out, quiet>> /\ pc' \in {"poll", "after"}
    BY <1>7 DEF TestStartTmout, TestGap, Polled, modem_vars
  <2>2. CASE pc' = "poll"
    BY <2>2 DEF BetweenInv
  <2>3. CASE pc' = "after"
    <3>1. /\ (~draining /\ inbox # << >>) => out = << >> /\ quiet >= Shorter(call)
          /\ draining => out = << >> /\ inbox = << >>
      BY <1>7, <2>3, WaitIsOver
    <3>2. QED
      BY <2>1, <2>3, <3>1 DEF BetweenInv
  <2>4. QED
    BY <2>1, <2>2, <2>3
<1>8. CASE CallStarts
  <2>1. pc = "idle" /\ pc' = "println" /\ UNCHANGED <<inbox, out, quiet>>
    BY <1>8 DEF CallStarts, modem_vars
  <2>2. ~draining
    BY <2>1 DEF RoleInv, Waiting
  <2>3. QED
    BY <2>1, <2>2 DEF BetweenInv
<1>9. CASE DelayEnds
  <2>1. /\ pc = "delay" /\ lag = RetryDelay /\ pc' = "println"
        /\ UNCHANGED <<inbox, out, quiet, draining>>
    BY <1>9 DEF DelayEnds, modem_vars
  <2>2. Shorter(call) + RetryDelay >= MaxLatency
    BY <1>1, Paced
  <2>3. QED
    BY <1>1, <2>1, <2>2 DEF BetweenInv
<1>10. CASE Println
  BY <1>10 DEF Println, BetweenInv
<1>11. CASE AttemptEnds
  <2>1. /\ pc = "after" /\ ~draining /\ UNCHANGED <<inbox, out, quiet, call>> /\ lag' = 0
        /\ pc' = "delay" \/ pc' = "rxinit" \/ (pc' = "idle" /\ ~call.drains /\ drained' = FALSE)
    BY <1>11 DEF AttemptEnds, modem_vars
  <2>2. inbox # << >> => out = << >> /\ quiet >= Shorter(call)
    BY <2>1 DEF BetweenInv
  <2>3. ~call.drains => MaxLatency <= Shorter(call)
    BY Paced
  <2>4. QED
    BY <1>1, <2>1, <2>2, <2>3 DEF BetweenInv
<1>12. CASE CallEnds
  <2>1. pc = "after" /\ draining /\ UNCHANGED <<inbox, out>>
    BY <1>12 DEF CallEnds, modem_vars
  <2>2. QED
    BY <2>1 DEF BetweenInv
<1>13. QED
  BY <1>2, <1>3, <1>4, <1>5, <1>6, <1>7, <1>8, <1>9, <1>10, <1>11, <1>12 DEF Next, Modem, Program

\* Characters that are moved keep their command.
LEMMA OwnChars ==
  ASSUME NEW buf \in Seq(TaggedChars), NEW more \in Seq(TaggedChars), NEW n,
         \A k \in 1..Len(buf) : buf[k].of > n, \A k \in 1..Len(more) : more[k].of > n,
         NEW kept \in Nat,
         kept = IF Len(buf \o more) < CommBufLen THEN Len(buf \o more) ELSE CommBufLen
  PROVE  \A k \in 1..Len(SubSeq(buf \o more, 1, kept)) : SubSeq(buf \o more, 1, kept)[k].of > n
<1>1. Len(buf \o more) = Len(buf) + Len(more) /\ CommBufLen \in Nat
  BY GsmAssumption DEF GsmAssumption
<1>2. kept <= Len(buf \o more) /\ Len(SubSeq(buf \o more, 1, kept)) = kept
  BY <1>1, KeptBytes
<1>3. ASSUME NEW k \in 1..kept PROVE (buf \o more)[k].of > n
  <2>1. k \in 1..Len(buf) + Len(more)
    BY <1>1, <1>2
  <2>2. CASE k <= Len(buf)
    <3>1. k \in 1..Len(buf) /\ (buf \o more)[k] = buf[k]
      BY <2>1, <2>2
    <3>2. QED
      BY <3>1
  <2>3. CASE k > Len(buf)
    <3>1. k - Len(buf) \in 1..Len(more) /\ (buf \o more)[k] = more[k - Len(buf)]
      BY <2>1, <2>3
    <3>2. QED
      BY <3>1
  <2>4. QED
    BY <2>1, <2>2, <2>3
<1>4. \A k \in 1..kept : SubSeq(buf \o more, 1, kept)[k] = (buf \o more)[k]
  BY <1>1, <1>2
<1>5. QED
  BY <1>2, <1>3, <1>4

LEMMA OwnStep ==
  ASSUME ModemKeepsPace, TypeOK, TimeoutInv, RoleInv, QuietInv, PacedInv, [Next]_vars
  PROVE  OwnInv'
<1> USE DEF PacedInv
<1>1. /\ inbox \in Seq(Nat) /\ out \in Seq(TaggedChars) /\ uart \in Seq(TaggedChars)
      /\ comm_buf \in Seq(TaggedChars) /\ {sent, base, RxBufLen} \subseteq Nat /\ base <= sent
  BY Numbers DEF RoleInv
<1>2. CASE UNCHANGED vars \/ Tick
  <2>1. UNCHANGED <<inbox, out, uart, comm_buf, base, drained, pc>>
    BY <1>2 DEF Tick, vars, rx_vars, prog_vars, modem_vars
  <2>2. QED
    BY <2>1 DEF OwnInv, Waiting
<1>3. CASE ModemAnswers
  <2>1. /\ inbox # << >> /\ inbox' = Tail(inbox) /\ UNCHANGED <<uart, comm_buf, base, drained, pc>>
    BY <1>3 DEF ModemAnswers, rx_vars, prog_vars
  <2>2. PICK text \in Answers \cup {<< >>} : out' = Tagged(text, Head(inbox))
    BY <1>3 DEF ModemAnswers
  <2>3. /\ Head(inbox) = inbox[1] /\ 1 \in 1..Len(inbox)
        /\ \A k \in 1..Len(inbox') : k + 1 \in 1..Len(inbox) /\ inbox'[k] = inbox[k + 1]
    BY <1>1, <2>1
  <2>4. \A k \in 1..Len(out') : out'[k].of = inbox[1]
    <3>1. text \in Seq(Chars)
      BY AnswerText
    <3>2. QED
      BY <2>2, <2>3, <3>1 DEF Tagged
  <2>5. QED
    BY <2>1, <2>3, <2>4 DEF OwnInv, Waiting
<1>4. CASE ModemSends
  <2>1. /\ out # << >> /\ out' = Tail(out) /\ UNCHANGED <<inbox, comm_buf, base, drained, pc>>
        /\ uart' = IF Len(uart) < RxBufLen THEN Append(uart, Head(out)) ELSE uart
    BY <1>4 DEF ModemSends, rx_vars, prog_vars
  <2>2. /\ \A k \in 1..Len(out') : k + 1 \in 1..Len(out) /\ out'[k] = out[k + 1]
        /\ Head(out) = out[1] /\ 1 \in 1..Len(out)
    BY <1>1, <2>1
  <2>3. \A k \in 1..Len(uart') : (k \in 1..Len(uart) /\ uart'[k] = uart[k]) \/ uart'[k] = out[1]
    BY <1>1, <2>1, <2>2
  <2>4. QED
    BY <2>1, <2>2, <2>3 DEF OwnInv, Waiting
<1>5. CASE RxInit
  <2>1. uart' = << >> /\ comm_buf' = << >> /\ UNCHANGED <<inbox, out, base, drained>>
    BY <1>5 DEF RxInit, modem_vars
  <2>2. QED
    BY <2>1 DEF OwnInv
<1>6. CASE NoneAvailable \/ FirstAvailable \/ TestStartTmout \/ TestGap
  <2>1. UNCHANGED <<inbox, out, uart, comm_buf, base, drained>> /\ Waiting
    BY <1>6 DEF NoneAvailable, FirstAvailable, TestStartTmout, TestGap, Polled, rx_vars,
       modem_vars, Waiting
  <2>2. QED
    BY <2>1 DEF OwnInv
<1>7. CASE ReadBytes
  <2> DEFINE kept == IF Len(comm_buf \o uart) < CommBufLen THEN Len(comm_buf \o uart)
                                                           ELSE CommBufLen
  <2>1. kept \in Nat
    BY <1>1, GsmAssumption DEF GsmAssumption
  <2>2. comm_buf' = SubSeq(comm_buf \o uart, 1, kept)
    BY <1>7 DEF ReadBytes
  <2>3. UNCHANGED <<inbox, out, base, drained>> /\ uart' = << >> /\ Waiting
    BY <1>7 DEF ReadBytes, Polled, modem_vars, Waiting
  <2>4. ASSUME drained PROVE \A k \in 1..Len(comm_buf') : comm_buf'[k].of > base
    <3>1. /\ \A k \in 1..Len(comm_buf) : comm_buf[k].of > base
          /\ \A k \in 1..Len(uart) : uart[k].of > base
      BY <2>3, <2>4 DEF OwnInv
    <3> HIDE DEF kept
    <3>2. kept = IF Len(comm_buf \o uart) < CommBufLen THEN Len(comm_buf \o uart) ELSE CommBufLen
      BY DEF kept
    <3>3. QED
      BY <1>1, <2>1, <2>2, <3>1, <3>2, OwnChars
  <2>5. QED
    BY <2>3, <2>4 DEF OwnInv
<1>8. CASE CallStarts
  <2>1. pc = "idle" /\ pc' = "println" /\ UNCHANGED <<inbox, out, drained>>
    BY <1>8 DEF CallStarts, modem_vars
  <2>2. drained => inbox = << >> /\ out = << >>
    BY <2>1 DEF BetweenInv
  <2>3. QED
    BY <2>1, <2>2 DEF OwnInv, Waiting
<1>9. CASE Println
  <2>1. /\ inbox' = Append(inbox, sent + 1) /\ pc' = "rxinit" /\ UNCHANGED <<out, base, drained>>
    BY <1>9 DEF Println
  <2>2. \A k \in 1..Len(inbox') : (k \in 1..Len(inbox) /\ inbox'[k] = inbox[k]) \/ inbox'[k] = sent + 1
    BY SMTT(40), <1>1, <2>1
  <2>3. sent + 1 > base
    BY <1>1
  <2>4. QED
    BY <2>1, <2>2, <2>3 DEF OwnInv, Waiting
<1>10. CASE DelayEnds \/ AttemptEnds
  <2>1. /\ UNCHANGED <<inbox, out, base>> /\ pc' \in {"println", "delay", "rxinit", "idle"}
        /\ drained' = drained \/ drained' = FALSE
    BY <1>10 DEF DelayEnds, AttemptEnds, modem_vars
  <2>2. QED
    BY <2>1 DEF OwnInv, Waiting
<1>11. CASE CallEnds
  <2>1. pc = "after" /\ draining /\ UNCHANGED <<inbox, out, base>> /\ pc' = "idle"
    BY <1>11 DEF CallEnds, modem_vars
  <2>2. inbox = << >> /\ out = << >>
    BY <2>1 DEF BetweenInv
  <2>3. QED
    BY <2>1, <2>2 DEF OwnInv, Waiting
<1>12. QED
  BY <1>2, <1>3, <1>4, <1>5, <1>6, <1>7, <1>8, <1>9, <1>10, <1>11 DEF Next, Modem, Program

LEMMA OwnInit == Init => RoleInv /\ QuietInv /\ PacedInv
<1> SUFFICES ASSUME Init PROVE RoleInv /\ QuietInv /\ PacedInv
  OBVIOUS
<1>1. RoleInv /\ QuietInv
  BY DEF Init, RoleInv, QuietInv, Waiting
<1>2. BacklogInv /\ ListenInv
  BY DEF Init, BacklogInv, ListenInv, Waiting
<1>3. BetweenInv /\ OwnInv
  BY DEF Init, BetweenInv, OwnInv, Waiting
<1>4. QED
  BY <1>1, <1>2, <1>3 DEF PacedInv

\* AT_RESP_OK is never due to the answer to an earlier call, provided that the
\* earlier call ended with the final WaitResp: for every set of calls, timeouts,
\* attempts, buffer sizes and answers, and any modem and program whose delays keep
\* the pace of ModemKeepsPace.
THEOREM OkTheorem == Spec => []OkIsOwn
<1> DEFINE All == /\ TypeOK /\ TimeoutInv /\ RoleInv /\ QuietInv
                  /\ ModemKeepsPace => PacedInv
<1>1. Init => All
  BY TypeInit, TimeoutInit, OwnInit
<1>2. All /\ [Next]_vars => All'
  <2> SUFFICES ASSUME All, [Next]_vars PROVE All'
    OBVIOUS
  <2>1. TypeOK' /\ TimeoutInv' /\ RoleInv' /\ QuietInv'
    BY TypeStep, TimeoutStep, RoleStep, QuietStep
  <2>2. ModemKeepsPace' => ModemKeepsPace
    BY DEF ModemKeepsPace
  <2>3. ModemKeepsPace => PacedInv'
    BY BacklogStep, ListenStep, BetweenStep, OwnStep DEF PacedInv
  <2>4. QED
    BY <2>1, <2>2, <2>3
<1>3. All => OkIsOwn
  <2> SUFFICES ASSUME All, ModemKeepsPace, pc = "after", drained,
                      NEW k \in DOMAIN comm_buf
               PROVE  comm_buf[k].of > base
    BY DEF OkIsOwn
  <2>1. k \in 1..Len(comm_buf)
    BY DEF TypeOK
  <2>2. QED
    BY <2>1 DEF PacedInv, OwnInv
<1> HIDE DEF All
<1>4. QED
  BY <1>1, <1>2, <1>3, PTL DEF Spec
=============================================================================

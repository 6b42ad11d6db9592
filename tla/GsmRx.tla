------------------------------- MODULE GsmRx -------------------------------
(***************************************************************************)
(* The link between the GSM library and the modem: GSMSHIELD/GSM.cpp from  *)
(* SendATCmdWaitResp down to the receive state machine IsRxFinished.       *)
(*                                                                         *)
(* The program sends a command, then polls the serial line.  It has no     *)
(* framing: an answer is over when nothing arrives for interchar_tmout     *)
(* milliseconds, and absent when nothing arrives for start_comm_tmout.     *)
(* The modem answers in its own time, command by command.  The clock is    *)
(* millis(), which wraps.                                                  *)
(***************************************************************************)
EXTENDS Integers, Sequences

CONSTANTS
  CommBufLen,  \* COMM_BUF_LEN
  RxBufLen,    \* size of the circular buffer of the serial port
  ClockMod,    \* range of an unsigned long
  Calls,       \* the calls of SendATCmdWaitResp that are considered
  RetryDelay,  \* delay(500)
  DrainStart, DrainGap,  \* WaitResp(1000, 5000)
  Chars, Expected,       \* the characters, and response_string
  Answers,     \* what the modem may answer
  MaxLatency,  \* bound: time until the modem begins with the next answer
  MaxGap,      \* bound: time between two characters of an answer
  MaxLag,      \* bound: time between two steps of the program
  MaxCalls     \* bound: calls of SendATCmdWaitResp

Tmouts == 0..ClockMod - 1

ASSUME GsmAssumption ==
  /\ {CommBufLen, RxBufLen, ClockMod} \subseteq Nat \ {0}
  /\ {RetryDelay, MaxLatency, MaxGap, MaxLag, MaxCalls} \subseteq Nat
  /\ {DrainStart, DrainGap} \subseteq Tmouts
  /\ Answers \subseteq Seq(Chars) /\ Expected \in Seq(Chars) \ {<< >>}
  /\ Calls \subseteq [start : Tmouts, gap : Tmouts, attempts : 1..255, drains : BOOLEAN]

VARIABLES
  now,        \* millis()
  lag,        \* time since the program's last step
  uart,       \* the circular buffer
  comm_buf,   \* the received characters; comm_buf_len is its length
  rx_state, prev_time, rx_tmouts,
  status,     \* what WaitResp returned
  pc, call,   \* where the program is, and in which call
  attempt,    \* the call's loop index i
  ret_val,
  draining,   \* in the WaitResp after the loop
  sent,       \* history: commands sent so far
  base,       \* history: commands sent before this call
  calls,      \* history: calls so far
  drained,    \* history: the previous call ended with a WaitResp
  last,       \* history: the command that the last character read belongs to
  silent,     \* history: time since prev_time was set
  inbox,      \* the modem: commands it has not answered
  out,        \* the modem: what it is still going to send of an answer
  quiet       \* the modem: time since it last did something

prog_vars == <<pc, call, attempt, ret_val, draining, sent, base, calls, drained>>
rx_vars == <<comm_buf, rx_state, prev_time, rx_tmouts, status, last>>
modem_vars == <<inbox, out>>
vars == <<now, lag, uart, rx_vars, prog_vars, silent, modem_vars, quiet>>

Pcs == {"idle", "delay", "println", "rxinit", "poll", "start_tmout", "gap", "after"}

\* Characters carry the number of the command they answer.
Tagged(text, n) == [k \in DOMAIN text |-> [ch |-> text[k], of |-> n]]
TaggedChars == [ch : Chars, of : Nat]

Init ==
  /\ now = 0
  /\ lag = 0 /\ uart = << >>
  /\ comm_buf = << >> /\ rx_state = "NOT_STARTED" /\ prev_time = 0
  /\ rx_tmouts = [start |-> 0, gap |-> 0] /\ status = "NOT_FINISHED" /\ last = 0
  /\ pc = "idle" /\ call \in Calls /\ attempt = 0 /\ ret_val = "NO_RESP"
  /\ draining = FALSE /\ sent = 0 /\ base = 0 /\ calls = 0 /\ drained = TRUE
  /\ silent = 0
  /\ inbox = << >> /\ out = << >> /\ quiet = 0

----------------------------------------------------------------------------
(* The modem, the serial port and the clock.                               *)

ModemBusy == out # << >> \/ inbox # << >>

\* An answer, or none at all, to the oldest command.
ModemAnswers ==
  /\ out = << >> /\ inbox # << >>
  /\ \E text \in Answers \cup {<< >>} : out' = Tagged(text, Head(inbox))
  /\ inbox' = Tail(inbox)
  /\ quiet' = 0
  /\ UNCHANGED <<now, lag, uart, rx_vars, prog_vars, silent>>

\* The interrupt handler of the serial port drops a character without room.
ModemSends ==
  /\ out # << >>
  /\ uart' = IF Len(uart) < RxBufLen THEN Append(uart, Head(out)) ELSE uart
  /\ out' = Tail(out)
  /\ quiet' = 0
  /\ UNCHANGED <<now, lag, rx_vars, prog_vars, silent, inbox>>

Modem == ModemAnswers \/ ModemSends

Tick ==
  /\ lag < (IF pc = "delay" THEN RetryDelay ELSE MaxLag) \/ pc = "idle"
  /\ ModemBusy => quiet < (IF out # << >> THEN MaxGap ELSE MaxLatency)
  /\ now' = (now + 1) % ClockMod
  /\ lag' = IF pc = "idle" THEN lag ELSE lag + 1
  /\ quiet' = IF ModemBusy THEN quiet + 1 ELSE 0
  /\ silent' = IF silent < ClockMod THEN silent + 1 ELSE silent
  /\ UNCHANGED <<uart, rx_vars, prog_vars, modem_vars>>

----------------------------------------------------------------------------
(* IsRxFinished: one call of it per turn of WaitResp's loop.               *)

\* Mutant: a clock that has wrapped counts as timed out.
ElapsedWrapped == IF prev_time <= now THEN now - prev_time ELSE ClockMod
\* Mutant: no conversion to unsigned long.
ElapsedSigned == now - prev_time

\* (unsigned long)(millis() - prev_time)
Elapsed == (now - prev_time) % ClockMod

RxInit ==
  /\ pc = "rxinit"
  /\ rx_state' = "NOT_STARTED"
  /\ rx_tmouts' = IF draining THEN [start |-> DrainStart, gap |-> DrainGap]
                              ELSE [start |-> call.start, gap |-> call.gap]
  /\ prev_time' = now /\ silent' = 0
  /\ comm_buf' = << >> /\ uart' = << >>
  /\ status' = "NOT_FINISHED" /\ last' = 0
  /\ pc' = "poll" /\ lag' = 0
  /\ UNCHANGED <<now, call, attempt, ret_val, draining, sent, base, calls, drained,
                 modem_vars, quiet>>

Polled(next) ==
  /\ pc' = next /\ lag' = 0
  /\ UNCHANGED <<now, call, attempt, ret_val, draining, sent, base, calls, drained,
                 modem_vars, quiet>>

NoneAvailable ==
  /\ pc = "poll" /\ rx_state = "NOT_STARTED" /\ uart = << >>
  /\ Polled("start_tmout")
  /\ UNCHANGED <<uart, rx_vars, silent>>

FirstAvailable ==
  /\ pc = "poll" /\ rx_state = "NOT_STARTED" /\ uart # << >>
  /\ rx_state' = "ALREADY_STARTED"
  /\ prev_time' = now /\ silent' = 0
  /\ Polled("poll")
  /\ UNCHANGED <<uart, comm_buf, rx_tmouts, status, last>>

TestStartTmout ==
  /\ pc = "start_tmout"
  /\ \/ Elapsed >= rx_tmouts.start /\ status' = "TMOUT_ERR" /\ Polled("after")
     \/ Elapsed < rx_tmouts.start /\ UNCHANGED status /\ Polled("poll")
  /\ UNCHANGED <<uart, comm_buf, rx_state, prev_time, rx_tmouts, last, silent>>

\* Mutant: the characters are read without a look at COMM_BUF_LEN.
ReadBytesUnlimited ==
  /\ pc = "poll" /\ rx_state = "ALREADY_STARTED"
  /\ comm_buf' = comm_buf \o uart
  /\ prev_time' = IF uart = << >> THEN prev_time ELSE now
  /\ silent' = IF uart = << >> THEN silent ELSE 0
  /\ last' = IF uart = << >> THEN last ELSE uart[Len(uart)].of
  /\ uart' = << >>
  /\ Polled("gap")
  /\ UNCHANGED <<rx_state, rx_tmouts, status>>

\* Mutant: characters that arrive do not postpone the timeout.
ReadBytesNoRefresh ==
  /\ pc = "poll" /\ rx_state = "ALREADY_STARTED"
  /\ LET received == comm_buf \o uart
         kept == IF Len(received) < CommBufLen THEN Len(received) ELSE CommBufLen
     IN  comm_buf' = SubSeq(received, 1, kept)
  /\ last' = IF uart = << >> THEN last ELSE uart[Len(uart)].of
  /\ uart' = << >>
  /\ Polled("gap")
  /\ UNCHANGED <<rx_state, rx_tmouts, status, prev_time, silent>>

\* All bytes available are read; those without room in comm_buf are dropped.
ReadBytes ==
  /\ pc = "poll" /\ rx_state = "ALREADY_STARTED"
  /\ LET received == comm_buf \o uart
         kept == IF Len(received) < CommBufLen THEN Len(received) ELSE CommBufLen
     IN  comm_buf' = SubSeq(received, 1, kept)
  /\ prev_time' = IF uart = << >> THEN prev_time ELSE now
  /\ silent' = IF uart = << >> THEN silent ELSE 0
  /\ last' = IF uart = << >> THEN last ELSE uart[Len(uart)].of
  /\ uart' = << >>
  /\ Polled("gap")
  /\ UNCHANGED <<rx_state, rx_tmouts, status>>

TestGap ==
  /\ pc = "gap"
  /\ \/ Elapsed >= rx_tmouts.gap /\ status' = "FINISHED" /\ Polled("after")
     \/ Elapsed < rx_tmouts.gap /\ UNCHANGED status /\ Polled("poll")
  /\ UNCHANGED <<uart, comm_buf, rx_state, prev_time, rx_tmouts, last, silent>>

\* strstr(comm_buf, compare_string)
IsStringReceived(string) ==
  \E k \in 0..Len(comm_buf) - Len(string) :
    \A j \in DOMAIN string : comm_buf[k + j].ch = string[j]

----------------------------------------------------------------------------
(* SendATCmdWaitResp: two overloads, of which one ends with a WaitResp.    *)

CallStarts ==
  /\ pc = "idle" /\ calls < MaxCalls
  /\ call' \in Calls
  /\ calls' = calls + 1
  /\ base' = sent
  /\ attempt' = 0 /\ ret_val' = "NO_RESP" /\ draining' = FALSE
  /\ pc' = "println" /\ lag' = 0
  /\ UNCHANGED <<now, uart, rx_vars, sent, drained, silent, modem_vars, quiet>>

DelayEnds ==
  /\ pc = "delay" /\ lag = RetryDelay
  /\ pc' = "println" /\ lag' = 0
  /\ UNCHANGED <<now, uart, rx_vars, call, attempt, ret_val, draining, sent, base,
                 calls, drained, silent, modem_vars, quiet>>

Println ==
  /\ pc = "println"
  /\ sent' = sent + 1
  /\ inbox' = Append(inbox, sent + 1)
  /\ pc' = "rxinit" /\ lag' = 0
  /\ UNCHANGED <<now, uart, rx_vars, call, attempt, ret_val, draining, base, calls,
                 drained, silent, out, quiet>>

Result ==
  IF status # "FINISHED" THEN "NO_RESP"
  ELSE IF IsStringReceived(Expected) THEN "OK" ELSE "DIF_RESP"

\* Mutant: no overload ends with a WaitResp.
AttemptEndsNoDrain ==
  /\ pc = "after" /\ ~draining
  /\ ret_val' = Result
  /\ lag' = 0
  /\ \/ /\ Result # "OK" /\ attempt + 1 < call.attempts
        /\ attempt' = attempt + 1 /\ pc' = "delay"
        /\ UNCHANGED <<draining, drained>>
     \/ /\ Result = "OK" \/ attempt + 1 >= call.attempts
        /\ UNCHANGED <<attempt, draining>>
        /\ pc' = "idle" /\ drained' = call.drains
  /\ UNCHANGED <<now, uart, rx_vars, call, sent, base, calls, silent, modem_vars, quiet>>

\* The rest of the loop's body: break, next attempt, or the end of the loop.
AttemptEnds ==
  /\ pc = "after" /\ ~draining
  /\ ret_val' = Result
  /\ lag' = 0
  /\ \/ /\ Result # "OK" /\ attempt + 1 < call.attempts
        /\ attempt' = attempt + 1 /\ pc' = "delay"
        /\ UNCHANGED <<draining, drained>>
     \/ /\ Result = "OK" \/ attempt + 1 >= call.attempts
        /\ UNCHANGED attempt
        /\ \/ call.drains /\ draining' = TRUE /\ pc' = "rxinit" /\ UNCHANGED drained
           \/ ~call.drains /\ drained' = FALSE /\ pc' = "idle" /\ UNCHANGED draining
  /\ UNCHANGED <<now, uart, rx_vars, call, sent, base, calls, silent, modem_vars, quiet>>

CallEnds ==
  /\ pc = "after" /\ draining
  /\ draining' = FALSE /\ drained' = TRUE
  /\ pc' = "idle" /\ lag' = 0
  /\ UNCHANGED <<now, uart, rx_vars, call, attempt, ret_val, sent, base, calls, silent,
                 modem_vars, quiet>>

Program ==
  \/ DelayEnds \/ Println
  \/ RxInit \/ NoneAvailable \/ FirstAvailable \/ TestStartTmout
  \/ ReadBytes \/ TestGap
  \/ AttemptEnds \/ CallEnds

Next == Modem \/ Tick \/ CallStarts \/ Program

Spec == Init /\ [][Next]_vars

\* The processor runs, time passes, and the modem ends what it began.
Fairness == WF_vars(Program) /\ WF_vars(Tick) /\ WF_vars(Modem)

FairSpec == Spec /\ Fairness

----------------------------------------------------------------------------
(* Properties.                                                             *)

TypeOK ==
  /\ now \in Tmouts /\ prev_time \in Tmouts /\ lag \in Nat /\ silent \in 0..ClockMod
  /\ uart \in Seq(TaggedChars) /\ Len(uart) <= RxBufLen
  /\ comm_buf \in Seq(TaggedChars) /\ Len(comm_buf) <= CommBufLen
  /\ rx_state \in {"NOT_STARTED", "ALREADY_STARTED"}
  /\ rx_tmouts \in [start : Tmouts, gap : Tmouts]
  /\ status \in {"NOT_FINISHED", "FINISHED", "TMOUT_ERR"}
  /\ pc \in Pcs /\ call \in Calls /\ attempt \in 0..call.attempts - 1
  /\ ret_val \in {"NO_RESP", "DIF_RESP", "OK"} /\ {draining, drained} \subseteq BOOLEAN
  /\ {sent, base, last, quiet} \subseteq Nat /\ calls \in 0..MaxCalls
  /\ inbox \in Seq(Nat) /\ out \in Seq(TaggedChars)

\* A wait is given up only after its full timeout since the last time there was
\* something to read, also across a wrap of millis(), and "finished" is never
\* reported without a character.
TimeoutsAreReal ==
  /\ status = "TMOUT_ERR" => comm_buf = << >> /\ silent >= rx_tmouts.start
  /\ status = "FINISHED" => comm_buf # << >> /\ silent >= rx_tmouts.gap

\* An answer is never cut in two: if the modem's pauses inside an answer and the
\* program's own delays together stay below the inter-character timeout, then
\* what remains unread or unsent when the wait finishes is another answer.
WholeAnswer ==
  LET rest == uart \o out
  IN  (status = "FINISHED" /\ MaxGap + MaxLag < rx_tmouts.gap /\ rest # << >>)
        => Head(rest).of # last

\* The modem begins with an answer within the time that passes between two
\* commands, and any wait is longer than the pauses inside an answer.
ModemKeepsPace ==
  /\ \A c \in Calls : \A wait \in {c.start, c.gap} :
       /\ MaxGap + MaxLag < wait
       /\ MaxLatency <= wait + (IF c.drains THEN RetryDelay ELSE 0)
  /\ \A wait \in {DrainStart, DrainGap} : MaxLatency + MaxGap + MaxLag < wait

\* AT_RESP_OK is never due to the answer to an earlier call, although a modem
\* that keeps pace may still answer long after an attempt was given up, if the
\* earlier call ended with the final WaitResp.
OkIsOwn ==
  (ModemKeepsPace /\ pc = "after" /\ ~draining /\ Result = "OK" /\ drained)
    => \A k \in DOMAIN comm_buf : comm_buf[k].of > base

\* The comment above both overloads says that AT_RESP_OK means that
\* response_string was in the response to the command.  After the overload
\* without a final WaitResp it may have been in the one before.
OkAnswersTheCommand ==
  (pc = "after" /\ ~draining /\ Result = "OK")
    => \A k \in DOMAIN comm_buf : comm_buf[k].of > base

\* Every call of SendATCmdWaitResp returns, whatever the modem does.
CallsReturn == (pc # "idle") ~> (pc = "idle")
=============================================================================

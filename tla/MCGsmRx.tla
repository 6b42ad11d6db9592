------------------------------- MODULE MCGsmRx -------------------------------
(***************************************************************************)
(* Small instances of GsmRx: answers of two or three characters, a comm_buf*)
(* that is one character too short for the longest, a clock that wraps     *)
(* during nearly every call.                                               *)
(***************************************************************************)
EXTENDS GsmRx

MCAnswers == { <<"O", "K">>, <<"E">>, <<"E", "O", "K">> }
MCExpected == <<"O", "K">>

\* One wait is shorter than the modem's latency, which then answers an attempt
\* that was given up, and no wait is shorter than a pause inside an answer.
DrainingCalls ==
  { [start |-> 3, gap |-> 3, attempts |-> 2, drains |-> TRUE] }

MixedCalls ==
  DrainingCalls \cup { [start |-> 4, gap |-> 4, attempts |-> 1, drains |-> FALSE] }
=============================================================================

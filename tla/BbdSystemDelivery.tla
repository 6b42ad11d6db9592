------------------------- MODULE BbdSystemDelivery -------------------------
(***************************************************************************)
(* BbdSystem implements Delivery.  The moment of a picture is the          *)
(* receiver's query: from then on the answer is on its way, first in the   *)
(* receiver's memory and then in the socket, while the connection it was   *)
(* fetched for is one on which the device still waits.                     *)
(***************************************************************************)
EXTENDS BbdSystem

\* What a device waits for; a request for its valves is none of Delivery's.
RequestFor(d) ==
  CASE flight[d] = "sent" /\ stage[d] = "schedules" -> "all"
    [] flight[d] = "sent" /\ stage[d] = "run" -> "news"
    [] OTHER -> "none"

\* The receiver has fetched schedules for the connection it serves.
Fetching(pcs) == rpc \in pcs /\ conn.type # "GET_DEVICE_VALVES"

AnswerFor(d) ==
  IF Fetching({"send"}) /\ Mine(d, conn)
  THEN <<IF need_update THEN sches ELSE {}>>
  ELSE IF stage[d] \in {"schedules", "run"} THEN reply[d] ELSE << >>

RowsByDevice == [d \in Devices |-> RowsOf(d)]
Requests == [d \in Devices |-> RequestFor(d)]
Answers == [d \in Devices |-> AnswerFor(d)]
Due == IF Fetching({"send", "mark"}) THEN sches \ sent ELSE {}

Promise == INSTANCE Delivery WITH
  rows <- RowsByDevice, request <- Requests, answer <- Answers, due <- Due,
  faulty <- failures > 0

\* Every list a device takes is what its active schedules were at one moment
\* between its request and its answer, even if answers to requests it abandoned
\* are still under way; an answer marks at most one schedule as sent, one that
\* was in that picture; and as long as nothing fails no answer is lost.
ImplementsDelivery == Promise!Spec
=============================================================================

------------------------------ MODULE Delivery ------------------------------
(***************************************************************************)
(* What the server promises its users: which schedules a device may hold,  *)
(* given what the web site did, and which of them the web site shows as    *)
(* sent.  There are no connections, queues or processes here: the database *)
(* is looked at once for each answer, at one moment after the device       *)
(* asked, and the answer is that picture.  BbdSystem is shown to implement *)
(* this, whatever fails.                                                   *)
(***************************************************************************)
CONSTANTS Devices, Ids

VARIABLES
  rows,      \* per device: the schedules created for it
  active,    \* the schedules that are not deactivated
  sent,      \* the schedules shown as sent
  list,      \* per device: the schedules it holds
  request,   \* per device: what it waits for, if anything
  answer,    \* per device: the picture on its way (<< >> or <<picture>>)
  due,       \* the new ones of the last picture, of which one may be marked
  faulty     \* something has failed

vars == <<rows, active, sent, list, request, answer, due, faulty>>

Init ==
  /\ rows = [d \in Devices |-> {}] /\ active = {} /\ sent = {} /\ due = {}
  /\ list = [d \in Devices |-> {}]
  /\ request = [d \in Devices |-> "none"]
  /\ answer = [d \in Devices |-> << >>]
  /\ faulty = FALSE

Publish(d) ==
  /\ \E id \in Ids \ UNION {rows[e] : e \in Devices} :
       /\ rows' = [rows EXCEPT ![d] = @ \cup {id}]
       /\ active' = active \cup {id}
  /\ UNCHANGED <<sent, list, request, answer, due, faulty>>

Withdraw(d) ==
  /\ \E id \in rows[d] : active' = active \ {id}
  /\ UNCHANGED <<rows, sent, list, request, answer, due, faulty>>

\* For everything, after a start, or for news.
Ask(d) ==
  /\ request[d] = "none"
  /\ \E what \in {"all", "news"} : request' = [request EXCEPT ![d] = what]
  /\ UNCHANGED <<rows, active, sent, list, answer, due, faulty>>

\* A picture of the device's schedules.  Without news the answer is empty.  After
\* a failure the picture may go to nobody.
Look(d) ==
  LET picture == rows[d] \cap active
  IN  /\ due = {}
      /\ due' = picture \ sent
      /\ \/ /\ request[d] # "none" /\ answer[d] = << >>
            /\ answer' = [answer EXCEPT ![d] =
                            <<IF request[d] = "news" /\ due' = {} THEN {} ELSE picture>>]
         \/ faulty /\ UNCHANGED answer
      /\ UNCHANGED <<rows, active, sent, list, request, faulty>>

\* One schedule of the picture is shown as sent.
Mark ==
  /\ \E id \in due : sent' = sent \cup {id}
  /\ due' = {}
  /\ UNCHANGED <<rows, active, list, request, answer, faulty>>

\* An empty answer changes nothing.
Take(d) ==
  /\ request[d] # "none" /\ answer[d] # << >>
  /\ list' = IF answer[d][1] = {} THEN list ELSE [list EXCEPT ![d] = answer[d][1]]
  /\ request' = [request EXCEPT ![d] = "none"]
  /\ answer' = [answer EXCEPT ![d] = << >>]
  /\ UNCHANGED <<rows, active, sent, due, faulty>>

\* What may go wrong, once something has failed.  A device gives up, and may lose
\* what it holds.
GiveUp(d) ==
  /\ list' \in {list, [list EXCEPT ![d] = {}]}
  /\ request' = [request EXCEPT ![d] = "none"]
  /\ answer' = [answer EXCEPT ![d] = << >>]
  /\ UNCHANGED <<rows, active, sent, due>>

\* An answer on its way is lost, the marking is left out, or both.
Lose ==
  /\ answer' = answer \/ \E d \in Devices : answer' = [answer EXCEPT ![d] = << >>]
  /\ due' \in {due, {}}
  /\ UNCHANGED <<rows, active, sent, list, request>>

Fail ==
  /\ faulty' = TRUE
  /\ Lose \/ \E d \in Devices : GiveUp(d)

Next ==
  \/ Mark \/ Fail
  \/ \E d \in Devices : Publish(d) \/ Withdraw(d) \/ Ask(d) \/ Look(d) \/ Take(d)

Spec == Init /\ [][Next]_vars
=============================================================================

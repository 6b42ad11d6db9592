----------------------------- MODULE BbdSystem -----------------------------
(***************************************************************************)
(* The whole system: web site, database, receiver and devices.  A device   *)
(* runs client/daemon: it asks for its valves, asks for its schedules and  *)
(* starts the scheduler thread (modelled in ScheduleManager).  The daemon  *)
(* also has a call to ask for new schedules, cc_check_new_schedules.       *)
(***************************************************************************)
EXTENDS Receiver

VARIABLES
  stage,   \* where a device's main program is
  flight,  \* its request: none, in connect, connected, or header sent
  vtable,  \* the ids in its valve table
  list,    \* the ids in its schedule list
  silent,  \* the devices in recv on a connection that ended without a sign
  asked    \* history: what the database held when its request was sent

main_vars == <<stage, vtable, list>>
client_vars == <<main_vars, flight, asked, silent>>
vars == <<db_vars, rcv_vars, client_vars>>

Stages == {"off", "valves", "schedules", "run"}
Flights == {"none", "connecting", "connected", "sent"}

RequestOf(s) ==
  CASE s = "valves" -> "GET_DEVICE_VALVES"
    [] s = "schedules" -> "GET_ACTIVE_SCHES"
    [] s = "run" -> "CHECK_NEW_SCHEDULES"

\* The rows of the device, and those of them that were inactive.
NothingAsked == [rows |-> {}, gone |-> {}]

Init ==
  /\ DbInit
  /\ ReceiverInit
  /\ stage = [d \in Devices |-> "off"]
  /\ flight = [d \in Devices |-> "none"]
  /\ vtable = [d \in Devices |-> {}]
  /\ list = [d \in Devices |-> {}]
  /\ silent = {}
  /\ asked = [d \in Devices |-> NothingAsked]

----------------------------------------------------------------------------
(* The web site.                                                           *)

CreateSchedule ==
  /\ \E v \in Valves : web_create_new_schedule(v)
  /\ UNCHANGED <<rcv_vars, client_vars>>

DeactivateSchedule ==
  /\ \E id \in Rows : web_deactivate_schedule_request(id)
  /\ UNCHANGED <<rcv_vars, client_vars>>

----------------------------------------------------------------------------
(* A device.                                                               *)

Mine(d, c) == c # NoConn /\ c.dev = d /\ c.waiting
Awaited(d) == Mine(d, conn) \/ \E k \in DOMAIN backlog : Mine(d, backlog[k])

\* Set a field of the connection on which device d is waiting.
OnMine(d, field, value) ==
  /\ conn' = IF Mine(d, conn) THEN [conn EXCEPT ![field] = value] ELSE conn
  /\ backlog' = [k \in DOMAIN backlog |->
                   IF Mine(d, backlog[k]) THEN [backlog[k] EXCEPT ![field] = value]
                                          ELSE backlog[k]]

\* The process starts, or is started again, with empty tables.
Start(d) ==
  /\ stage[d] = "off"
  /\ stage' = [stage EXCEPT ![d] = "valves"]
  /\ UNCHANGED <<db_vars, rcv_vars, flight, vtable, list, asked, silent>>

\* The request in flight is over.
Finish(d) ==
  /\ flight' = [flight EXCEPT ![d] = "none"]
  /\ asked' = [asked EXCEPT ![d] = NothingAsked]
  /\ silent' = silent \ {d}

\* A failed call ends the program before the scheduler runs (_start returns an
\* error) and is merely reported once it runs (cc_check_new_schedules).
GiveUp(d) ==
  /\ Finish(d)
  /\ IF stage[d] = "run"
     THEN UNCHANGED <<stage, vtable, list>>
     ELSE /\ stage' = [stage EXCEPT ![d] = "off"]
          /\ vtable' = [vtable EXCEPT ![d] = {}]
          /\ list' = [list EXCEPT ![d] = {}]

\* sd_send_request: the program is in connect, which has no timeout of its own.
Call(d) ==
  /\ stage[d] # "off" /\ flight[d] = "none"
  /\ flight' = [flight EXCEPT ![d] = "connecting"]
  /\ UNCHANGED <<db_vars, rcv_vars, main_vars, asked, silent>>

\* connect returns when the connection is in the queue.
Connect(d) ==
  /\ flight[d] = "connecting"
  /\ rpc # "down"
  /\ Len(backlog) < Backlog
  /\ backlog' = Append(backlog, [dev |-> d, type |-> RequestOf(stage[d]),
                                 header |-> FALSE, waiting |-> TRUE])
  /\ flight' = [flight EXCEPT ![d] = "connected"]
  /\ UNCHANGED <<db_vars, rpc, conn, sches, need_update, reply, offered, failures,
                 main_vars, asked, silent>>

\* It is refused by a host without a receiver, or TCP gives up: nobody answers
\* while the queue is full, or while the network is down.
ConnectFails(d) ==
  /\ flight[d] = "connecting"
  /\ \/ (rpc = "down" \/ Len(backlog) = Backlog) /\ UNCHANGED failures
     \/ Failure
  /\ GiveUp(d)
  /\ UNCHANGED <<db_vars, rpc, conn, backlog, sches, need_update, reply, offered>>

\* sd_send_request, send: succeeds whether or not anybody reads it.
SendHeader(d) ==
  /\ flight[d] = "connected"
  /\ flight' = [flight EXCEPT ![d] = "sent"]
  /\ asked' = [asked EXCEPT ![d] = [rows |-> RowsOf(d), gone |-> RowsOf(d) \ active]]
  /\ OnMine(d, "header", TRUE)
  /\ UNCHANGED <<db_vars, rpc, sches, need_update, reply, offered, failures, main_vars, silent>>

\* cc_set_valve_info: an answer of length 0 is an error (recv returns 0).
ReceiveValves(d) ==
  /\ flight[d] = "sent" /\ reply[d] # << >>
  /\ stage[d] = "valves"
  /\ IF Head(reply[d]) = {}
     THEN GiveUp(d)
     ELSE /\ vtable' = [vtable EXCEPT ![d] = Head(reply[d])]
          /\ stage' = [stage EXCEPT ![d] = "schedules"]
          /\ Finish(d)
          /\ UNCHANGED list
  /\ reply' = [reply EXCEPT ![d] = << >>]
  /\ OnMine(d, "waiting", FALSE)
  /\ UNCHANGED <<db_vars, rpc, sches, need_update, offered, failures>>

\* cc_set_active_schedules, cc_check_new_schedules: an answer of length 0
\* leaves the list alone.  After the first one the scheduler is started.
ReceiveSchedules(d) ==
  /\ flight[d] = "sent" /\ reply[d] # << >>
  /\ stage[d] \in {"schedules", "run"}
  /\ list' = IF Head(reply[d]) = {} THEN list ELSE [list EXCEPT ![d] = Head(reply[d])]
  /\ stage' = [stage EXCEPT ![d] = "run"]
  /\ Finish(d)
  /\ reply' = [reply EXCEPT ![d] = << >>]
  /\ OnMine(d, "waiting", FALSE)
  /\ UNCHANGED <<db_vars, rpc, sches, need_update, offered, failures, vtable>>

\* recv returns <= 0: the server closed the connection or it broke, and the
\* device was told.
ReceiveError(d) ==
  /\ flight[d] = "sent" /\ reply[d] = << >>
  /\ ~Awaited(d) /\ d \notin silent
  /\ GiveUp(d)
  /\ UNCHANGED <<db_vars, rcv_vars>>

\* The sets of devices without a sign once those of D may be among them.  A
\* device that still has something to send finds out in time; one that only
\* waits in recv, which has neither timeout nor keepalive, need not.
Silenced(D) ==
  {silent \cup S : S \in SUBSET {d \in D : flight[d] = "sent" /\ reply[d] = << >>}}

\* The connection breaks under the device, before an answer arrived.
ConnectionBreaks(d) ==
  /\ flight[d] \in {"connected", "sent"} /\ reply[d] = << >>
  /\ Failure
  /\ OnMine(d, "waiting", FALSE)
  /\ silent' \in Silenced({d})
  /\ UNCHANGED <<db_vars, rpc, sches, need_update, reply, offered, main_vars, flight, asked>>

\* The process or the device dies, and its memory with it.
DeviceCrash(d) ==
  /\ stage[d] # "off"
  /\ Failure
  /\ stage' = [stage EXCEPT ![d] = "off"]
  /\ Finish(d)
  /\ vtable' = [vtable EXCEPT ![d] = {}]
  /\ list' = [list EXCEPT ![d] = {}]
  /\ reply' = [reply EXCEPT ![d] = << >>]
  /\ OnMine(d, "waiting", FALSE)
  /\ UNCHANGED <<db_vars, rpc, sches, need_update, offered>>

\* The steps of a request in flight and of a program that is starting.
Proceed(d) ==
  \/ stage[d] # "run" /\ Call(d)
  \/ Connect(d) \/ ConnectFails(d)
  \/ SendHeader(d) \/ ReceiveValves(d) \/ ReceiveSchedules(d) \/ ReceiveError(d)

\* A call of cc_check_new_schedules by a program that runs.
Check(d) == stage[d] = "run" /\ Call(d)

----------------------------------------------------------------------------

ReceiverServes == Serve /\ UNCHANGED client_vars
ReceiverReturns == ReceiverRestart /\ UNCHANGED client_vars

\* Its host closes the connections of a process that dies; if the host dies
\* itself, or the network then, nobody tells the devices.
ReceiverDies ==
  /\ ReceiverCrash
  /\ silent' \in Silenced(Devices)
  /\ UNCHANGED <<main_vars, flight, asked>>

Next ==
  \/ CreateSchedule \/ DeactivateSchedule
  \/ ReceiverServes \/ ReceiverDies \/ ReceiverReturns
  \/ \E d \in Devices :
       \/ Start(d) \/ Proceed(d) \/ Check(d)
       \/ ConnectionBreaks(d) \/ DeviceCrash(d)

Spec == Init /\ [][Next]_vars

\* The receiver and supervisord go on, and so does a device's request; nobody
\* has to start a device, to call cc_check_new_schedules or to use the web site.
Fairness ==
  /\ WF_vars(ReceiverServes) /\ WF_vars(ReceiverReturns)
  /\ \A d \in Devices : WF_vars(Proceed(d))

FairSpec == Spec /\ Fairness

----------------------------------------------------------------------------
(* Properties.                                                             *)

TypeOK ==
  /\ valve_of \in [Ids -> Valves \cup {NoValve}]
  /\ sent \subseteq Rows /\ active \subseteq Rows /\ stamped \subseteq Rows
  /\ rpc \in ReceiverPcs
  /\ conn \in Connections \cup {NoConn}
  /\ backlog \in Seq(Connections) /\ Len(backlog) <= Backlog
  /\ sches \in SUBSET (Ids \cup Valves) /\ need_update \in BOOLEAN
  /\ reply \in [Devices -> Seq(SUBSET (Ids \cup Valves))]
  /\ \A d \in Devices : Len(reply[d]) <= 1
  /\ offered \subseteq Ids /\ failures \in 0..MaxFailures
  /\ stage \in [Devices -> Stages] /\ flight \in [Devices -> Flights]
  /\ asked \in [Devices -> [rows : SUBSET Ids, gone : SUBSET Ids]] /\ silent \subseteq Devices
  /\ vtable \in [Devices -> SUBSET Valves] /\ list \in [Devices -> SUBSET Ids]

\* A schedule that watering depends on reaches only the device that has its
\* valve, and that device has the valve in its table: connections, answers
\* and restarts never mix up two devices.
ListsFitTables ==
  \A d \in Devices : \A id \in list[d] : valve_of[id] \in vtable[d]

\* A row is marked as sent only after an answer with it was handed to the
\* socket, and it stays so whatever fails in between.
SentWasOffered == sent \subseteq offered

\* As long as nothing failed, an active schedule marked as sent is in the list
\* of its device, or in the answer the device is about to read.
SentIsHeld ==
  failures = 0 =>
    \A id \in sent \cap active :
      LET d == DeviceOf[valve_of[id]]
      IN  id \in list[d] \/ (reply[d] # << >> /\ id \in Head(reply[d]))

\* The web site shows a row as sent; the code marks it so even if the answer
\* was lost, and then no device holds it.
SentIsReceived ==
  \A id \in sent \cap active :
    LET d == DeviceOf[valve_of[id]]
    IN  stage[d] = "run" => id \in list[d] \/ reply[d] # << >>

\* An answer is never older than the request: it has no schedule that was
\* inactive when the device asked, and the answer at start-up has every one
\* that has been active since.  Answers of an earlier life of the device, or of
\* the receiver, are never taken for it.
AnswersAreCurrent ==
  \A d \in Devices :
    (reply[d] # << >> /\ stage[d] # "valves") =>
      /\ Head(reply[d]) \cap asked[d].gone = {}
      /\ stage[d] = "schedules" =>
           ((asked[d].rows \ asked[d].gone) \cap active) \subseteq Head(reply[d])

\* Every request of a device ends, with an answer or with an error: neither a
\* silent connection ahead of it, nor a full queue, nor a crash of the receiver
\* leaves it waiting.  The exception is a connection that ends without a sign
\* while the device is in recv: then only a restart ends the wait.
RequestsEnd ==
  \A d \in Devices : (flight[d] # "none") ~> (flight[d] = "none" \/ d \in silent)

\* No answer can be lost any more: failures are over and no connection that
\* device d has abandoned is still to be served.
Abandoned(d, c) == c # NoConn /\ c.dev = d /\ ~c.waiting

Reliable(d) ==
  /\ failures = MaxFailures
  /\ Abandoned(d, conn) => rpc \in {"stamp", "close"}
  /\ \A k \in DOMAIN backlog : ~Abandoned(d, backlog[k])

\* A device gets through when its connection is accepted into the queue.
GetsThrough(d) == stage[d] = "run" /\ Connect(d)

\* A device that keeps getting through has every new schedule that no failure has
\* touched, though each answer books one schedule only: the schedule reaches
\* its list unless it is deactivated first.
NewSchedulesArrive ==
  \A v \in Valves :
    LET d == DeviceOf[v]
    IN  []<><<GetsThrough(d)>>_vars =>
          \A id \in Ids :
            (Reliable(d) /\ valve_of[id] = v /\ id \in active \ sent)
               ~> (id \in list[d] \/ id \notin active)

\* A device that keeps getting through drops a deactivated schedule.  The code does not
\* do this: cc_check_new_schedules is answered only when there are new ones.
DeactivationsArrive ==
  \A d \in Devices :
    []<><<GetsThrough(d)>>_vars =>
      \A id \in Ids : (id \in list[d] \ active) ~> (id \notin list[d])
=============================================================================

------------------------------ MODULE Receiver ------------------------------
(***************************************************************************)
(* The receiver process (server/src/receiver/src): a single-threaded loop  *)
(* that accepts a connection, reads the request header, asks the database, *)
(* answers, books what it answered in the database and closes.             *)
(*                                                                         *)
(* A connection is a record: the device at the other end, its request, if  *)
(* the header has arrived, and if the device is still there to read the    *)
(* answer.  Each database call and each socket call is a step; the web     *)
(* site and the devices move between any two of them.                      *)
(***************************************************************************)
EXTENDS BbdDb, Sequences

CONSTANTS
  Backlog,     \* listen(*sockfd, 5)
  NoConn,      \* no connection is being served
  MaxFailures  \* bound: crashes, broken connections, failed database calls

RequestTypes == {"GET_DEVICE_VALVES", "GET_ACTIVE_SCHES", "CHECK_NEW_SCHEDULES"}

Connections == [dev : Devices, type : RequestTypes, header : BOOLEAN, waiting : BOOLEAN]

ASSUME BacklogAssumption == Backlog \in Nat \ {0}
ASSUME NoConnAssumption == NoConn \notin Connections
ASSUME FailuresAssumption == MaxFailures \in Nat

VARIABLES
  rpc,         \* where _run_server is; "down" when the process is not running
  conn,        \* newsockfd, or NoConn
  backlog,     \* connections not yet accepted
  sches,       \* the ids the database returned, or the valve ids
  need_update, \* if they are to be sent
  reply,       \* per device: the answer it has not read yet, or none (<< >>)
  offered,     \* history: the ids in some answer handed to the socket
  failures     \* history: failures so far

rcv_vars == <<rpc, conn, backlog, sches, need_update, reply, offered, failures>>

ReceiverPcs == {"down", "accept", "header", "fetch", "send", "mark", "stamp", "close"}

ReceiverInit ==
  /\ rpc = "accept"
  /\ conn = NoConn
  /\ backlog = << >>
  /\ sches = {} /\ need_update = FALSE
  /\ reply = [d \in Devices |-> << >>]
  /\ offered = {}
  /\ failures = 0

\* Failures are possible at any time but only MaxFailures of them happen.
Failure == failures < MaxFailures /\ failures' = failures + 1

Accept ==
  /\ rpc = "accept"
  /\ backlog # << >>
  /\ conn' = Head(backlog)
  /\ backlog' = Tail(backlog)
  /\ rpc' = "header"
  /\ UNCHANGED <<db_vars, sches, need_update, reply, offered, failures>>

RecvHeader ==
  /\ rpc = "header"
  /\ conn.header
  /\ rpc' = "fetch"
  /\ UNCHANGED <<db_vars, conn, backlog, sches, need_update, reply, offered, failures>>

\* Mutant: without SO_RCVTIMEO a silent connection is never given up.
RecvHeaderNoTimeout ==
  /\ rpc = "header"
  /\ conn.header /\ ~conn.waiting
  /\ rpc' = "close"
  /\ UNCHANGED <<db_vars, conn, backlog, sches, need_update, reply, offered, failures>>

\* recv returns <= 0: the device is gone (end of file, a reset, or 30 seconds
\* of silence), or it is there but 30 seconds late with its header.
RecvHeaderFails ==
  /\ rpc = "header"
  /\ \/ ~conn.waiting /\ UNCHANGED failures
     \/ conn.waiting /\ ~conn.header /\ Failure
  /\ rpc' = "close"
  /\ UNCHANGED <<db_vars, conn, backlog, sches, need_update, reply, offered>>

FetchValves ==
  /\ rpc = "fetch"
  /\ conn.type = "GET_DEVICE_VALVES"
  /\ sches' = rcv_get_device_valves(conn.dev)
  /\ need_update' = TRUE
  /\ rpc' = "send"
  /\ UNCHANGED <<db_vars, conn, backlog, reply, offered, failures>>

\* Mutant: only the request at start-up is answered with schedules.
FetchSchedulesNoUpdate ==
  /\ rpc = "fetch"
  /\ conn.type # "GET_DEVICE_VALVES"
  /\ sches' = rcv_get_active_schedules(conn.dev)
  /\ need_update' = (conn.type = "GET_ACTIVE_SCHES")
  /\ rpc' = "send"
  /\ UNCHANGED <<db_vars, conn, backlog, reply, offered, failures>>

FetchSchedules ==
  /\ rpc = "fetch"
  /\ conn.type # "GET_DEVICE_VALVES"
  /\ sches' = rcv_get_active_schedules(conn.dev)
  /\ need_update' = (conn.type = "GET_ACTIVE_SCHES" \/ ~(sches' \subseteq sent))
  /\ rpc' = "send"
  /\ UNCHANGED <<db_vars, conn, backlog, reply, offered, failures>>

FetchFails ==
  /\ rpc = "fetch"
  /\ Failure
  /\ rpc' = "close"
  /\ UNCHANGED <<db_vars, conn, backlog, sches, need_update, reply, offered>>

\* send_rsp_msg.  An answer nobody waits for is lost, whatever send returns;
\* the handler goes on the same way in either case.
SendRsp ==
  /\ rpc = "send"
  /\ LET data == IF need_update THEN sches ELSE {}
     IN  /\ reply' = IF conn.waiting THEN [reply EXCEPT ![conn.dev] = <<data>>] ELSE reply
         /\ offered' = IF conn.type = "GET_DEVICE_VALVES" THEN offered ELSE offered \cup data
  /\ rpc' = IF conn.type = "GET_DEVICE_VALVES" THEN "close" ELSE "mark"
  /\ UNCHANGED <<db_vars, conn, backlog, sches, need_update, failures>>

AfterMark == IF conn.type = "GET_ACTIVE_SCHES" THEN "stamp" ELSE "close"

\* Mutant: a row of the device is marked that need not be in the answer.
SetAnySent ==
  /\ rpc = "mark"
  /\ LET rows == (RowsOf(conn.dev) \cap active) \ sent
     IN  \/ \E id \in rows : rcv_set_schedule_sent(id)
         \/ rows = {} /\ UNCHANGED db_vars
  /\ rpc' = AfterMark
  /\ UNCHANGED <<conn, backlog, sches, need_update, reply, offered, failures>>

\* set_schedules_sent.  It commits inside the loop over sches, and the
\* statement after a commit throws: of the rows not yet sent, one is marked.
SetSchedulesSent ==
  /\ rpc = "mark"
  /\ \/ \E id \in sches \ sent : rcv_set_schedule_sent(id)
     \/ sches \subseteq sent /\ UNCHANGED db_vars
  /\ rpc' = AfterMark
  /\ UNCHANGED <<conn, backlog, sches, need_update, reply, offered, failures>>

SetSchedulesSentFails ==
  /\ rpc = "mark"
  /\ Failure
  /\ rpc' = AfterMark
  /\ UNCHANGED <<db_vars, conn, backlog, sches, need_update, reply, offered>>

DeactivationRequestsDone ==
  /\ rpc = "stamp"
  /\ deactivation_requests_done
  /\ rpc' = "close"
  /\ UNCHANGED <<conn, backlog, sches, need_update, reply, offered, failures>>

DeactivationRequestsDoneFails ==
  /\ rpc = "stamp"
  /\ Failure
  /\ rpc' = "close"
  /\ UNCHANGED <<db_vars, conn, backlog, sches, need_update, reply, offered>>

\* The vectors are local to the switch's cases.
Close ==
  /\ rpc = "close"
  /\ conn' = NoConn
  /\ sches' = {} /\ need_update' = FALSE
  /\ rpc' = "accept"
  /\ UNCHANGED <<db_vars, backlog, reply, offered, failures>>

Serve ==
  \/ Accept \/ RecvHeader \/ RecvHeaderFails
  \/ FetchValves \/ FetchSchedules \/ FetchFails
  \/ SendRsp
  \/ SetSchedulesSent \/ SetSchedulesSentFails
  \/ DeactivationRequestsDone \/ DeactivationRequestsDoneFails
  \/ Close

\* The process dies, its sockets with it (a signal, SIGPIPE from send).
ReceiverCrash ==
  /\ rpc # "down"
  /\ Failure
  /\ rpc' = "down"
  /\ conn' = NoConn
  /\ backlog' = << >>
  /\ sches' = {} /\ need_update' = FALSE
  /\ UNCHANGED <<db_vars, reply, offered>>

\* supervisord: autorestart=true
ReceiverRestart ==
  /\ rpc = "down"
  /\ rpc' = "accept"
  /\ UNCHANGED <<db_vars, conn, backlog, sches, need_update, reply, offered, failures>>
=============================================================================

-------------------------- MODULE BbdSystem_proofs --------------------------
(***************************************************************************)
(* Proofs about BbdSystem, for any devices, valves, schedule ids, length   *)
(* of the queue and number of failures.                                    *)
(***************************************************************************)
EXTENDS BbdSystem, SequenceTheorems, TLAPS

\* A connection on which device d waits is the one of its request in flight.
Asking(d, c) ==
  /\ flight[d] \in {"connected", "sent"} /\ stage[d] # "off"
  /\ c.header = (flight[d] = "sent")
  /\ c.type = RequestOf(stage[d])

ConnOfReceiver == conn = NoConn <=> rpc \in {"accept", "down"}

\* The connections and answers of a device belong to its one request in flight.
ConnInvOf(d) ==
  /\ flight[d] # "none" => stage[d] # "off"
  /\ \A k \in DOMAIN backlog : Mine(d, backlog[k]) => Asking(d, backlog[k]) /\ reply[d] = << >>
  /\ \A k, l \in DOMAIN backlog : Mine(d, backlog[k]) /\ Mine(d, backlog[l]) => k = l
  /\ Mine(d, conn) => /\ Asking(d, conn)
                      /\ \A k \in DOMAIN backlog : ~Mine(d, backlog[k])
                      /\ rpc \in {"header", "fetch", "send"} => reply[d] = << >>
                      /\ rpc \in {"fetch", "send"} => conn.header
  /\ reply[d] # << >> => flight[d] = "sent"

ConnInv == \A d \in Devices : ConnInvOf(d)

----------------------------------------------------------------------------
(* Types.                                                                  *)

LEMMA ConnTypes ==
  ASSUME TypeOK, ConnOfReceiver, rpc \notin {"accept", "down"}
  PROVE  conn \in Connections /\ conn.dev \in Devices
BY DEF TypeOK, ConnOfReceiver, Connections

\* Setting a field changes the connections of that device and nothing else of them.
LEMMA OnMineTypes ==
  ASSUME TypeOK, NEW d \in Devices, NEW field \in {"header", "waiting"}, NEW value \in BOOLEAN,
         OnMine(d, field, value)
  PROVE  /\ conn' \in Connections \cup {NoConn} /\ (conn' = NoConn <=> conn = NoConn)
         /\ backlog' \in Seq(Connections) /\ Len(backlog') = Len(backlog)
         /\ DOMAIN backlog' = DOMAIN backlog
<1>1. ASSUME NEW c \in Connections PROVE [c EXCEPT ![field] = value] \in Connections
  BY <1>1 DEF Connections
<1>2. conn' \in Connections \cup {NoConn} /\ (conn' = NoConn <=> conn = NoConn)
  BY <1>1, NoConnAssumption DEF OnMine, Mine, TypeOK
<1>3. \A k \in 1..Len(backlog) : backlog[k] \in Connections
  BY DEF TypeOK
<1>4. backlog' = [k \in 1..Len(backlog) |-> IF Mine(d, backlog[k]) THEN [backlog[k] EXCEPT ![field] = value] ELSE backlog[k]]
  BY DEF OnMine, TypeOK
<1>5. backlog' \in Seq(Connections) /\ Len(backlog') = Len(backlog)
  BY <1>1, <1>3, <1>4, Len(backlog) \in Nat DEF TypeOK
<1>6. QED
  BY <1>2, <1>4, <1>5

LEMMA StopsWaiting ==
  ASSUME TypeOK, NEW d \in Devices, OnMine(d, "waiting", FALSE)
  PROVE  /\ \A e \in Devices :
              /\ Mine(e, conn') <=> e # d /\ Mine(e, conn)
              /\ Mine(e, conn') => conn' = conn
              /\ \A k \in DOMAIN backlog :
                   /\ Mine(e, backlog'[k]) <=> e # d /\ Mine(e, backlog[k])
                   /\ Mine(e, backlog'[k]) => backlog'[k] = backlog[k]
         /\ conn # NoConn => /\ conn'.dev = conn.dev /\ conn'.type = conn.type
                             /\ conn'.header = conn.header
<1>1. ASSUME NEW c \in Connections
      PROVE  /\ [c EXCEPT !["waiting"] = FALSE].dev = c.dev /\ [c EXCEPT !["waiting"] = FALSE].type = c.type
             /\ [c EXCEPT !["waiting"] = FALSE].header = c.header
             /\ [c EXCEPT !["waiting"] = FALSE].waiting = FALSE
             /\ [c EXCEPT !["waiting"] = FALSE] # NoConn
  BY <1>1, NoConnAssumption DEF Connections
<1>2. /\ \A k \in DOMAIN backlog : backlog[k] \in Connections /\ backlog[k] # NoConn
      /\ conn # NoConn => conn \in Connections
  BY NoConnAssumption DEF TypeOK
<1>3. QED
  BY <1>1, <1>2 DEF OnMine, Mine

LEMMA HeaderArrives ==
  ASSUME TypeOK, NEW d \in Devices, OnMine(d, "header", TRUE)
  PROVE  /\ \A k \in DOMAIN backlog : backlog'[k].waiting = backlog[k].waiting
         /\ \A e \in Devices :
              /\ Mine(e, conn') <=> Mine(e, conn)
              /\ Mine(e, conn') /\ e # d => conn' = conn
              /\ Mine(d, conn') => conn'.header = TRUE
              /\ \A k \in DOMAIN backlog :
                   /\ Mine(e, backlog'[k]) <=> Mine(e, backlog[k])
                   /\ Mine(e, backlog'[k]) /\ e # d => backlog'[k] = backlog[k]
                   /\ Mine(d, backlog'[k]) => backlog'[k].header = TRUE /\ backlog'[k].type = backlog[k].type
         /\ conn # NoConn => conn'.dev = conn.dev /\ conn'.type = conn.type /\ conn'.waiting = conn.waiting
<1>1. ASSUME NEW c \in Connections
      PROVE  /\ [c EXCEPT !["header"] = TRUE].dev = c.dev /\ [c EXCEPT !["header"] = TRUE].type = c.type
             /\ [c EXCEPT !["header"] = TRUE].waiting = c.waiting
             /\ [c EXCEPT !["header"] = TRUE].header = TRUE
             /\ [c EXCEPT !["header"] = TRUE] # NoConn
  BY <1>1, NoConnAssumption DEF Connections
<1>2. /\ \A k \in DOMAIN backlog : backlog[k] \in Connections /\ backlog[k] # NoConn
      /\ conn # NoConn => conn \in Connections
  BY NoConnAssumption DEF TypeOK
<1>3. QED
  BY ZenonT(40), <1>1, <1>2 DEF OnMine, Mine

\* What the receiver has fetched belongs to the device it answers.
Fetched ==
  /\ rpc = "send" /\ conn.type = "GET_DEVICE_VALVES" =>
       sches = rcv_get_device_valves(conn.dev) /\ need_update
  /\ rpc = "send" /\ conn.type # "GET_DEVICE_VALVES" => sches \subseteq RowsOf(conn.dev)
  /\ rpc = "mark" => conn.type # "GET_DEVICE_VALVES" /\ sches \subseteq RowsOf(conn.dev)

BaseInv == TypeOK /\ ConnOfReceiver /\ Fetched

\* What a device has been told belongs to it.
TableInvOf(d) ==
  /\ stage[d] \in {"off", "valves"} => vtable[d] = {}
  /\ stage[d] # "run" => list[d] = {}
  /\ stage[d] \in {"schedules", "run"} => vtable[d] = rcv_get_device_valves(d)
  /\ list[d] \subseteq RowsOf(d)
  /\ reply[d] # << >> =>
       IF stage[d] = "valves" THEN Head(reply[d]) = rcv_get_device_valves(d)
                              ELSE Head(reply[d]) \subseteq RowsOf(d)

TableInv == \A d \in Devices : TableInvOf(d)

LEMMA BaseInit == Init => BaseInv /\ ConnInv /\ TableInv
<1> SUFFICES ASSUME Init PROVE BaseInv /\ ConnInv /\ TableInv
  OBVIOUS
<1> USE DEF Init, DbInit, ReceiverInit
<1>1. TypeOK
  <2>1. Rows = {}
    BY DEF Rows
  <2>2. << >> \in Seq(Connections) /\ Len(<< >>) = 0 /\ << >> \in Seq(SUBSET (Ids \cup Valves))
    OBVIOUS
  <2>3. NothingAsked \in [rows : SUBSET Ids, gone : SUBSET Ids]
    BY DEF NothingAsked
  <2>4. QED
    <3>1. backlog \in Seq(Connections) /\ Len(backlog) <= Backlog
      BY <2>2, BacklogAssumption
    <3>2. reply \in [Devices -> Seq(SUBSET (Ids \cup Valves))] /\ \A d \in Devices : Len(reply[d]) <= 1
      BY <2>2
    <3>3. failures \in 0..MaxFailures
      BY FailuresAssumption
    <3>4. asked \in [Devices -> [rows : SUBSET Ids, gone : SUBSET Ids]]
      BY <2>3
    <3>5. QED
      BY <2>1, <3>1, <3>2, <3>3, <3>4 DEF TypeOK, ReceiverPcs, Stages, Flights
<1>2. ConnOfReceiver /\ Fetched
  BY DEF ConnOfReceiver, Fetched
<1>3. ConnInv /\ TableInv
  BY DEF ConnInv, ConnInvOf, TableInv, TableInvOf, Mine
<1>4. QED
  BY <1>1, <1>2, <1>3 DEF BaseInv

\* Requests of the web site.
LEMMA WebTypes ==
  ASSUME TypeOK, CreateSchedule \/ DeactivateSchedule
  PROVE  /\ valve_of' \in [Ids -> Valves \cup {NoValve}]
         /\ sent' \subseteq Rows' /\ active' \subseteq Rows' /\ stamped' \subseteq Rows'
         /\ \A id \in Rows : id \in Rows' /\ valve_of'[id] = valve_of[id]
         /\ \A d \in Devices : RowsOf(d) \subseteq RowsOf(d)'
         /\ Rows \cap active' \subseteq active /\ sent' = sent
         /\ UNCHANGED <<rcv_vars, client_vars>>
<1>1. CASE CreateSchedule
  <2>1. PICK v \in Valves, id \in Ids \ Rows :
          /\ valve_of' = [valve_of EXCEPT ![id] = v]
          /\ active' = active \cup {id} /\ UNCHANGED <<sent, stamped, rcv_vars, client_vars>>
    BY <1>1 DEF CreateSchedule, web_create_new_schedule
  <2>2. valve_of' \in [Ids -> Valves \cup {NoValve}] /\ valve_of'[id] = v
        /\ \A j \in Ids \ {id} : valve_of'[j] = valve_of[j]
    BY <2>1 DEF TypeOK
  <2>3. Rows' = Rows \cup {id}
    BY <2>1, <2>2, NoValveAssumption DEF Rows
  <2>4. QED
    BY <2>1, <2>2, <2>3 DEF TypeOK, RowsOf, Rows
<1>2. CASE DeactivateSchedule
  BY <1>2 DEF TypeOK, DeactivateSchedule, web_deactivate_schedule_request, Rows, RowsOf
<1>3. QED
  BY <1>1, <1>2

LEMMA FailureTypes == TypeOK /\ Failure => failures' \in 0..MaxFailures
BY FailuresAssumption DEF TypeOK, Failure

LEMMA FetchTypes ==
  ASSUME TypeOK, NEW d \in Devices
  PROVE  /\ rcv_get_device_valves(d) \subseteq Valves
         /\ rcv_get_active_schedules(d) \subseteq RowsOf(d) /\ RowsOf(d) \subseteq Rows /\ Rows \subseteq Ids
BY DEF TypeOK, rcv_get_device_valves, rcv_get_active_schedules, RowsOf, Rows

LEMMA SilencedTypes ==
  ASSUME TypeOK, NEW D \in SUBSET Devices, silent' \in Silenced(D)
  PROVE  silent' \subseteq Devices
BY DEF TypeOK, Silenced

LEMMA ReceiverTypes ==
  ASSUME BaseInv, Serve \/ ReceiverCrash \/ ReceiverRestart, UNCHANGED <<main_vars, flight, asked>>,
         silent' \subseteq Devices
  PROVE  BaseInv'
<1> USE DEF BaseInv, Fetched, db_vars, main_vars, ReceiverPcs, RowsOf, rcv_get_device_valves
<1>1. CASE Accept
  <2>1. conn' \in Connections /\ backlog' \in Seq(Connections) /\ Len(backlog') <= Backlog
    BY <1>1, BacklogAssumption, HeadTailProperties DEF Accept, TypeOK
  <2>2. QED
    BY <1>1, <2>1, NoConnAssumption DEF Accept, TypeOK, ConnOfReceiver, Rows
<1>2. CASE RecvHeader \/ RecvHeaderFails
  BY <1>2, FailuresAssumption DEF RecvHeader, RecvHeaderFails, Failure, TypeOK, ConnOfReceiver, Rows
<1>3. CASE FetchValves \/ FetchSchedules \/ FetchFails
  <2>1. conn.dev \in Devices /\ UNCHANGED <<db_vars, conn, backlog, reply, offered>>
    BY <1>3, ConnTypes DEF FetchValves, FetchSchedules, FetchFails
  <2>2. sches' \in SUBSET (Ids \cup Valves) /\ need_update' \in BOOLEAN /\ failures' \in 0..MaxFailures
    <3>1. CASE FetchValves \/ FetchSchedules
      BY <2>1, <3>1, FetchTypes DEF FetchValves, FetchSchedules, TypeOK
    <3>2. CASE FetchFails
      BY <3>2, FailureTypes DEF FetchFails, TypeOK
    <3>3. QED
      BY <1>3, <3>1, <3>2
  <2>3. TypeOK' /\ ConnOfReceiver'
    BY <1>3, <2>1, <2>2 DEF FetchValves, FetchSchedules, FetchFails, TypeOK, ConnOfReceiver, Rows
  <2>4. Fetched'
    BY <1>3, <2>1, FetchTypes DEF FetchValves, FetchSchedules, FetchFails, Rows
  <2>5. QED
    BY <2>3, <2>4
<1>4. CASE SendRsp
  <2>1. reply' \in [Devices -> Seq(SUBSET (Ids \cup Valves))] /\ \A d \in Devices : Len(reply'[d]) <= 1
    <3>1. ASSUME NEW s \in SUBSET (Ids \cup Valves)
          PROVE <<s>> \in Seq(SUBSET (Ids \cup Valves)) /\ Len(<<s>>) = 1
      OBVIOUS
    <3>2. QED
      BY <1>4, <3>1, ConnTypes DEF SendRsp, TypeOK
  <2>2. offered' \subseteq Ids
    BY <1>4 DEF SendRsp, TypeOK, Rows
  <2>3. QED
    BY <1>4, <2>1, <2>2 DEF SendRsp, TypeOK, ConnOfReceiver, Rows
<1>5. CASE SetSchedulesSent
  <2>1. sent' \subseteq Rows /\ UNCHANGED <<valve_of, active, stamped>>
    BY <1>5 DEF SetSchedulesSent, rcv_set_schedule_sent, TypeOK
  <2>2. QED
    BY <1>5, <2>1 DEF SetSchedulesSent, AfterMark, TypeOK, ConnOfReceiver, Rows
<1>6. CASE SetSchedulesSentFails \/ DeactivationRequestsDone \/ DeactivationRequestsDoneFails
  BY <1>6, FailuresAssumption DEF SetSchedulesSentFails, DeactivationRequestsDone, DeactivationRequestsDoneFails, AfterMark,
              deactivation_requests_done, deactivation_requests_done_rows, Failure, TypeOK,
              ConnOfReceiver, Rows
<1>7. CASE Close \/ ReceiverRestart
  BY <1>7 DEF Close, ReceiverRestart, TypeOK, ConnOfReceiver, Rows
<1>8. CASE ReceiverCrash
  <2>1. backlog' \in Seq(Connections) /\ Len(backlog') <= Backlog /\ failures' \in 0..MaxFailures
    BY <1>8, BacklogAssumption, FailureTypes DEF ReceiverCrash
  <2>2. QED
    BY <1>8, <2>1 DEF ReceiverCrash, TypeOK, ConnOfReceiver, Rows
<1>9. QED
  BY <1>1, <1>2, <1>3, <1>4, <1>5, <1>6, <1>7, <1>8 DEF Serve

\* The steps of a device by what they do to its state.
LEMMA FinishTypes ==
  ASSUME TypeOK, NEW d \in Devices, Finish(d)
  PROVE  /\ flight' \in [Devices -> Flights] /\ asked' \in [Devices -> [rows : SUBSET Ids, gone : SUBSET Ids]]
         /\ flight'[d] = "none" /\ asked'[d] = NothingAsked /\ silent' \subseteq Devices
         /\ \A e \in Devices \ {d} : flight'[e] = flight[e] /\ asked'[e] = asked[e]
BY DEF TypeOK, Finish, Flights, NothingAsked

LEMMA GiveUpTypes ==
  ASSUME TypeOK, NEW d \in Devices, GiveUp(d)
  PROVE  /\ stage' \in [Devices -> Stages] /\ vtable' \in [Devices -> SUBSET Valves]
         /\ list' \in [Devices -> SUBSET Ids]
         /\ \A e \in Devices \ {d} : UNCHANGED <<stage[e], vtable[e], list[e]>>
         /\ stage[d] = "run" => UNCHANGED <<stage[d], vtable[d], list[d]>>
         /\ stage[d] # "run" => stage'[d] = "off" /\ vtable'[d] = {} /\ list'[d] = {}
BY ZenonT(40) DEF TypeOK, GiveUp, Stages

LEMMA DeviceTypes ==
  ASSUME BaseInv, ConnInv, TableInv, NEW d \in Devices,
         Start(d) \/ Proceed(d) \/ Check(d) \/ ConnectionBreaks(d) \/ DeviceCrash(d)
  PROVE  BaseInv'
<1> USE DEF BaseInv
<1>0. ASSUME UNCHANGED <<db_vars, rpc, sches, need_update>>,
             conn # NoConn => conn'.dev = conn.dev /\ conn'.type = conn.type
      PROVE  Fetched'
  BY <1>0 DEF Fetched, ConnOfReceiver, db_vars, RowsOf, Rows, rcv_get_device_valves
<1>1. CASE Start(d)
  BY <1>0, <1>1 DEF Start, TypeOK, ConnOfReceiver, db_vars, rcv_vars, Rows, Stages
<1>11. CASE Call(d)
  BY <1>0, <1>11 DEF Call, TypeOK, ConnOfReceiver, db_vars, rcv_vars, main_vars, Rows, Flights
<1>2. CASE Connect(d)
  <2>1. RequestOf(stage[d]) \in RequestTypes
    BY <1>2 DEF Connect, RequestOf, RequestTypes, TypeOK, Stages, ConnInv, ConnInvOf
  <2>2. backlog' \in Seq(Connections) /\ Len(backlog') <= Backlog
    BY <1>2, <2>1, BacklogAssumption DEF Connect, TypeOK, Connections
  <2>3. QED
    BY <1>0, <1>2, <2>2 DEF Connect, TypeOK, ConnOfReceiver, db_vars, Rows, main_vars, Flights
<1>3. CASE ConnectFails(d) \/ ReceiveError(d)
  <2>1. /\ GiveUp(d) /\ Finish(d) /\ failures' \in 0..MaxFailures
        /\ UNCHANGED <<db_vars, rpc, conn, backlog, sches, need_update, reply, offered>>
    BY <1>3, FailureTypes DEF ConnectFails, ReceiveError, GiveUp, rcv_vars, TypeOK
  <2>2. QED
    BY <1>0, <2>1, GiveUpTypes, FinishTypes DEF TypeOK, ConnOfReceiver, db_vars, Rows
<1>4. CASE SendHeader(d)
  <2>1. asked' \in [Devices -> [rows : SUBSET Ids, gone : SUBSET Ids]]
    BY <1>4, FetchTypes DEF SendHeader, TypeOK
  <2>2. QED
    BY <1>0, <1>4, <2>1, OnMineTypes, HeaderArrives DEF SendHeader, TypeOK, ConnOfReceiver, db_vars, Rows, main_vars, Flights
<1>5. ASSUME Finish(d), OnMine(d, "waiting", FALSE), reply' = [reply EXCEPT ![d] = << >>],
             UNCHANGED <<db_vars, rpc, sches, need_update, offered>>, failures' \in 0..MaxFailures,
             stage' \in [Devices -> Stages], vtable' \in [Devices -> SUBSET Valves],
             list' \in [Devices -> SUBSET Ids]
      PROVE  BaseInv'
  <2>1. reply' \in [Devices -> Seq(SUBSET (Ids \cup Valves))] /\ \A e \in Devices : Len(reply'[e]) <= 1
    BY <1>5 DEF TypeOK
  <2>2. QED
    BY <1>0, <1>5, <2>1, OnMineTypes, StopsWaiting, FinishTypes DEF TypeOK, ConnOfReceiver, db_vars, Rows
<1>6. CASE ReceiveValves(d)
  <2>1. CASE Head(reply[d]) = {}
    BY <1>5, <1>6, <2>1, GiveUpTypes DEF ReceiveValves, GiveUp, TypeOK
  <2>2. CASE Head(reply[d]) # {}
    <3>1. Head(reply[d]) \in SUBSET Valves
      BY <1>6, FetchTypes DEF ReceiveValves, TableInv, TableInvOf
    <3>2. QED
      BY <1>5, <1>6, <2>2, <3>1 DEF ReceiveValves, TypeOK, Stages
  <2>3. QED
    BY <2>1, <2>2
<1>7. CASE ReceiveSchedules(d)
  <2>1. Head(reply[d]) \in SUBSET Ids
    BY <1>7, FetchTypes DEF ReceiveSchedules, TableInv, TableInvOf
  <2>2. QED
    BY <1>5, <1>7, <2>1 DEF ReceiveSchedules, TypeOK, Stages
<1>8. CASE ConnectionBreaks(d)
  <2>1. OnMine(d, "waiting", FALSE) /\ failures' \in 0..MaxFailures
        /\ UNCHANGED <<db_vars, rpc, sches, need_update, reply, offered, main_vars, flight, asked>>
        /\ silent' \subseteq Devices
    BY <1>8, FailureTypes, SilencedTypes DEF ConnectionBreaks
  <2>2. QED
    BY <1>0, <2>1, OnMineTypes, StopsWaiting DEF TypeOK, ConnOfReceiver, db_vars, Rows, main_vars
<1>9. CASE DeviceCrash(d)
  BY <1>5, <1>9, FailuresAssumption DEF DeviceCrash, Failure, TypeOK, Stages
<1>10. QED
  BY <1>1, <1>2, <1>3, <1>4, <1>6, <1>7, <1>8, <1>9, <1>11 DEF Proceed, Check

LEMMA BaseStep == BaseInv /\ ConnInv /\ TableInv /\ [Next]_vars => BaseInv'
<1> SUFFICES ASSUME BaseInv, ConnInv, TableInv, [Next]_vars PROVE BaseInv'
  OBVIOUS
<1>1. CASE CreateSchedule \/ DeactivateSchedule
  <2>1. Fetched'
    BY <1>1, WebTypes, ConnTypes DEF Fetched, BaseInv, rcv_get_device_valves, rcv_vars
  <2>2. QED
    BY <1>1, <2>1, WebTypes DEF BaseInv, TypeOK, ConnOfReceiver, rcv_vars, client_vars, main_vars
<1>2. CASE ReceiverServes \/ ReceiverDies \/ ReceiverReturns
  <2>1. UNCHANGED <<main_vars, flight, asked>> /\ silent' \subseteq Devices
    BY <1>2, SilencedTypes DEF ReceiverServes, ReceiverDies, ReceiverReturns, client_vars, BaseInv, TypeOK
  <2>2. QED
    BY <1>2, <2>1, ReceiverTypes DEF ReceiverServes, ReceiverDies, ReceiverReturns
<1>3. ASSUME NEW d \in Devices,
             Start(d) \/ Proceed(d) \/ Check(d) \/ ConnectionBreaks(d) \/ DeviceCrash(d)
      PROVE  BaseInv'
  BY <1>3, DeviceTypes
<1>4. CASE UNCHANGED vars
  BY <1>4 DEF vars, db_vars, rcv_vars, client_vars, main_vars, BaseInv, TypeOK, ConnOfReceiver,
              Fetched, Rows, RowsOf, rcv_get_device_valves
<1>5. QED
  BY <1>1, <1>2, <1>3, <1>4 DEF Next

----------------------------------------------------------------------------
(* Connections.                                                            *)

\* A device whose request is over, and nothing else, stops waiting.
LEMMA ConnEnds ==
  ASSUME TypeOK, ConnInv, NEW d \in Devices, OnMine(d, "waiting", FALSE), rpc' = rpc,
         \A e \in Devices \ {d} : flight'[e] = flight[e] /\ stage'[e] = stage[e] /\ reply'[e] = reply[e],
         flight'[d] # "none" => flight'[d] = flight[d] /\ stage'[d] = stage[d],
         reply'[d] = << >>
  PROVE  ConnInv'
<1> USE DEF ConnInv
<1>1. DOMAIN backlog' = DOMAIN backlog
  BY OnMineTypes
<1> TAKE e \in Devices
<1>2. CASE e = d
  BY <1>1, <1>2, StopsWaiting DEF ConnInv, ConnInvOf
<1>3. CASE e # d
  <2>1. /\ Mine(e, conn') <=> Mine(e, conn)
        /\ Mine(e, conn') => conn' = conn
        /\ \A k \in DOMAIN backlog : /\ Mine(e, backlog'[k]) <=> Mine(e, backlog[k])
                                     /\ Mine(e, backlog'[k]) => backlog'[k] = backlog[k]
    BY <1>3, StopsWaiting
  <2>2. ConnInvOf(e)
    BY DEF ConnInv
  <2>3. QED
    BY <1>1, <1>3, <2>1, <2>2 DEF ConnInvOf, Asking
<1>4. QED
  BY <1>2, <1>3

LEMMA DeviceConn ==
  ASSUME BaseInv, ConnInv, NEW d \in Devices,
         Start(d) \/ Proceed(d) \/ Check(d) \/ ConnectionBreaks(d) \/ DeviceCrash(d)
  PROVE  ConnInv'
<1> USE DEF BaseInv, ConnInv
<1>1. CASE Start(d)
  BY <1>1 DEF Start, ConnInvOf, Asking, Mine, rcv_vars, TypeOK
<1>10. CASE Call(d)
  BY <1>10 DEF Call, ConnInvOf, Asking, Mine, rcv_vars, main_vars, TypeOK
<1>2. CASE Connect(d)
  <2> TAKE e \in Devices
  <2>1. /\ DOMAIN backlog' = DOMAIN backlog \cup {Len(backlog) + 1}
        /\ \A k \in DOMAIN backlog : backlog'[k] = backlog[k] /\ k # Len(backlog) + 1
        /\ Mine(e, backlog'[Len(backlog) + 1]) => e = d
        /\ backlog'[Len(backlog) + 1].header = FALSE
        /\ backlog'[Len(backlog) + 1].type = RequestOf(stage[d])
    BY <1>2 DEF Connect, Mine, TypeOK
  <2>2. ConnInvOf(e) /\ ConnInvOf(d) /\ flight[d] = "connecting" /\ stage[d] # "off"
        /\ UNCHANGED <<stage, reply, rpc, conn>>
        /\ flight' = [flight EXCEPT ![d] = "connected"]
    BY <1>2 DEF Connect, main_vars, ConnInvOf
  <2>3. CASE e = d
    <3>1. ~Mine(d, conn) /\ (\A k \in DOMAIN backlog : ~Mine(d, backlog[k])) /\ reply[d] = << >>
      BY <2>2 DEF ConnInvOf, Asking
    <3>2. \A k \in DOMAIN backlog' : Mine(d, backlog'[k]) => k = Len(backlog) + 1
      BY <2>1, <3>1 DEF Mine
    <3>3. flight'[d] = "connected"
      BY <2>2 DEF TypeOK
    <3>4. Mine(d, conn)' <=> Mine(d, conn)
      BY <2>2 DEF Mine
    <3>5. \A k \in DOMAIN backlog' : Mine(d, backlog[k])' => Asking(d, backlog[k])' /\ reply'[d] = << >>
      BY <2>1, <2>2, <3>1, <3>2, <3>3 DEF Asking, Mine
    <3>6. QED
      BY <2>2, <2>3, <3>1, <3>2, <3>3, <3>4, <3>5 DEF ConnInvOf, Mine
  <2>4. CASE e # d
    BY <2>1, <2>2, <2>4 DEF ConnInvOf, Asking, Mine, TypeOK
  <2>5. QED
    BY <2>3, <2>4
<1>3. CASE ConnectFails(d) \/ ReceiveError(d)
  BY <1>3, GiveUpTypes, FinishTypes DEF ConnectFails, ReceiveError, GiveUp, Awaited, ConnInvOf, Asking, rcv_vars, Mine
<1>4. CASE SendHeader(d)
  <2> TAKE e \in Devices
  <2>1. /\ DOMAIN backlog' = DOMAIN backlog /\ flight' = [flight EXCEPT ![d] = "sent"] /\ flight[d] = "connected"
        /\ UNCHANGED <<stage, reply, rpc>> /\ ConnInvOf(e)
    BY <1>4, OnMineTypes DEF SendHeader, main_vars
  <2>2. CASE e = d
    <3>1. flight'[d] = "sent" /\ OnMine(d, "header", TRUE)
      BY <1>4, <2>1 DEF SendHeader, TypeOK
    <3>2. /\ Mine(d, conn') <=> Mine(d, conn)
          /\ Mine(d, conn') => conn'.header = TRUE /\ conn'.type = conn.type
          /\ \A k \in DOMAIN backlog :
               /\ Mine(d, backlog'[k]) <=> Mine(d, backlog[k])
               /\ Mine(d, backlog'[k]) => backlog'[k].header = TRUE /\ backlog'[k].type = backlog[k].type
      BY ZenonT(40), <3>1, HeaderArrives DEF Mine
    <3>3. QED
      BY ZenonT(40), <2>1, <2>2, <3>1, <3>2 DEF ConnInvOf, Asking
  <2>3. CASE e # d
    <3>1. flight'[e] = flight[e] /\ OnMine(d, "header", TRUE)
      BY <1>4, <2>1, <2>3 DEF SendHeader, TypeOK
    <3>2. /\ Mine(e, conn') <=> Mine(e, conn)
          /\ Mine(e, conn') => conn' = conn
          /\ \A k \in DOMAIN backlog :
               /\ Mine(e, backlog'[k]) <=> Mine(e, backlog[k])
               /\ Mine(e, backlog'[k]) => backlog'[k] = backlog[k]
      BY <2>3, <3>1, HeaderArrives
    <3>3. QED
      BY <2>1, <3>1, <3>2 DEF ConnInvOf, Asking
  <2>4. QED
    BY <2>2, <2>3
<1>5. CASE ReceiveValves(d)
  BY ZenonT(40), <1>5, ConnEnds, GiveUpTypes, FinishTypes DEF ReceiveValves, TypeOK, GiveUp
<1>6. CASE ReceiveSchedules(d)
  BY <1>6, ConnEnds, FinishTypes DEF ReceiveSchedules, TypeOK
<1>7. CASE ConnectionBreaks(d)
  BY <1>7, ConnEnds DEF ConnectionBreaks, main_vars
<1>8. CASE DeviceCrash(d)
  BY <1>8, ConnEnds, FinishTypes DEF DeviceCrash, TypeOK
<1>9. QED
  BY <1>1, <1>2, <1>3, <1>4, <1>5, <1>6, <1>7, <1>8, <1>10 DEF Proceed, Check

LEMMA ConnStep == BaseInv /\ ConnInv /\ [Next]_vars => ConnInv'
<1> SUFFICES ASSUME BaseInv, ConnInv, [Next]_vars PROVE ConnInv'
  OBVIOUS
<1> USE DEF BaseInv, ConnInv
<1>1. CASE CreateSchedule \/ DeactivateSchedule \/ UNCHANGED vars
  BY <1>1 DEF CreateSchedule, DeactivateSchedule, vars, ConnInvOf, Asking, Mine, rcv_vars, client_vars, main_vars
<1>2. ASSUME NEW d \in Devices,
             Start(d) \/ Proceed(d) \/ Check(d) \/ ConnectionBreaks(d) \/ DeviceCrash(d)
      PROVE  ConnInv'
  BY <1>2, DeviceConn
<1>3. CASE ReceiverServes
  <2>1. CASE Accept
    <3>1. /\ conn' = backlog[1] /\ DOMAIN backlog' = 1..Len(backlog) - 1 /\ 1 \in DOMAIN backlog
          /\ \A k \in DOMAIN backlog' : backlog'[k] = backlog[k + 1] /\ k + 1 \in DOMAIN backlog
      BY <2>1, HeadTailProperties DEF Accept, TypeOK
    <3>2. QED
      BY <1>3, <2>1, <3>1 DEF ReceiverServes, Accept, ConnInvOf, Asking, Mine, client_vars, main_vars
  <2>2. CASE RecvHeader \/ RecvHeaderFails \/ FetchValves \/ FetchSchedules \/ FetchFails
    BY <1>3, <2>2 DEF ReceiverServes, RecvHeader, RecvHeaderFails, FetchValves, FetchSchedules, FetchFails,
                      ConnInvOf, Asking, Mine, client_vars, main_vars
  <2>3. CASE SendRsp
    <3> TAKE e \in Devices
    <3>1. /\ UNCHANGED <<conn, backlog, flight, stage>> /\ rpc = "send" /\ rpc' \in {"close", "mark"}
          /\ (conn.waiting /\ conn.dev = e) \/ reply'[e] = reply[e]
          /\ conn # NoConn
      BY <1>3, <2>3, ConnTypes DEF ReceiverServes, SendRsp, client_vars, main_vars, TypeOK, ConnOfReceiver
    <3>2. Mine(e, conn) <=> conn.waiting /\ conn.dev = e
      BY <3>1 DEF Mine
    <3>3. ConnInvOf(e)
      OBVIOUS
    <3>4. CASE Mine(e, conn)
      BY <3>1, <3>3, <3>4 DEF ConnInvOf, Asking, Mine
    <3>5. CASE ~Mine(e, conn)
      BY <3>1, <3>2, <3>3, <3>5 DEF ConnInvOf, Asking, Mine
    <3>6. QED
      BY <3>4, <3>5
  <2>4. CASE SetSchedulesSent \/ SetSchedulesSentFails \/ DeactivationRequestsDone \/ DeactivationRequestsDoneFails
    BY <1>3, <2>4 DEF ReceiverServes, SetSchedulesSent, SetSchedulesSentFails, DeactivationRequestsDone,
                      DeactivationRequestsDoneFails, AfterMark, ConnInvOf, Asking, Mine, client_vars, main_vars
  <2>5. CASE Close
    BY <1>3, <2>5 DEF ReceiverServes, Close, ConnInvOf, Asking, Mine, client_vars, main_vars
  <2>6. QED
    BY <1>3, <2>1, <2>2, <2>3, <2>4, <2>5 DEF ReceiverServes, Serve
<1>4. CASE ReceiverDies \/ ReceiverReturns
  BY <1>4 DEF ReceiverDies, ReceiverReturns, ReceiverCrash, ReceiverRestart, ConnInvOf, Asking, Mine, client_vars, main_vars, ConnOfReceiver
<1>5. QED
  BY <1>1, <1>2, <1>3, <1>4 DEF Next
----------------------------------------------------------------------------
(* Tables and lists.                                                       *)

LEMMA TableStep == BaseInv /\ ConnInv /\ TableInv /\ [Next]_vars => TableInv'
<1> SUFFICES ASSUME BaseInv, ConnInv, TableInv, [Next]_vars, NEW e \in Devices PROVE TableInvOf(e)'
  BY DEF TableInv
<1> USE DEF BaseInv, rcv_get_device_valves
<1>0. TableInvOf(e) /\ ConnInvOf(e)
  BY DEF TableInv, ConnInv
<1>1. CASE CreateSchedule \/ DeactivateSchedule
  BY <1>0, <1>1, WebTypes DEF TableInvOf, rcv_vars, client_vars, main_vars
<1>2. ASSUME UNCHANGED <<db_vars, stage[e], vtable[e], list[e]>>, reply'[e] \in {reply[e], << >>}
      PROVE  TableInvOf(e)'
  BY <1>0, <1>2 DEF TableInvOf, RowsOf, Rows, db_vars
<1>3. CASE UNCHANGED vars
  BY <1>2, <1>3 DEF vars, rcv_vars, client_vars, main_vars
<1>4. CASE ReceiverDies \/ ReceiverReturns
  BY <1>2, <1>4 DEF ReceiverDies, ReceiverReturns, ReceiverCrash, ReceiverRestart, client_vars, main_vars
<1>5. CASE ReceiverServes
  <2>1. UNCHANGED <<stage, vtable, list>>
    BY <1>5 DEF ReceiverServes, client_vars, main_vars
  <2>2. CASE Accept \/ RecvHeader \/ RecvHeaderFails \/ FetchValves \/ FetchSchedules \/ FetchFails \/ Close
             \/ SetSchedulesSentFails \/ DeactivationRequestsDoneFails
    BY <1>2, <2>1, <2>2 DEF Accept, RecvHeader, RecvHeaderFails, FetchValves, FetchSchedules, FetchFails,
                            Close, SetSchedulesSentFails, DeactivationRequestsDoneFails
  <2>3. CASE SetSchedulesSent \/ DeactivationRequestsDone
    <3>1. UNCHANGED <<valve_of, reply>>
      BY <2>3 DEF SetSchedulesSent, DeactivationRequestsDone, rcv_set_schedule_sent,
                  deactivation_requests_done, db_vars
    <3>2. QED
      BY <1>0, <2>1, <3>1 DEF TableInvOf, RowsOf, Rows
  <2>4. CASE SendRsp
    <3>1. CASE reply'[e] = reply[e]
      BY <1>2, <2>1, <2>4, <3>1 DEF SendRsp
    <3>2. CASE reply'[e] # reply[e]
      <4>1. /\ conn.waiting /\ conn.dev = e /\ conn # NoConn /\ rpc = "send"
            /\ reply'[e] = <<IF need_update THEN sches ELSE {}>>
        BY <2>4, <3>2, ConnTypes DEF SendRsp, TypeOK, ConnOfReceiver
      <4>2. conn.type = RequestOf(stage[e]) /\ stage[e] \in Stages \ {"off"}
        BY <1>0, <4>1 DEF ConnInvOf, Mine, Asking, TypeOK
      <4>3. conn.type = "GET_DEVICE_VALVES" <=> stage[e] = "valves"
        BY <4>2 DEF RequestOf, Stages
      <4>4. IF stage[e] = "valves" THEN Head(reply'[e]) = rcv_get_device_valves(e)
                                   ELSE Head(reply'[e]) \subseteq RowsOf(e)
        BY <4>1, <4>3 DEF Fetched
      <4>5. UNCHANGED valve_of
        BY <2>4 DEF SendRsp, db_vars
      <4>6. QED
        BY <1>0, <2>1, <4>4, <4>5 DEF TableInvOf, RowsOf, Rows
    <3>3. QED
      BY <3>1, <3>2
  <2>5. QED
    BY <1>5, <2>2, <2>3, <2>4 DEF ReceiverServes, Serve
<1>6. ASSUME NEW d \in Devices,
             Start(d) \/ Proceed(d) \/ Check(d) \/ ConnectionBreaks(d) \/ DeviceCrash(d)
      PROVE  TableInvOf(e)'
  <2>1. UNCHANGED db_vars
    BY <1>6 DEF Start, Proceed, Check, ConnectionBreaks, DeviceCrash, Call, Connect, ConnectFails, SendHeader,
                ReceiveValves, ReceiveSchedules, ReceiveError
  <2>2. CASE d # e
    <3>1. UNCHANGED <<stage[e], vtable[e], list[e], reply[e]>>
      BY ZenonT(40), <1>6, <2>2, GiveUpTypes DEF Start, Proceed, Check, ConnectionBreaks, DeviceCrash, Call, Connect, ConnectFails,
         SendHeader, ReceiveValves, ReceiveSchedules, ReceiveError, main_vars, client_vars, rcv_vars, TypeOK
    <3>2. QED
      BY <1>2, <2>1, <3>1
  <2>3. ASSUME d = e, stage'[e] = "off", vtable'[e] = {}, list'[e] = {}, reply'[e] = << >>
        PROVE  TableInvOf(e)'
    BY <2>3 DEF TableInvOf
  <2>4. CASE d = e /\ Start(d)
    <3>1. reply[e] = << >>
      BY <1>0, <2>4 DEF ConnInvOf, Start
    <3>2. QED
      BY <1>0, <2>1, <2>4, <3>1 DEF Start, TableInvOf, rcv_vars, RowsOf, Rows, db_vars, TypeOK
  <2>5. CASE d = e /\ (Call(d) \/ Connect(d) \/ SendHeader(d) \/ ConnectionBreaks(d))
    BY <1>2, <2>1, <2>5 DEF Call, Connect, SendHeader, ConnectionBreaks, main_vars, rcv_vars
  <2>6. CASE d = e /\ (ConnectFails(d) \/ ReceiveError(d))
    <3>1. reply'[e] = reply[e] /\ reply[e] = << >> /\ GiveUp(e)
      BY <1>0, <2>6 DEF ConnectFails, ReceiveError, rcv_vars, ConnInvOf
    <3>2. QED
      BY <1>2, <2>1, <2>3, <2>6, <3>1, GiveUpTypes
  <2>7. CASE d = e /\ ReceiveValves(d)
    <3>1. reply'[e] = << >>
      BY <2>7 DEF ReceiveValves, TypeOK
    <3>2. CASE Head(reply[d]) = {}
      BY <2>3, <2>7, <3>1, <3>2, GiveUpTypes DEF ReceiveValves
    <3>3. CASE Head(reply[d]) # {}
      BY <1>0, <2>1, <2>7, <3>1, <3>3 DEF ReceiveValves, TableInvOf, TypeOK, RowsOf, Rows, db_vars
    <3>4. QED
      BY <3>2, <3>3
  <2>8. CASE d = e /\ ReceiveSchedules(d)
    BY <1>0, <2>1, <2>8 DEF ReceiveSchedules, TableInvOf, TypeOK, RowsOf, Rows, db_vars
  <2>9. CASE d = e /\ DeviceCrash(d)
    BY <2>3, <2>9 DEF DeviceCrash, TypeOK
  <2>10. QED
    BY <1>6, <2>2, <2>4, <2>5, <2>6, <2>7, <2>8, <2>9 DEF Proceed, Check
<1>7. QED
  BY <1>1, <1>3, <1>4, <1>5, <1>6 DEF Next

Inv == BaseInv /\ ConnInv /\ TableInv

LEMMA Invariance == Spec => []Inv
<1>1. Inv /\ [Next]_vars => Inv'
  BY BaseStep, ConnStep, TableStep DEF Inv
<1>2. QED
  BY BaseInit, <1>1, PTL DEF Spec, Inv

\* Every variable keeps its type, however many devices, rows and failures there are.
THEOREM TypeCorrect == Spec => []TypeOK
BY Invariance, PTL DEF Inv, BaseInv

\* A device is given only schedules for the valves in its own table.
THEOREM ListsFit == Spec => []ListsFitTables
<1>1. Inv => ListsFitTables
  <2> SUFFICES ASSUME Inv, NEW d \in Devices, NEW id \in list[d] PROVE valve_of[id] \in vtable[d]
    BY DEF ListsFitTables
  <2>1. id \in RowsOf(d) /\ stage[d] \in {"schedules", "run"}
    BY DEF Inv, TableInv, TableInvOf, BaseInv, TypeOK, Stages
  <2>2. QED
    BY <2>1 DEF Inv, TableInv, TableInvOf, BaseInv, TypeOK, RowsOf, Rows, rcv_get_device_valves
<1>2. QED
  BY <1>1, Invariance, PTL

----------------------------------------------------------------------------
(* What is marked as sent was in an answer.                                *)

OfferInv ==
  /\ sent \subseteq offered
  /\ rpc = "send" /\ ~need_update => sches \subseteq sent
  /\ rpc = "mark" => sches \subseteq sent \cup offered

LEMMA OfferStep == Inv /\ OfferInv /\ [Next]_vars => OfferInv'
<1> SUFFICES ASSUME Inv, OfferInv, [Next]_vars PROVE OfferInv'
  OBVIOUS
<1> USE DEF OfferInv
<1>1. CASE CreateSchedule \/ DeactivateSchedule \/ UNCHANGED vars
  BY <1>1, WebTypes DEF vars, rcv_vars, db_vars, Inv, BaseInv
<1>2. ASSUME NEW d \in Devices,
             Start(d) \/ Proceed(d) \/ Check(d) \/ ConnectionBreaks(d) \/ DeviceCrash(d)
      PROVE  UNCHANGED <<db_vars, rpc, sches, need_update, offered>>
  BY <1>2 DEF Start, Proceed, Check, ConnectionBreaks, DeviceCrash, Call, Connect, ConnectFails, SendHeader,
              ReceiveValves, ReceiveSchedules, ReceiveError, rcv_vars
<1>3. CASE ReceiverDies \/ ReceiverReturns
  BY <1>3 DEF ReceiverDies, ReceiverReturns, ReceiverCrash, ReceiverRestart, db_vars
<1>4. CASE ReceiverServes
  <2>1. CASE Accept \/ RecvHeader \/ RecvHeaderFails \/ FetchFails \/ Close \/ SetSchedulesSentFails
             \/ DeactivationRequestsDoneFails
    BY <2>1 DEF Accept, RecvHeader, RecvHeaderFails, FetchFails, Close, SetSchedulesSentFails,
                DeactivationRequestsDoneFails, AfterMark, db_vars
  <2>2. CASE FetchValves \/ FetchSchedules
    BY <2>2 DEF FetchValves, FetchSchedules, db_vars
  <2>3. CASE SendRsp
    BY <2>3 DEF SendRsp, db_vars
  <2>4. CASE SetSchedulesSent
    BY <2>4 DEF SetSchedulesSent, rcv_set_schedule_sent, AfterMark, db_vars
  <2>5. CASE DeactivationRequestsDone
    BY <2>5 DEF DeactivationRequestsDone, deactivation_requests_done
  <2>6. QED
    BY <1>4, <2>1, <2>2, <2>3, <2>4, <2>5 DEF ReceiverServes, Serve
<1>5. QED
  BY <1>1, <1>2, <1>3, <1>4 DEF Next, db_vars

\* Nothing is booked as sent that no answer ever contained.
THEOREM SentOffered == Spec => []SentWasOffered
<1>1. Init => OfferInv
  BY DEF Init, DbInit, ReceiverInit, OfferInv
<1>2. QED
  BY <1>1, Invariance, OfferStep, PTL DEF Spec, OfferInv, SentWasOffered

----------------------------------------------------------------------------
(* Answers are not older than the request.                                 *)

CurrentInvOf(d) ==
  /\ asked[d].rows \subseteq RowsOf(d)
  /\ asked[d].gone \subseteq RowsOf(d) \ active
  /\ Mine(d, conn) /\ rpc = "send" /\ conn.type # "GET_DEVICE_VALVES" =>
       /\ sches \cap asked[d].gone = {}
       /\ conn.type = "GET_ACTIVE_SCHES" =>
            need_update /\ (asked[d].rows \ asked[d].gone) \cap active \subseteq sches
  /\ reply[d] # << >> /\ stage[d] # "valves" =>
       /\ Head(reply[d]) \cap asked[d].gone = {}
       /\ stage[d] = "schedules" =>
            (asked[d].rows \ asked[d].gone) \cap active \subseteq Head(reply[d])

CurrentInv == \A d \in Devices : CurrentInvOf(d)

\* A device's step leaves the other devices and their connections alone.
LEMMA DeviceAlone ==
  ASSUME TypeOK, NEW d \in Devices, NEW e \in Devices \ {d},
         Start(d) \/ Proceed(d) \/ Check(d) \/ ConnectionBreaks(d) \/ DeviceCrash(d)
  PROVE  /\ UNCHANGED <<stage[e], flight[e], asked[e], reply[e], list[e]>>
         /\ Mine(e, conn)' <=> Mine(e, conn)
         /\ Mine(e, conn)' => conn' = conn
<1>1. CASE Start(d) \/ Call(d) \/ Connect(d)
  BY <1>1 DEF Start, Call, Connect, main_vars, rcv_vars, Mine, TypeOK
<1>2. CASE ConnectFails(d) \/ ReceiveError(d)
  <2>1. GiveUp(d) /\ Finish(d) /\ UNCHANGED <<conn, reply>>
    BY <1>2 DEF ConnectFails, ReceiveError, GiveUp, rcv_vars
  <2>2. QED
    BY <2>1, GiveUpTypes, FinishTypes DEF Mine
<1>3. CASE SendHeader(d)
  <2>1. UNCHANGED <<stage[e], flight[e], asked[e], reply[e], list[e]>>
    BY <1>3 DEF SendHeader, main_vars, TypeOK
  <2>2. QED
    <3>1. OnMine(d, "header", TRUE) /\ e # d /\ e \in Devices
      BY <1>3 DEF SendHeader
    <3>2. (Mine(e, conn') <=> Mine(e, conn)) /\ (Mine(e, conn') => conn' = conn)
      BY <3>1, HeaderArrives
    <3>3. QED
      BY <2>1, <3>2
<1>4. ASSUME OnMine(d, "waiting", FALSE)
      PROVE  (Mine(e, conn)' <=> Mine(e, conn)) /\ (Mine(e, conn)' => conn' = conn)
  BY <1>4, StopsWaiting DEF Mine
<1>5. CASE ReceiveValves(d)
  <2>1. Finish(d) /\ reply'[e] = reply[e] /\ (GiveUp(d) \/ (stage'[e] = stage[e] /\ list' = list))
    BY <1>5 DEF ReceiveValves, GiveUp, TypeOK
  <2>2. QED
    BY <1>4, <1>5, <2>1, GiveUpTypes, FinishTypes DEF ReceiveValves
<1>6. CASE ReceiveSchedules(d) \/ DeviceCrash(d)
  <2>1. Finish(d) /\ UNCHANGED <<reply[e], stage[e], list[e]>>
    BY <1>6 DEF ReceiveSchedules, DeviceCrash, TypeOK
  <2>2. QED
    BY <1>4, <1>6, <2>1, FinishTypes DEF ReceiveSchedules, DeviceCrash
<1>7. CASE ConnectionBreaks(d)
  BY <1>4, <1>7 DEF ConnectionBreaks, main_vars
<1>8. QED
  BY <1>1, <1>2, <1>3, <1>5, <1>6, <1>7 DEF Proceed, Check

LEMMA CurrentStep == Inv /\ CurrentInv /\ [Next]_vars => CurrentInv'
<1> SUFFICES ASSUME Inv, CurrentInv, [Next]_vars, NEW e \in Devices PROVE CurrentInvOf(e)'
  BY DEF CurrentInv
<1> USE DEF Inv, BaseInv
<1>0. CurrentInvOf(e) /\ ConnInvOf(e)
  BY DEF CurrentInv, ConnInv
<1>1. CASE CreateSchedule \/ DeactivateSchedule
  <2>1. /\ RowsOf(e) \subseteq RowsOf(e)' /\ Rows \cap active' \subseteq active /\ RowsOf(e) \subseteq Rows
        /\ UNCHANGED <<rcv_vars, client_vars>>
    BY <1>1, WebTypes, FetchTypes
  <2>2. QED
    BY <1>0, <2>1 DEF CurrentInvOf, rcv_vars, client_vars, main_vars, Mine
<1>2. ASSUME UNCHANGED <<valve_of, active, stage[e], asked[e]>>, reply'[e] \in {reply[e], << >>},
             rpc' # "send" \/ (rpc' = rpc /\ sches' = sches /\ need_update' = need_update
                               /\ (Mine(e, conn)' => Mine(e, conn) /\ conn' = conn))
      PROVE  CurrentInvOf(e)'
  BY <1>0, <1>2 DEF CurrentInvOf, RowsOf, Rows
<1>3. CASE UNCHANGED vars
  BY <1>2, <1>3 DEF vars, rcv_vars, client_vars, main_vars, db_vars, Mine
<1>4. CASE ReceiverDies \/ ReceiverReturns
  BY <1>2, <1>4 DEF ReceiverDies, ReceiverReturns, ReceiverCrash, ReceiverRestart, client_vars, main_vars, db_vars
<1>5. CASE ReceiverServes
  <2>0. UNCHANGED <<stage, asked>>
    BY <1>5 DEF ReceiverServes, client_vars, main_vars
  <2>1. CASE Accept \/ RecvHeader \/ RecvHeaderFails \/ FetchFails \/ Close \/ SetSchedulesSentFails
             \/ DeactivationRequestsDoneFails
    BY <1>2, <2>0, <2>1 DEF Accept, RecvHeader, RecvHeaderFails, FetchFails, Close, SetSchedulesSentFails,
                DeactivationRequestsDoneFails, AfterMark, db_vars
  <2>2. CASE SetSchedulesSent \/ DeactivationRequestsDone
    BY <1>2, <2>0, <2>2 DEF SetSchedulesSent, DeactivationRequestsDone, rcv_set_schedule_sent, AfterMark,
                deactivation_requests_done, db_vars
  <2>3. CASE FetchValves
    BY <1>0, <2>0, <2>3 DEF FetchValves, CurrentInvOf, Mine, RowsOf, Rows, db_vars
  <2>4. CASE FetchSchedules
    <3>1. /\ sches' = RowsOf(conn.dev) \cap active /\ UNCHANGED <<valve_of, active, conn, reply>>
          /\ conn.type = "GET_ACTIVE_SCHES" => need_update'
      BY <2>4 DEF FetchSchedules, rcv_get_active_schedules, db_vars
    <3>2. Mine(e, conn) => conn.dev = e
      BY DEF Mine
    <3>3. QED
      BY <1>0, <2>0, <3>1, <3>2 DEF CurrentInvOf, Mine, RowsOf, Rows
  <2>5. CASE SendRsp
    <3>1. CASE reply'[e] = reply[e]
      BY <1>2, <2>0, <2>5, <3>1 DEF SendRsp, db_vars
    <3>2. CASE reply'[e] # reply[e]
      <4>1. /\ Mine(e, conn) /\ rpc = "send" /\ rpc' # "send"
            /\ reply'[e] = <<IF need_update THEN sches ELSE {}>>
            /\ UNCHANGED <<valve_of, active>>
        BY <2>5, <3>2, ConnTypes DEF SendRsp, TypeOK, ConnOfReceiver, Mine, db_vars
      <4>2. conn.type = RequestOf(stage[e]) /\ stage[e] \in Stages \ {"off"}
        BY <1>0, <4>1 DEF ConnInvOf, Asking, TypeOK
      <4>3. /\ conn.type = "GET_DEVICE_VALVES" <=> stage[e] = "valves"
            /\ conn.type = "GET_ACTIVE_SCHES" <=> stage[e] = "schedules"
        BY <4>2 DEF RequestOf, Stages
      <4>4. Head(reply'[e]) = IF need_update THEN sches ELSE {}
        BY <4>1
      <4>5. QED
        BY <1>0, <2>0, <4>1, <4>3, <4>4 DEF CurrentInvOf, RowsOf, Rows
    <3>3. QED
      BY <3>1, <3>2
  <2>6. QED
    BY <1>5, <2>1, <2>2, <2>3, <2>4, <2>5 DEF ReceiverServes, Serve
<1>6. ASSUME NEW d \in Devices,
             Start(d) \/ Proceed(d) \/ Check(d) \/ ConnectionBreaks(d) \/ DeviceCrash(d)
      PROVE  CurrentInvOf(e)'
  <2>1. UNCHANGED <<db_vars, rpc, sches, need_update>>
    BY <1>6 DEF Start, Proceed, Check, ConnectionBreaks, DeviceCrash, Call, Connect, ConnectFails, SendHeader,
                ReceiveValves, ReceiveSchedules, ReceiveError, rcv_vars
  <2>2. ConnInvOf(e)'
    BY ConnStep DEF ConnInv
  <2>3. CASE d # e
    <3>1. UNCHANGED <<stage[e], asked[e], reply[e]>>
      BY <1>6, <2>3, DeviceAlone
    <3>2. Mine(e, conn)' => Mine(e, conn) /\ conn' = conn
      BY <1>6, <2>3, DeviceAlone
    <3>3. QED
      BY <1>2, <2>1, <3>1, <3>2 DEF db_vars
  <2>4. ASSUME d = e, Finish(e), reply'[e] = << >>
        PROVE  CurrentInvOf(e)'
    <3>1. asked'[e].rows = {} /\ asked'[e].gone = {} /\ flight'[e] = "none"
      BY <2>4, FinishTypes DEF NothingAsked
    <3>2. ~Mine(e, conn)'
      BY <2>2, <3>1 DEF ConnInvOf, Asking
    <3>3. QED
      BY <2>4, <3>1, <3>2 DEF CurrentInvOf
  <2>5. CASE d = e /\ Start(e)
    BY <1>0, <2>1, <2>5 DEF Start, rcv_vars, ConnInvOf, CurrentInvOf, RowsOf, Rows, db_vars, Mine
  <2>6. CASE d = e /\ (Call(e) \/ Connect(e))
    BY <1>2, <2>1, <2>6 DEF Call, Connect, main_vars, db_vars, rcv_vars, Mine
  <2>7. CASE d = e /\ (ConnectFails(e) \/ ReceiveError(e))
    BY <1>0, <2>4, <2>7 DEF ConnectFails, ReceiveError, GiveUp, rcv_vars, ConnInvOf
  <2>8. CASE d = e /\ SendHeader(e)
    <3>1. reply[e] = << >> /\ ~(Mine(e, conn) /\ rpc = "send")
      BY <1>0, <2>8 DEF SendHeader, ConnInvOf, Asking
    <3>2. /\ asked'[e] = [rows |-> RowsOf(e), gone |-> RowsOf(e) \ active]
          /\ reply' = reply /\ (Mine(e, conn)' => Mine(e, conn))
      BY <2>8, HeaderArrives DEF SendHeader, TypeOK, Mine
    <3>3. QED
      BY <2>1, <3>1, <3>2 DEF CurrentInvOf, RowsOf, Rows, db_vars
  <2>9. CASE d = e /\ (ReceiveValves(e) \/ ReceiveSchedules(e) \/ DeviceCrash(e))
    BY <2>4, <2>9 DEF ReceiveValves, ReceiveSchedules, DeviceCrash, GiveUp, TypeOK
  <2>10. CASE d = e /\ ConnectionBreaks(e)
    BY <1>2, <2>1, <2>10, StopsWaiting DEF ConnectionBreaks, main_vars, db_vars, Mine
  <2>11. QED
    BY <1>6, <2>3, <2>5, <2>6, <2>7, <2>8, <2>9, <2>10 DEF Proceed, Check
<1>7. QED
  BY <1>1, <1>3, <1>4, <1>5, <1>6 DEF Next

\* No answer contains what was inactive when the device asked, and the answer at
\* start-up contains everything that has been active since, whatever crashes,
\* breaks or is asked again.
THEOREM AnswersCurrent == Spec => []AnswersAreCurrent
<1>1. Init => CurrentInv
  BY DEF Init, ReceiverInit, CurrentInv, CurrentInvOf, NothingAsked, Mine
<1>2. CurrentInv => AnswersAreCurrent
  BY DEF CurrentInv, CurrentInvOf, AnswersAreCurrent
<1>3. QED
  BY <1>1, <1>2, Invariance, CurrentStep, PTL DEF Spec

----------------------------------------------------------------------------
(* Without failures, what is marked as sent has arrived.                   *)

SentOf(d) == RowsOf(d) \cap sent \cap active

HeldInvOf(d) ==
  /\ flight[d] \in {"connected", "sent"} => Awaited(d) \/ reply[d] # << >>
  /\ stage[d] \in {"off", "valves"} => SentOf(d) = {}
  /\ \A id \in SentOf(d) : id \in list[d] \/ (reply[d] # << >> /\ id \in Head(reply[d]))
  /\ reply[d] # << >> /\ stage[d] # "valves" /\ Head(reply[d]) # {} => SentOf(d) \subseteq Head(reply[d])

\* The receiver's side: nobody has given up, and what is about to be marked is
\* in the answer, read or not.
SendingInv ==
  /\ rpc # "down"
  /\ \A k \in DOMAIN backlog : backlog[k].waiting
  /\ rpc \in {"header", "fetch", "send"} => conn.waiting
  /\ rpc \in {"mark", "stamp", "close"} /\ conn.waiting => reply[conn.dev] # << >>
  /\ rpc = "send" /\ need_update /\ conn.type # "GET_DEVICE_VALVES" => SentOf(conn.dev) \subseteq sches
  /\ rpc = "mark" =>
       /\ stage[conn.dev] = "run" \/ (stage[conn.dev] = "schedules" /\ reply[conn.dev] # << >>)
       /\ (sches \ sent) \cap active \subseteq
            IF reply[conn.dev] # << >> THEN Head(reply[conn.dev]) ELSE list[conn.dev]

HeldInv == failures = 0 => SendingInv /\ \A d \in Devices : HeldInvOf(d)

LEMMA HeldQuiet ==
  ASSUME NEW e \in Devices, HeldInvOf(e), UNCHANGED <<stage[e], flight[e], list[e], reply[e]>>,
         SentOf(e)' \subseteq SentOf(e), flight[e] # "none" /\ Awaited(e) => Awaited(e)'
  PROVE  HeldInvOf(e)'
BY DEF HeldInvOf

\* Without failures so far and in this step.
LEMMA HeldStep == Inv /\ OfferInv /\ HeldInv /\ [Next]_vars => HeldInv'
<1> SUFFICES ASSUME Inv, OfferInv, HeldInv, [Next]_vars, failures' = 0
             PROVE  SendingInv' /\ \A e \in Devices : HeldInvOf(e)'
  BY DEF HeldInv
<1> USE DEF Inv, BaseInv
<1>1. failures \in Nat /\ ~Failure
  BY FailuresAssumption DEF TypeOK, Failure
<1>2. ASSUME failures # 0 PROVE FALSE
  <2>1. failures' = failures
    BY <1>1, WebTypes DEF Next, vars, rcv_vars, CreateSchedule, DeactivateSchedule, ReceiverServes, Serve, ReceiverDies,
       ReceiverReturns, Accept, RecvHeader, RecvHeaderFails, FetchValves, FetchSchedules, FetchFails, SendRsp,
       SetSchedulesSent, SetSchedulesSentFails, DeactivationRequestsDone, DeactivationRequestsDoneFails, Close,
       ReceiverCrash, ReceiverRestart, Start, Proceed, Check, Call, Connect, ConnectFails, SendHeader, ReceiveValves,
       ReceiveSchedules, ReceiveError, ConnectionBreaks, DeviceCrash
  <2>2. QED
    BY <1>2, <2>1
<1>3. SendingInv /\ (\A e \in Devices : HeldInvOf(e)) /\ failures = 0
  BY <1>2 DEF HeldInv
<1>4. CASE CreateSchedule \/ DeactivateSchedule
  <2>1. /\ \A d \in Devices : SentOf(d)' \subseteq SentOf(d) /\ RowsOf(d) \subseteq Rows
        /\ Rows \cap active' \subseteq active /\ sent' = sent
        /\ UNCHANGED <<rcv_vars, client_vars>>
    <3>1. ASSUME NEW d \in Devices PROVE SentOf(d)' \subseteq SentOf(d) /\ RowsOf(d) \subseteq Rows
      BY <1>4, WebTypes DEF SentOf, RowsOf, TypeOK
    <3>2. QED
      BY <1>4, <3>1, WebTypes
  <2>2. ASSUME NEW e \in Devices PROVE HeldInvOf(e)'
    BY <1>3, <2>1, HeldQuiet DEF rcv_vars, client_vars, main_vars, Awaited, Mine
  <2>3. SendingInv'
    BY <1>3, <2>1, ConnTypes DEF SendingInv, rcv_vars, client_vars, main_vars, Fetched
  <2>4. QED
    BY <2>2, <2>3
<1>5. CASE UNCHANGED vars
  <2>1. \A e \in Devices : SentOf(e)' = SentOf(e)
    BY <1>5 DEF SentOf, RowsOf, Rows, vars, db_vars
  <2>2. SendingInv'
    BY <1>3, <1>5, <2>1, ConnTypes DEF SendingInv, vars, db_vars, rcv_vars, client_vars, main_vars
  <2>3. QED
    BY <1>3, <1>5, <2>1, <2>2, HeldQuiet DEF vars, rcv_vars, client_vars, main_vars, Awaited, Mine
<1>6. CASE ReceiverDies \/ ReceiverReturns
  BY <1>1, <1>3, <1>6 DEF ReceiverDies, ReceiverReturns, ReceiverCrash, ReceiverRestart, SendingInv
<1>7. CASE ReceiverServes
  <2>0. UNCHANGED <<stage, flight, list>>
    BY <1>7 DEF ReceiverServes, client_vars, main_vars
  <2>1. CASE Accept
    <3>1. /\ conn' = backlog[1] /\ DOMAIN backlog' = 1..Len(backlog) - 1 /\ 1 \in DOMAIN backlog
          /\ \A k \in DOMAIN backlog' : backlog'[k] = backlog[k + 1] /\ k + 1 \in DOMAIN backlog
          /\ \A k \in DOMAIN backlog : k = 1 \/ (k - 1 \in DOMAIN backlog' /\ backlog'[k - 1] = backlog[k])
      BY <2>1, HeadTailProperties DEF Accept, TypeOK
    <3>2. conn = NoConn /\ \A e \in Devices : ~Mine(e, conn)
      BY <2>1 DEF Accept, ConnOfReceiver, Mine
    <3>3. \A e \in Devices : SentOf(e)' = SentOf(e) /\ (Awaited(e) => Awaited(e)')
      BY <2>1, <3>1, <3>2 DEF Accept, SentOf, RowsOf, Rows, db_vars, Awaited, Mine
    <3>4. SendingInv'
      BY <1>3, <2>1, <3>1 DEF Accept, SendingInv
    <3>5. QED
      BY <1>3, <2>0, <2>1, <3>3, <3>4, HeldQuiet DEF Accept
  <2>2. CASE RecvHeader \/ FetchValves \/ FetchSchedules \/ DeactivationRequestsDone
    <3>1. UNCHANGED <<valve_of, sent, active, conn, backlog, reply>>
      BY <2>2 DEF RecvHeader, FetchValves, FetchSchedules, DeactivationRequestsDone, deactivation_requests_done, db_vars
    <3>2. \A e \in Devices : SentOf(e)' = SentOf(e) /\ (Awaited(e) => Awaited(e)')
      BY <3>1 DEF SentOf, RowsOf, Rows, Awaited, Mine
    <3>3. rpc' = "send" /\ need_update' /\ conn.type # "GET_DEVICE_VALVES" => SentOf(conn.dev) \subseteq sches'
      BY <2>2 DEF RecvHeader, FetchValves, FetchSchedules, DeactivationRequestsDone, rcv_get_active_schedules, SentOf
    <3>4. SendingInv'
      BY <1>3, <2>2, <3>1, <3>2, <3>3, ConnTypes DEF SendingInv, RecvHeader, FetchValves, FetchSchedules,
         DeactivationRequestsDone
    <3>5. QED
      BY <1>3, <2>0, <3>1, <3>2, <3>4, HeldQuiet
  <2>3. CASE RecvHeaderFails \/ FetchFails \/ SetSchedulesSentFails \/ DeactivationRequestsDoneFails
    BY <1>1, <1>3, <2>3 DEF RecvHeaderFails, FetchFails, SetSchedulesSentFails, DeactivationRequestsDoneFails,
                            SendingInv
  <2>4. CASE SendRsp
    <3>1. /\ conn \in Connections /\ conn.dev \in Devices /\ conn.waiting /\ rpc = "send"
          /\ rpc' = IF conn.type = "GET_DEVICE_VALVES" THEN "close" ELSE "mark"
          /\ UNCHANGED <<db_vars, conn, backlog, sches>>
      BY <1>3, <2>4, ConnTypes DEF SendRsp, SendingInv
    <3>2. /\ Head(reply'[conn.dev]) = (IF need_update THEN sches ELSE {}) /\ reply'[conn.dev] # << >>
          /\ \A e \in Devices \ {conn.dev} : reply'[e] = reply[e]
      <4>1. reply'[conn.dev] = <<IF need_update THEN sches ELSE {}>>
            /\ \A e \in Devices \ {conn.dev} : reply'[e] = reply[e]
        BY <2>4, <3>1 DEF SendRsp, TypeOK
      <4>2. QED
        BY <4>1
    <3>3. \A e \in Devices : SentOf(e)' = SentOf(e) /\ (Awaited(e) => Awaited(e)')
      BY <3>1 DEF SentOf, RowsOf, Rows, db_vars, Awaited, Mine
    <3>4. /\ reply[conn.dev] = << >> /\ stage[conn.dev] \in Stages \ {"off"}
          /\ conn.type = "GET_DEVICE_VALVES" <=> stage[conn.dev] = "valves"
      <4>1. Mine(conn.dev, conn)
        BY <3>1, NoConnAssumption DEF Mine
      <4>2. Asking(conn.dev, conn) /\ reply[conn.dev] = << >>
        BY <3>1, <4>1 DEF ConnInv, ConnInvOf
      <4>3. QED
        BY <3>1, <4>2 DEF Asking, RequestOf, Stages, TypeOK
    <3>5. ASSUME NEW e \in Devices PROVE HeldInvOf(e)'
      <4>1. CASE e = conn.dev
        BY <1>3, <2>0, <3>1, <3>2, <3>3, <3>4, <4>1 DEF HeldInvOf, SendingInv
      <4>2. CASE e # conn.dev
        BY <1>3, <2>0, <3>2, <3>3, <4>2, HeldQuiet
      <4>3. QED
        BY <4>1, <4>2
    <3>6. SendingInv'
      BY <1>3, <2>0, <3>1, <3>2, <3>4 DEF SendingInv, OfferInv, db_vars, Stages
    <3>7. QED
      BY <3>5, <3>6
  <2>5. CASE SetSchedulesSent
    <3>1. /\ conn \in Connections /\ conn.dev \in Devices /\ rpc = "mark" /\ rpc' \in {"stamp", "close"}
          /\ sches \subseteq RowsOf(conn.dev)
          /\ UNCHANGED <<valve_of, active, conn, backlog, reply>>
      BY <2>5, ConnTypes DEF SetSchedulesSent, rcv_set_schedule_sent, AfterMark, db_vars, Fetched
    <3>2. sent' = sent \/ \E id \in sches \ sent : sent' = sent \cup {id}
      BY <2>5 DEF SetSchedulesSent, rcv_set_schedule_sent, db_vars
    <3>3. \A e \in Devices : Awaited(e) => Awaited(e)'
      BY <3>1 DEF Awaited, Mine
    <3>4. ASSUME NEW e \in Devices \ {conn.dev} PROVE SentOf(e)' = SentOf(e)
      BY <3>1, <3>2 DEF SentOf, RowsOf, Rows
    <3>5. SentOf(conn.dev)' \subseteq SentOf(conn.dev) \cup ((sches \ sent) \cap active)
      BY <3>1, <3>2 DEF SentOf, RowsOf, Rows
    <3>6. /\ stage[conn.dev] \in {"schedules", "run"}
          /\ (sches \ sent) \cap active \subseteq
               IF reply[conn.dev] # << >> THEN Head(reply[conn.dev]) ELSE list[conn.dev]
      BY <1>3, <3>1 DEF SendingInv
    <3>7. ASSUME NEW e \in Devices PROVE HeldInvOf(e)'
      <4>1. CASE e = conn.dev
        BY <1>3, <2>0, <3>1, <3>3, <3>5, <3>6, <4>1 DEF HeldInvOf
      <4>2. CASE e # conn.dev
        BY <1>3, <2>0, <3>1, <3>3, <3>4, <4>2, HeldQuiet
      <4>3. QED
        BY <4>1, <4>2
    <3>8. SendingInv'
      BY <1>3, <3>1 DEF SendingInv
    <3>9. QED
      BY <3>7, <3>8
  <2>6. CASE Close
    <3>1. conn \in Connections /\ conn.dev \in Devices /\ rpc = "close" /\ rpc' = "accept" /\ conn' = NoConn
          /\ UNCHANGED <<db_vars, backlog, reply>>
      BY <2>6, ConnTypes DEF Close
    <3>2. \A e \in Devices : SentOf(e)' = SentOf(e)
      BY <3>1 DEF SentOf, RowsOf, Rows, db_vars
    <3>3. ASSUME NEW e \in Devices PROVE flight[e] \in {"connected", "sent"} => Awaited(e)' \/ reply[e] # << >>
      <4>1. CASE Mine(e, conn)
        BY <1>3, <3>1, <4>1 DEF Mine, SendingInv
      <4>2. CASE ~Mine(e, conn)
        BY <1>3, <3>1, <4>2 DEF HeldInvOf, Awaited, Mine
      <4>3. QED
        BY <4>1, <4>2
    <3>4. SendingInv'
      BY <1>3, <3>1 DEF SendingInv
    <3>5. QED
      BY <1>3, <2>0, <3>1, <3>2, <3>3, <3>4 DEF HeldInvOf
  <2>7. QED
    BY <1>7, <2>1, <2>2, <2>3, <2>4, <2>5, <2>6 DEF ReceiverServes, Serve
<1>8. ASSUME NEW d \in Devices,
             Start(d) \/ Proceed(d) \/ Check(d) \/ ConnectionBreaks(d) \/ DeviceCrash(d)
      PROVE  SendingInv' /\ \A e \in Devices : HeldInvOf(e)'
  <2>1. UNCHANGED <<db_vars, rpc, sches, need_update>>
    BY <1>8 DEF Start, Proceed, Check, ConnectionBreaks, DeviceCrash, Call, Connect, ConnectFails, SendHeader,
                ReceiveValves, ReceiveSchedules, ReceiveError, rcv_vars
  <2>2. \A e \in Devices : SentOf(e)' = SentOf(e)
    BY <2>1 DEF SentOf, RowsOf, Rows, db_vars
  <2>3. ASSUME NEW e \in Devices \ {d}, \A k \in DOMAIN backlog :
                 k \in DOMAIN backlog' /\ (Mine(e, backlog[k]) => Mine(e, backlog[k])')
        PROVE  HeldInvOf(e)'
    <3>1. UNCHANGED <<stage[e], flight[e], list[e], reply[e]>> /\ (Mine(e, conn)' <=> Mine(e, conn))
      BY <1>8, DeviceAlone
    <3>2. Awaited(e) => Awaited(e)'
      BY <2>3, <3>1 DEF Awaited, Mine
    <3>3. QED
      BY <1>3, <2>2, <3>1, <3>2, HeldQuiet
  <2>4. ~ReceiveError(d) /\ ~ConnectionBreaks(d) /\ ~DeviceCrash(d)
    BY <1>1, <1>3 DEF ReceiveError, ConnectionBreaks, DeviceCrash, SendingInv, HeldInvOf
  <2>5. rpc \in {"send", "mark"} => conn \in Connections /\ conn.dev \in Devices
    BY ConnTypes
  <2>6. CASE Start(d)
    <3>1. UNCHANGED <<rcv_vars, flight, list>> /\ stage' = [stage EXCEPT ![d] = "valves"] /\ stage[d] = "off"
      BY <2>6 DEF Start
    <3>2. \A e \in Devices \ {d} : HeldInvOf(e)'
      BY <2>3, <3>1 DEF rcv_vars, Mine
    <3>3. reply[d] = << >> /\ flight[d] = "none"
      BY <3>1 DEF ConnInv, ConnInvOf
    <3>4. HeldInvOf(d)'
      BY <1>3, <2>2, <3>1, <3>3 DEF HeldInvOf, TypeOK, rcv_vars
    <3>5. SendingInv'
      BY <1>3, <2>1, <2>2, <2>5, <3>1 DEF SendingInv, rcv_vars, db_vars, TypeOK
    <3>6. QED
      BY <3>2, <3>4, <3>5
  <2>7. CASE Connect(d)
    <3>1. /\ DOMAIN backlog' = DOMAIN backlog \cup {Len(backlog) + 1}
          /\ \A k \in DOMAIN backlog : backlog'[k] = backlog[k] /\ k # Len(backlog) + 1
          /\ backlog'[Len(backlog) + 1].dev = d /\ backlog'[Len(backlog) + 1].waiting
          /\ backlog'[Len(backlog) + 1] \in Connections
          /\ UNCHANGED <<stage, list, reply, conn>>
      <4>1. RequestOf(stage[d]) \in RequestTypes
        BY <2>7 DEF Connect, RequestOf, RequestTypes, TypeOK, Stages, ConnInv, ConnInvOf
      <4>2. QED
        BY <2>7, <4>1 DEF Connect, main_vars, TypeOK, Connections
    <3>2. Awaited(d)'
      BY <3>1, NoConnAssumption DEF Awaited, Mine
    <3>3. \A e \in Devices \ {d} : HeldInvOf(e)'
      BY <2>3, <3>1 DEF Mine
    <3>4. HeldInvOf(d)'
      BY <1>3, <2>2, <3>1, <3>2 DEF HeldInvOf
    <3>5. SendingInv'
      BY <1>3, <2>1, <2>2, <2>5, <3>1 DEF SendingInv, db_vars
    <3>6. QED
      BY <3>3, <3>4, <3>5
  <2>8. CASE SendHeader(d)
    <3>1. OnMine(d, "header", TRUE) /\ UNCHANGED <<stage, list, reply>> /\ DOMAIN backlog' = DOMAIN backlog
      BY <2>8, OnMineTypes DEF SendHeader, main_vars
    <3>2. \A e \in Devices : (Awaited(e) => Awaited(e)')
                            /\ \A k \in DOMAIN backlog : Mine(e, backlog[k]) => Mine(e, backlog[k])'
      <4>1. \A e \in Devices : (Mine(e, conn)' <=> Mine(e, conn))
                            /\ \A k \in DOMAIN backlog : Mine(e, backlog[k])' <=> Mine(e, backlog[k])
        BY <3>1, HeaderArrives DEF Mine
      <4>2. QED
        BY <3>1, <4>1 DEF Awaited
    <3>3. \A e \in Devices \ {d} : HeldInvOf(e)'
      BY <2>3, <3>1, <3>2
    <3>4. HeldInvOf(d)'
      BY <1>3, <2>2, <2>8, <3>1, <3>2 DEF HeldInvOf, SendHeader
    <3>5. /\ \A k \in DOMAIN backlog : backlog'[k].waiting = backlog[k].waiting
          /\ conn # NoConn => conn'.dev = conn.dev /\ conn'.type = conn.type /\ conn'.waiting = conn.waiting
      BY <3>1, HeaderArrives
    <3>6. SendingInv'
      BY <1>3, <2>1, <2>2, <2>5, <3>1, <3>5 DEF SendingInv, db_vars, ConnOfReceiver
    <3>7. QED
      BY <3>3, <3>4, <3>6
  <2>9. ASSUME reply[d] # << >>, reply'[d] = << >>, OnMine(d, "waiting", FALSE), Finish(d),
               SentOf(d) \subseteq list'[d], stage'[d] \in {"off", "valves"} => SentOf(d) = {},
               rpc = "mark" /\ conn.dev = d =>
                 stage'[d] = "run" /\ (sches \ sent) \cap active \subseteq list'[d]
        PROVE  SendingInv' /\ \A e \in Devices : HeldInvOf(e)'
    <3>1. /\ DOMAIN backlog' = DOMAIN backlog /\ \A k \in DOMAIN backlog : backlog'[k] = backlog[k]
          /\ rpc \in {"header", "fetch", "send"} => conn' = conn
      <4>1. \A k \in DOMAIN backlog : ~Mine(d, backlog[k])
        BY <2>9 DEF ConnInv, ConnInvOf
      <4>2. Mine(d, conn) => rpc \notin {"header", "fetch", "send"}
        BY <2>9 DEF ConnInv, ConnInvOf
      <4>3. QED
        BY <2>9, <4>1, <4>2 DEF OnMine
    <3>2. \A e \in Devices \ {d} : HeldInvOf(e)' /\ UNCHANGED <<stage[e], list[e], reply[e]>>
      BY <1>8, <2>3, <3>1, DeviceAlone DEF Mine
    <3>3. HeldInvOf(d)'
      <4>1. flight'[d] = "none"
        BY <2>9, FinishTypes
      <4>2. QED
        BY <2>2, <2>9, <4>1 DEF HeldInvOf
    <3>4. /\ conn # NoConn => conn'.dev = conn.dev /\ conn'.type = conn.type
          /\ ~Mine(d, conn)' /\ (conn # NoConn => conn \in Connections /\ conn' # NoConn)
          /\ conn # NoConn /\ conn'.waiting => conn.waiting
      BY <2>9, StopsWaiting, OnMineTypes DEF Mine, TypeOK, OnMine
    <3>5. ASSUME rpc \in {"mark", "stamp", "close"}, conn'.waiting
          PROVE  reply'[conn'.dev] # << >>
      <4>1. conn # NoConn /\ conn.dev \in Devices /\ conn.dev # d /\ conn.waiting
        BY <3>4, <3>5 DEF ConnOfReceiver, Mine, Connections
      <4>2. QED
        BY <1>3, <3>2, <3>4, <3>5, <4>1 DEF SendingInv
    <3>6. rpc = "mark" =>
            /\ stage'[conn'.dev] = "run" \/ (stage'[conn'.dev] = "schedules" /\ reply'[conn'.dev] # << >>)
            /\ (sches \ sent) \cap active \subseteq
                 IF reply'[conn'.dev] # << >> THEN Head(reply'[conn'.dev]) ELSE list'[conn'.dev]
      <4>1. CASE rpc = "mark" /\ conn.dev = d
        BY <2>5, <2>9, <3>4, <4>1, NoConnAssumption
      <4>2. CASE rpc = "mark" /\ conn.dev # d
        BY <1>3, <2>5, <3>2, <3>4, <4>2, NoConnAssumption DEF SendingInv
      <4>3. QED
        BY <4>1, <4>2
    <3>7. SendingInv'
      BY <1>3, <2>1, <2>2, <2>5, <3>1, <3>5, <3>6 DEF SendingInv, db_vars
    <3>8. QED
      BY <3>2, <3>3, <3>7
  <2>10. CASE ReceiveValves(d)
    <3>1. SentOf(d) = {} /\ ~(rpc = "mark" /\ conn.dev = d)
      BY <1>3, <2>10 DEF ReceiveValves, HeldInvOf, SendingInv
    <3>2. Finish(d) /\ reply'[d] = << >>
      BY <2>10 DEF ReceiveValves, GiveUp, TypeOK
    <3>3. QED
      BY <2>9, <2>10, <3>1, <3>2 DEF ReceiveValves
  <2>11. CASE ReceiveSchedules(d)
    <3>1. /\ reply'[d] = << >> /\ stage'[d] = "run" /\ reply[d] # << >> /\ stage[d] # "valves"
          /\ list'[d] = IF Head(reply[d]) = {} THEN list[d] ELSE Head(reply[d])
      BY <2>11 DEF ReceiveSchedules, TypeOK
    <3>2. SentOf(d) \subseteq list'[d]
      BY <1>3, <3>1 DEF HeldInvOf
    <3>3. rpc = "mark" /\ conn.dev = d => (sches \ sent) \cap active \subseteq list'[d]
      BY <1>3, <3>1 DEF SendingInv
    <3>4. QED
      BY <2>9, <2>11, <3>1, <3>2, <3>3 DEF ReceiveSchedules
  <2>12. CASE Call(d)
    <3>1. UNCHANGED <<rcv_vars, stage, list>> /\ flight'[d] = "connecting"
      BY <2>12 DEF Call, main_vars, TypeOK
    <3>2. \A e \in Devices \ {d} : HeldInvOf(e)'
      BY <2>3, <3>1 DEF rcv_vars, Mine
    <3>3. HeldInvOf(d)'
      BY <1>3, <2>2, <3>1 DEF HeldInvOf, rcv_vars
    <3>4. SendingInv'
      BY <1>3, <2>1, <2>2, <2>5, <3>1 DEF SendingInv, rcv_vars, db_vars
    <3>5. QED
      BY <3>2, <3>3, <3>4
  <2>13. CASE ConnectFails(d)
    <3>1. /\ flight[d] = "connecting" /\ reply[d] = << >> /\ GiveUp(d) /\ Finish(d)
          /\ UNCHANGED <<conn, backlog, reply>>
      BY <2>13 DEF ConnectFails, GiveUp, ConnInv, ConnInvOf
    <3>2. \A e \in Devices \ {d} : HeldInvOf(e)' /\ UNCHANGED <<stage[e], list[e]>>
      BY <2>3, <3>1, GiveUpTypes DEF Mine
    <3>3. stage[d] # "run" => SentOf(d) = {}
      BY <1>3, <3>1 DEF HeldInvOf, TableInv, TableInvOf
    <3>4. flight'[d] = "none" /\ (stage[d] = "run" => UNCHANGED <<stage[d], list[d]>>)
      BY <3>1, FinishTypes, GiveUpTypes
    <3>5. HeldInvOf(d)'
      BY <1>3, <2>2, <3>1, <3>3, <3>4 DEF HeldInvOf
    <3>6. SendingInv'
      BY <1>3, <2>1, <2>2, <2>5, <3>1, <3>2, <3>4 DEF SendingInv, db_vars
    <3>7. QED
      BY <3>2, <3>5, <3>6
  <2>14. QED
    BY <1>8, <2>4, <2>6, <2>7, <2>8, <2>10, <2>11, <2>12, <2>13 DEF Proceed, Check
<1>9. QED
  BY <1>4, <1>5, <1>6, <1>7, <1>8 DEF Next

\* As long as nothing fails, every active schedule marked as sent is in the list
\* of its device or in the answer the device is about to read.
THEOREM SentHeld == Spec => []SentIsHeld
<1>1. Init => HeldInv
  BY DEF Init, DbInit, ReceiverInit, HeldInv, SendingInv, HeldInvOf, SentOf
<1>2. Init => OfferInv
  BY DEF Init, DbInit, ReceiverInit, OfferInv
<1>3. Inv /\ HeldInv => SentIsHeld
  <2> SUFFICES ASSUME Inv, HeldInv, failures = 0, NEW id \in sent \cap active
               PROVE  LET d == DeviceOf[valve_of[id]]
                      IN  id \in list[d] \/ (reply[d] # << >> /\ id \in Head(reply[d]))
    BY DEF SentIsHeld
  <2>1. id \in Rows /\ valve_of[id] \in Valves /\ DeviceOf[valve_of[id]] \in Devices
    BY DeviceOfAssumption DEF Inv, BaseInv, TypeOK, Rows
  <2>2. id \in SentOf(DeviceOf[valve_of[id]])
    BY <2>1 DEF SentOf, RowsOf
  <2>3. QED
    BY <2>1, <2>2 DEF HeldInv, HeldInvOf
<1>4. QED
  BY <1>1, <1>2, <1>3, Invariance, OfferStep, HeldStep, PTL DEF Spec
=============================================================================

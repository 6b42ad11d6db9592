---------------------- MODULE BbdSystemDelivery_proofs ----------------------
(***************************************************************************)
(* Proof that BbdSystem implements Delivery: for any devices, valves,      *)
(* schedules and failures, each step of the web site, the receiver and the *)
(* devices is a step of Delivery or changes nothing that Delivery speaks   *)
(* of.                                                                     *)
(***************************************************************************)
EXTENDS BbdSystemDelivery, BbdSystem_proofs

\* The invariants of the implementation that the mapping relies on.
MapInv == Inv /\ OfferInv /\ HeldInv

LEMMA MapInvariance == Spec => []MapInv
<1>1. Init => OfferInv /\ HeldInv
  BY DEF Init, DbInit, ReceiverInit, OfferInv, HeldInv, SendingInv, HeldInvOf, SentOf
<1>2. QED
  BY <1>1, Invariance, OfferStep, HeldStep, PTL DEF Spec, MapInv

\* What Delivery sees of a device, from what the device and its answer are.
LEMMA SameRequest ==
  ASSUME NEW d \in Devices, UNCHANGED <<flight[d], stage[d]>>
  PROVE  RequestFor(d)' = RequestFor(d)
BY DEF RequestFor

LEMMA SameAnswer ==
  ASSUME NEW d \in Devices, UNCHANGED <<stage[d], reply[d]>>,
         rpc # "send" \/ ~Mine(d, conn), rpc' # "send" \/ ~Mine(d, conn)'
  PROVE  AnswerFor(d)' = AnswerFor(d)
BY DEF AnswerFor, Fetching

\* A step that changes nothing but, perhaps, that something has failed.
Silent ==
  /\ UNCHANGED <<RowsByDevice, active, sent, list, Requests, Answers, Due>>
  /\ failures' = failures \/ failures' > 0

LEMMA SilentStep ==
  ASSUME Silent
  PROVE  [Promise!Next]_(Promise!vars)
<1>1. CASE failures' = failures
  BY <1>1 DEF Silent, Promise!vars
<1>2. CASE failures' > 0
  BY <1>2 DEF Silent, Promise!Next, Promise!Fail, Promise!Lose
<1>3. QED
  BY <1>1, <1>2 DEF Silent

LEMMA FailureCounts == ASSUME TypeOK, Failure PROVE failures' > 0 /\ failures' \in Nat
BY FailuresAssumption DEF TypeOK, Failure

LEMMA OneAnswer ==
  ASSUME NEW d \in Devices, \A e \in Devices \ {d} : AnswerFor(e)' = AnswerFor(e)
  PROVE  Answers' = [Answers EXCEPT ![d] = AnswerFor(d)']
BY DEF Answers

LEMMA OneRequest ==
  ASSUME NEW d \in Devices, \A e \in Devices \ {d} : RequestFor(e)' = RequestFor(e)
  PROVE  Requests' = [Requests EXCEPT ![d] = RequestFor(d)']
BY DEF Requests

LEMMA SameRows == valve_of' = valve_of => RowsByDevice' = RowsByDevice
BY DEF RowsByDevice, RowsOf, Rows

----------------------------------------------------------------------------
(* The web site.                                                           *)

LEMMA WebStep ==
  ASSUME TypeOK, CreateSchedule \/ DeactivateSchedule
  PROVE  \E d \in Devices : Promise!Publish(d) \/ Promise!Withdraw(d)
<1>1. UNCHANGED <<rcv_vars, client_vars>> /\ sent' = sent
  BY WebTypes
<1>2. Requests' = Requests /\ Answers' = Answers /\ Due' = Due /\ (failures' > 0 <=> failures > 0)
      /\ UNCHANGED list
  BY <1>1 DEF rcv_vars, client_vars, main_vars, Requests, RequestFor, Answers, AnswerFor, Fetching, Mine, Due
<1>3. \A d \in Devices : RowsByDevice[d] = RowsOf(d)
  BY DEF RowsByDevice
<1>4. CASE CreateSchedule
  <2>1. PICK v \in Valves, id \in Ids \ Rows :
          valve_of' = [valve_of EXCEPT ![id] = v] /\ active' = active \cup {id}
    BY <1>4 DEF CreateSchedule, web_create_new_schedule
  <2>2. valve_of'[id] = v /\ \A j \in Ids \ {id} : valve_of'[j] = valve_of[j]
    BY <2>1 DEF TypeOK
  <2>3. Rows' = Rows \cup {id}
    BY <2>1, <2>2, NoValveAssumption DEF Rows
  <2>4. \A e \in Devices : RowsOf(e)' = IF e = DeviceOf[v] THEN RowsOf(e) \cup {id} ELSE RowsOf(e)
    BY <2>1, <2>2, <2>3 DEF RowsOf, Rows
  <2>5. DeviceOf[v] \in Devices
    BY DeviceOfAssumption
  <2>6. RowsByDevice' = [RowsByDevice EXCEPT ![DeviceOf[v]] = @ \cup {id}]
    BY <2>4, <2>5 DEF RowsByDevice
  <2>7. id \in Ids \ UNION {RowsByDevice[e] : e \in Devices}
    BY <1>3, <2>1 DEF RowsOf
  <2>8. Promise!Publish(DeviceOf[v])
    <3>1. \E j \in Ids \ UNION {RowsByDevice[e] : e \in Devices} :
            /\ RowsByDevice' = [RowsByDevice EXCEPT ![DeviceOf[v]] = @ \cup {j}]
            /\ active' = active \cup {j}
      BY <2>1, <2>6, <2>7
    <3>2. UNCHANGED <<sent, list, Requests, Answers, Due, failures > 0>>
      BY <1>1, <1>2
    <3>3. QED
      BY ONLY <3>1, <3>2 DEF Promise!Publish
  <2>9. QED
    BY <2>5, <2>8
<1>5. CASE DeactivateSchedule
  <2>1. PICK id \in Rows : active' = active \ {id} /\ valve_of' = valve_of
    BY <1>5 DEF DeactivateSchedule, web_deactivate_schedule_request
  <2>2. DeviceOf[valve_of[id]] \in Devices /\ id \in RowsOf(DeviceOf[valve_of[id]])
    BY <2>1, DeviceOfAssumption DEF TypeOK, Rows, RowsOf
  <2>3. QED
    BY <1>1, <1>2, <1>3, <2>1, <2>2, SameRows DEF Promise!Withdraw
<1>6. QED
  BY <1>4, <1>5

----------------------------------------------------------------------------
(* The receiver.                                                           *)

\* Before the query and after the marking the receiver has no picture.
LEMMA NoPictureStep ==
  ASSUME UNCHANGED <<valve_of, active, sent, client_vars, reply>>,
         ~Fetching({"send", "mark"}), ~Fetching({"send", "mark"})',
         failures' = failures \/ failures' > 0
  PROVE  Silent
<1>1. Requests' = Requests /\ UNCHANGED <<stage, list>>
  BY DEF Requests, RequestFor, client_vars, main_vars
<1>2. Answers' = Answers /\ Due' = Due
  BY <1>1 DEF Answers, AnswerFor, Due, Fetching
<1>3. QED
  BY <1>1, <1>2, SameRows DEF Silent

\* The receiver's query is the moment of the picture.
LEMMA LookStep ==
  ASSUME MapInv, FetchSchedules, UNCHANGED client_vars
  PROVE  \E d \in Devices : Promise!Look(d)
<1> DEFINE d == conn.dev
           picture == RowsByDevice[d] \cap active
<1> USE DEF MapInv, Inv, BaseInv
<1>1. /\ rpc = "fetch" /\ rpc' = "send" /\ conn \in Connections /\ d \in Devices
      /\ UNCHANGED <<db_vars, conn, reply, failures, stage, flight, list>>
      /\ conn.type # "GET_DEVICE_VALVES"
  BY ConnTypes DEF FetchSchedules, client_vars, main_vars
<1>2. sches' = picture /\ (need_update' <=> (conn.type = "GET_ACTIVE_SCHES" \/ ~(picture \subseteq sent)))
  BY <1>1 DEF FetchSchedules, rcv_get_active_schedules, RowsByDevice
<1>3. Due = {} /\ Due' = picture \ sent
  BY <1>1, <1>2 DEF Due, Fetching, db_vars
<1>4. RowsByDevice' = RowsByDevice /\ Requests' = Requests
  BY <1>1, SameRows DEF db_vars, Requests, RequestFor
<1>5. \A e \in Devices \ {d} : AnswerFor(e)' = AnswerFor(e)
  BY <1>1 DEF AnswerFor, Fetching, Mine
<1>6. CASE conn.waiting
  <2>1. Mine(d, conn) /\ Mine(d, conn)'
    BY <1>1, <1>6, NoConnAssumption DEF Mine
  <2>2. reply[d] = << >> /\ conn.header /\ conn.type = RequestOf(stage[d]) /\ flight[d] = "sent"
        /\ stage[d] \in {"schedules", "run"}
    BY <1>1, <2>1 DEF ConnInv, ConnInvOf, Asking, RequestOf, TypeOK, Stages, Flights
  <2>3. /\ RequestFor(d) # "none" /\ (RequestFor(d) = "news" <=> conn.type # "GET_ACTIVE_SCHES")
        /\ AnswerFor(d) = << >>
    BY <1>1, <2>2 DEF RequestFor, RequestOf, AnswerFor, Fetching
  <2>4. AnswerFor(d)' = <<IF RequestFor(d) = "news" /\ Due' = {} THEN {} ELSE picture>>
    BY <1>1, <1>2, <1>3, <2>1, <2>3 DEF AnswerFor, Fetching
  <2>5. Answers' = [Answers EXCEPT ![d] = AnswerFor(d)'] /\ Answers[d] = AnswerFor(d)
        /\ Requests[d] = RequestFor(d)
    BY <1>1, <1>5, OneAnswer DEF Answers, Requests
  <2>6. QED
    BY <1>1, <1>3, <1>4, <2>3, <2>4, <2>5 DEF Promise!Look, db_vars
<1>7. CASE ~conn.waiting
  <2>1. AnswerFor(d)' = AnswerFor(d)
    BY <1>1, <1>7 DEF AnswerFor, Fetching, Mine
  <2>2. Answers' = Answers
    BY <1>1, <1>5, <2>1 DEF Answers
  <2>3. failures > 0
    BY <1>1, <1>7, FailuresAssumption DEF HeldInv, SendingInv, TypeOK
  <2>4. QED
    BY <1>1, <1>3, <1>4, <2>2, <2>3 DEF Promise!Look, db_vars
<1>8. QED
  BY <1>6, <1>7

\* Handing the answer to the socket changes nothing: it was on its way.
LEMMA SendStep ==
  ASSUME MapInv, SendRsp, UNCHANGED client_vars
  PROVE  Silent
<1> USE DEF MapInv, Inv, BaseInv
<1>1. /\ rpc = "send" /\ conn \in Connections /\ conn.dev \in Devices
      /\ rpc' = IF conn.type = "GET_DEVICE_VALVES" THEN "close" ELSE "mark"
      /\ UNCHANGED <<db_vars, conn, sches, need_update, failures, stage, flight, list>>
  BY ConnTypes DEF SendRsp, client_vars, main_vars
<1>2. RowsByDevice' = RowsByDevice /\ Requests' = Requests /\ Due' = Due
  BY <1>1, SameRows DEF db_vars, Requests, RequestFor, Due, Fetching
<1>3. ASSUME NEW e \in Devices PROVE AnswerFor(e)' = AnswerFor(e)
  <2>1. CASE Mine(e, conn)
    <3>1. reply'[e] = <<IF need_update THEN sches ELSE {}>> /\ reply[e] = << >>
      BY <1>1, <2>1 DEF SendRsp, Mine, TypeOK, ConnInv, ConnInvOf
    <3>2. conn.type = RequestOf(stage[e]) /\ stage[e] \in {"valves", "schedules", "run"}
      BY <2>1 DEF ConnInv, ConnInvOf, Asking, TypeOK, Stages
    <3>3. QED
      BY <1>1, <2>1, <3>1, <3>2 DEF AnswerFor, Fetching, RequestOf
  <2>2. CASE ~Mine(e, conn)
    <3>1. reply'[e] = reply[e]
      BY <1>1, <2>2, NoConnAssumption DEF SendRsp, Mine, TypeOK
    <3>2. QED
      BY <1>1, <2>2, <3>1 DEF AnswerFor, Mine
  <2>3. QED
    BY <2>1, <2>2
<1>4. QED
  BY <1>1, <1>2, <1>3 DEF Silent, Answers, db_vars

LEMMA MarkStep ==
  ASSUME MapInv, SetSchedulesSent \/ SetSchedulesSentFails, UNCHANGED client_vars
  PROVE  [Promise!Next]_(Promise!vars)
<1> USE DEF MapInv, Inv, BaseInv
<1>1. /\ rpc = "mark" /\ rpc' \notin {"send", "mark"} /\ conn.type # "GET_DEVICE_VALVES"
      /\ UNCHANGED <<valve_of, active, reply, stage, flight, list>>
  BY DEF SetSchedulesSent, SetSchedulesSentFails, AfterMark, rcv_set_schedule_sent, db_vars, client_vars, main_vars,
         Fetched
<1>2. RowsByDevice' = RowsByDevice /\ Requests' = Requests /\ Answers' = Answers
  BY <1>1, SameRows DEF Requests, RequestFor, Answers, AnswerFor, Fetching
<1>3. Due = sches \ sent /\ Due' = {}
  BY <1>1 DEF Due, Fetching
<1>4. CASE SetSchedulesSent
  <2>1. failures' = failures
    BY <1>4 DEF SetSchedulesSent
  <2>2. CASE \E id \in sches \ sent : sent' = sent \cup {id}
    BY <1>1, <1>2, <1>3, <2>1, <2>2 DEF Promise!Next, Promise!Mark
  <2>3. CASE sches \subseteq sent /\ sent' = sent
    BY <1>1, <1>2, <1>3, <2>1, <2>3, SilentStep DEF Silent
  <2>4. QED
    BY <1>4, <2>2, <2>3 DEF SetSchedulesSent, rcv_set_schedule_sent, db_vars
<1>5. CASE SetSchedulesSentFails
  <2>1. failures' > 0 /\ sent' = sent
    BY <1>5, FailureCounts DEF SetSchedulesSentFails, db_vars
  <2>2. QED
    BY <1>1, <1>2, <1>3, <2>1 DEF Promise!Next, Promise!Fail, Promise!Lose
<1>6. QED
  BY <1>4, <1>5

\* With the receiver dies what it has fetched, and nothing else.
LEMMA CrashStep ==
  ASSUME MapInv, ReceiverCrash, UNCHANGED <<main_vars, flight>>
  PROVE  Promise!Fail
<1> USE DEF MapInv, Inv, BaseInv
<1>1. /\ rpc' = "down" /\ failures' > 0
      /\ UNCHANGED <<db_vars, reply, stage, flight, list>>
  BY FailureCounts DEF ReceiverCrash, main_vars
<1>2. RowsByDevice' = RowsByDevice /\ Requests' = Requests /\ Due' = {}
  BY <1>1, SameRows DEF db_vars, Requests, RequestFor, Due, Fetching
<1>3. Answers' = Answers \/ \E d \in Devices : Answers' = [Answers EXCEPT ![d] = << >>]
  <2>1. CASE Fetching({"send"}) /\ conn.waiting
    <3>1. PICK d \in Devices : d = conn.dev /\ Mine(d, conn) /\ rpc = "send"
      BY <2>1, ConnTypes, NoConnAssumption DEF Fetching, Mine
    <3>2. reply[d] = << >>
      BY <3>1 DEF ConnInv, ConnInvOf
    <3>3. AnswerFor(d)' = << >> /\ \A e \in Devices \ {d} : AnswerFor(e)' = AnswerFor(e)
      BY <1>1, <3>1, <3>2 DEF AnswerFor, Fetching, Mine
    <3>4. QED
      BY <3>3, OneAnswer
  <2>2. CASE ~(Fetching({"send"}) /\ conn.waiting)
    BY <1>1, <2>2 DEF Answers, AnswerFor, Fetching, Mine
  <2>3. QED
    BY <2>1, <2>2
<1>4. QED
  BY <1>1, <1>2, <1>3 DEF Promise!Fail, Promise!Lose, db_vars

----------------------------------------------------------------------------
(* A device.                                                               *)

DeviceMoves(d) == Start(d) \/ Proceed(d) \/ Check(d) \/ ConnectionBreaks(d) \/ DeviceCrash(d)

\* A device's step leaves the database, what the receiver has fetched, and the
\* requests and answers of the other devices alone.
LEMMA DeviceFrame ==
  ASSUME MapInv, NEW d \in Devices, DeviceMoves(d)
  PROVE  /\ UNCHANGED <<RowsByDevice, active, sent, rpc, sches, need_update, Due>>
         /\ Requests' = [Requests EXCEPT ![d] = RequestFor(d)']
         /\ Answers' = [Answers EXCEPT ![d] = AnswerFor(d)']
         /\ failures' = failures \/ failures' > 0
<1> USE DEF MapInv, Inv, BaseInv
<1>1. UNCHANGED <<db_vars, rpc, sches, need_update>> /\ (failures' = failures \/ failures' > 0)
  BY FailureCounts DEF DeviceMoves, Start, Proceed, Check, ConnectionBreaks, DeviceCrash, Call, Connect, ConnectFails,
     SendHeader, ReceiveValves, ReceiveSchedules, ReceiveError, rcv_vars
<1>2. conn # NoConn => conn'.type = conn.type
  <2>1. conn' = conn \/ OnMine(d, "header", TRUE) \/ OnMine(d, "waiting", FALSE)
    BY DEF DeviceMoves, Start, Proceed, Check, ConnectionBreaks, DeviceCrash, Call, Connect, ConnectFails,
       SendHeader, ReceiveValves, ReceiveSchedules, ReceiveError, rcv_vars
  <2>2. QED
    BY <2>1, HeaderArrives, StopsWaiting
<1>3. Due' = Due
  BY <1>1, <1>2 DEF Due, Fetching, ConnOfReceiver, db_vars
<1>4. ASSUME NEW e \in Devices \ {d}
      PROVE  RequestFor(e)' = RequestFor(e) /\ AnswerFor(e)' = AnswerFor(e)
  <2>1. /\ UNCHANGED <<stage[e], flight[e], reply[e]>>
        /\ Mine(e, conn)' <=> Mine(e, conn)
        /\ Mine(e, conn)' => conn' = conn
    BY DeviceAlone DEF DeviceMoves
  <2>2. QED
    BY <1>1, <2>1 DEF RequestFor, AnswerFor, Fetching
<1>5. QED
  BY <1>1, <1>3, <1>4, OneRequest, OneAnswer, SameRows DEF db_vars

\* If the device's own request and answer stay as they are, nothing happens.
LEMMA DeviceSilent ==
  ASSUME MapInv, NEW d \in Devices, DeviceMoves(d), RequestFor(d)' = RequestFor(d),
         AnswerFor(d)' = AnswerFor(d), list' = list
  PROVE  Silent
<1>1. Requests[d] = RequestFor(d) /\ Answers[d] = AnswerFor(d)
  BY DEF Requests, Answers
<1>2. Requests' = Requests /\ Answers' = Answers
  BY <1>1, DeviceFrame DEF Requests, Answers
<1>3. QED
  BY <1>2, DeviceFrame DEF Silent

\* What Delivery sees of an answer that was read or that nobody waits for.
LEMMA NoAnswer ==
  ASSUME NEW d \in Devices, reply[d] = << >>, ~Mine(d, conn)
  PROVE  AnswerFor(d) = << >>
BY DEF AnswerFor

LEMMA StartStep ==
  ASSUME MapInv, NEW d \in Devices, Start(d)
  PROVE  Silent
<1>1. UNCHANGED <<rpc, conn, sches, need_update, reply, flight, list>> /\ stage[d] = "off" /\ stage'[d] = "valves"
  BY DEF Start, rcv_vars, MapInv, Inv, BaseInv, TypeOK
<1>2. flight[d] = "none" /\ reply[d] = << >> /\ ~Mine(d, conn)
  BY <1>1 DEF MapInv, Inv, ConnInv, ConnInvOf, Asking
<1>3. QED
  BY <1>1, <1>2, DeviceSilent DEF DeviceMoves, RequestFor, AnswerFor, Mine

LEMMA ConnectStep ==
  ASSUME MapInv, NEW d \in Devices, Call(d) \/ Connect(d)
  PROVE  Silent
<1>1. /\ UNCHANGED <<rpc, conn, sches, need_update, reply, stage, list>>
      /\ flight[d] # "sent" /\ flight'[d] # "sent"
  BY DEF Call, Connect, main_vars, rcv_vars, MapInv, Inv, BaseInv, TypeOK
<1>2. DeviceMoves(d)
  <2>1. CASE Call(d)
    BY <2>1 DEF DeviceMoves, Proceed, Check
  <2>2. CASE Connect(d)
    BY <2>2 DEF DeviceMoves, Proceed
  <2>3. QED
    BY <2>1, <2>2
<1>3. QED
  BY <1>1, <1>2, DeviceSilent DEF RequestFor, AnswerFor, Fetching, Mine

\* Sending the header of a request for schedules is the moment of asking.
LEMMA AskStep ==
  ASSUME MapInv, NEW d \in Devices, SendHeader(d)
  PROVE  [Promise!Next]_(Promise!vars)
<1> USE DEF MapInv, Inv, BaseInv
<1>1. /\ UNCHANGED <<rpc, reply, failures, stage, list>> /\ flight[d] = "connected" /\ flight'[d] = "sent"
      /\ DeviceMoves(d) /\ OnMine(d, "header", TRUE)
  BY DEF SendHeader, main_vars, TypeOK, DeviceMoves, Proceed
<1>2. RequestFor(d) = "none"
  BY <1>1 DEF RequestFor
<1>3. AnswerFor(d)' = AnswerFor(d)
  <2>1. Mine(d, conn) => rpc # "send"
    BY <1>1 DEF ConnInv, ConnInvOf, Asking
  <2>2. Mine(d, conn)' => Mine(d, conn)
    BY <1>1, HeaderArrives DEF Mine
  <2>3. QED
    BY <1>1, <2>1, <2>2, SameAnswer
<1>4. CASE stage[d] \in {"schedules", "run"}
  <2>1. RequestFor(d)' \in {"all", "news"}
    BY <1>1, <1>4 DEF RequestFor
  <2>2. Answers' = Answers
    BY <1>1, <1>3, DeviceFrame DEF Answers
  <2>3. Requests[d] = "none"
    BY <1>2 DEF Requests
  <2>4. Promise!Ask(d)
    BY <1>1, <2>1, <2>2, <2>3, DeviceFrame DEF Promise!Ask
  <2>5. QED
    BY <2>4 DEF Promise!Next
<1>5. CASE stage[d] \notin {"schedules", "run"}
  BY <1>1, <1>2, <1>3, <1>5, DeviceSilent, SilentStep DEF RequestFor
<1>6. QED
  BY <1>4, <1>5

\* The device's end of a request that failed.
LEMMA GiveUpStep ==
  ASSUME MapInv, NEW d \in Devices, DeviceMoves(d), failures' > 0,
         flight'[d] = "none", reply'[d] = << >>, ~Mine(d, conn)',
         list' \in {list, [list EXCEPT ![d] = {}]}
  PROVE  Promise!Fail
<1>1. RequestFor(d)' = "none" /\ AnswerFor(d)' = << >>
  BY NoAnswer DEF RequestFor, AnswerFor
<1>2. QED
  BY <1>1, DeviceFrame DEF Promise!Fail, Promise!GiveUp

LEMMA ErrorStep ==
  ASSUME MapInv, NEW d \in Devices, ReceiveError(d)
  PROVE  Promise!Fail
<1> USE DEF MapInv, Inv, BaseInv
<1>1. GiveUp(d) /\ Finish(d) /\ UNCHANGED <<reply, conn, failures>> /\ DeviceMoves(d)
  BY DEF ReceiveError, GiveUp, rcv_vars, DeviceMoves, Proceed
<1>2. failures > 0
  <2>1. failures # 0
    BY DEF ReceiveError, HeldInv, SendingInv, HeldInvOf
  <2>2. QED
    BY <2>1, FailuresAssumption DEF TypeOK
<1>3. reply[d] = << >> /\ ~Mine(d, conn)
  BY DEF ReceiveError, Awaited
<1>4. flight'[d] = "none" /\ list' \in {list, [list EXCEPT ![d] = {}]}
  BY <1>1, FinishTypes DEF GiveUp
<1>5. QED
  BY <1>1, <1>2, <1>3, <1>4, GiveUpStep DEF Mine

\* A device that cannot connect has asked for nothing yet, and a program that is
\* starting holds nothing it could lose.
LEMMA ConnectFailsStep ==
  ASSUME MapInv, NEW d \in Devices, ConnectFails(d)
  PROVE  Silent
<1> USE DEF MapInv, Inv, BaseInv
<1>1. /\ GiveUp(d) /\ Finish(d) /\ flight[d] = "connecting" /\ UNCHANGED <<reply, conn>> /\ DeviceMoves(d)
  BY DEF ConnectFails, GiveUp, DeviceMoves, Proceed
<1>2. reply[d] = << >> /\ ~Mine(d, conn) /\ flight'[d] = "none"
  BY <1>1, FinishTypes DEF ConnInv, ConnInvOf, Asking
<1>3. /\ RequestFor(d) = "none" /\ RequestFor(d)' = "none"
      /\ AnswerFor(d) = << >> /\ AnswerFor(d)' = << >>
  BY <1>1, <1>2 DEF RequestFor, AnswerFor, Mine
<1>4. list' = list
  <2>1. list' = list \/ (list[d] = {} /\ list' = [list EXCEPT ![d] = {}])
    BY <1>1 DEF GiveUp, TableInv, TableInvOf
  <2>2. QED
    BY <2>1 DEF TypeOK
<1>5. QED
  BY <1>1, <1>3, <1>4, DeviceSilent

LEMMA ValvesStep ==
  ASSUME MapInv, NEW d \in Devices, ReceiveValves(d)
  PROVE  Silent
<1> USE DEF MapInv, Inv, BaseInv
<1>1. /\ stage[d] = "valves" /\ reply'[d] = << >> /\ OnMine(d, "waiting", FALSE) /\ Finish(d) /\ DeviceMoves(d)
  BY DEF ReceiveValves, GiveUp, TypeOK, DeviceMoves, Proceed
<1>2. flight'[d] = "none" /\ ~Mine(d, conn)'
  BY <1>1, FinishTypes, StopsWaiting DEF Mine
<1>3. AnswerFor(d) = << >> /\ AnswerFor(d)' = << >> /\ RequestFor(d) = "none" /\ RequestFor(d)' = "none"
  BY <1>1, <1>2 DEF AnswerFor, RequestFor, Fetching, ConnInv, ConnInvOf, Asking, RequestOf
<1>4. list' = list
  <2>1. list[d] = {}
    BY <1>1 DEF TableInv, TableInvOf
  <2>2. list' = list \/ list' = [list EXCEPT ![d] = {}]
    BY <1>1 DEF ReceiveValves, GiveUp
  <2>3. [list EXCEPT ![d] = {}] = list
    BY <2>1 DEF TypeOK
  <2>4. QED
    BY <2>2, <2>3
<1>5. QED
  BY <1>1, <1>3, <1>4, DeviceSilent

LEMMA TakeStep ==
  ASSUME MapInv, NEW d \in Devices, ReceiveSchedules(d)
  PROVE  Promise!Take(d)
<1> USE DEF MapInv, Inv, BaseInv
<1>1. /\ flight[d] = "sent" /\ reply[d] # << >> /\ stage[d] \in {"schedules", "run"}
      /\ list' = IF reply[d][1] = {} THEN list ELSE [list EXCEPT ![d] = reply[d][1]]
      /\ reply'[d] = << >> /\ OnMine(d, "waiting", FALSE) /\ Finish(d) /\ failures' = failures /\ DeviceMoves(d)
  <2>1. /\ flight[d] = "sent" /\ reply[d] # << >> /\ stage[d] \in {"schedules", "run"}
        /\ list' = IF Head(reply[d]) = {} THEN list ELSE [list EXCEPT ![d] = Head(reply[d])]
        /\ reply' = [reply EXCEPT ![d] = << >>] /\ OnMine(d, "waiting", FALSE) /\ Finish(d)
        /\ failures' = failures /\ DeviceMoves(d)
    BY DEF ReceiveSchedules, DeviceMoves, Proceed
  <2>2. Head(reply[d]) = reply[d][1] /\ reply \in [Devices -> Seq(SUBSET (Ids \cup Valves))]
    BY <2>1 DEF TypeOK
  <2>3. QED
    BY <2>1, <2>2
<1>2. flight'[d] = "none" /\ ~Mine(d, conn)'
  BY <1>1, FinishTypes, StopsWaiting DEF Mine
<1>3. AnswerFor(d) = reply[d] /\ AnswerFor(d)' = << >> /\ RequestFor(d) # "none" /\ RequestFor(d)' = "none"
  BY <1>1, <1>2 DEF AnswerFor, RequestFor, Fetching, ConnInv, ConnInvOf
<1>4. Answers[d] = reply[d] /\ Requests[d] # "none"
  BY <1>3 DEF Answers, Requests
<1>5. QED
  BY <1>1, <1>3, <1>4, DeviceFrame DEF Promise!Take

LEMMA BreakStep ==
  ASSUME MapInv, NEW d \in Devices, ConnectionBreaks(d)
  PROVE  Promise!Fail
<1> USE DEF MapInv, Inv, BaseInv
<1>1. /\ reply[d] = << >> /\ OnMine(d, "waiting", FALSE) /\ failures' > 0 /\ DeviceMoves(d)
      /\ UNCHANGED <<reply, stage, flight, list>>
  BY FailureCounts DEF ConnectionBreaks, main_vars, DeviceMoves
<1>2. ~Mine(d, conn)'
  BY <1>1, StopsWaiting DEF Mine
<1>3. AnswerFor(d)' = << >> /\ RequestFor(d)' = RequestFor(d)
  BY <1>1, <1>2 DEF AnswerFor, RequestFor
<1>4. Requests' = Requests
  BY <1>3, <1>1, DeviceFrame DEF Requests
<1>5. QED
  BY <1>1, <1>3, <1>4, DeviceFrame DEF Promise!Fail, Promise!Lose

LEMMA DeviceStep ==
  ASSUME MapInv, NEW d \in Devices, DeviceMoves(d)
  PROVE  [Promise!Next]_(Promise!vars)
<1>1. CASE Start(d) \/ Call(d) \/ Connect(d) \/ ConnectFails(d) \/ ReceiveValves(d)
  BY <1>1, StartStep, ConnectStep, ConnectFailsStep, ValvesStep, SilentStep
<1>2. CASE SendHeader(d)
  BY <1>2, AskStep
<1>3. CASE ReceiveSchedules(d)
  BY <1>3, TakeStep DEF Promise!Next
<1>4. CASE ReceiveError(d) \/ ConnectionBreaks(d)
  BY <1>4, ErrorStep, BreakStep DEF Promise!Next
<1>5. CASE DeviceCrash(d)
  <2>1. /\ failures' > 0 /\ flight'[d] = "none" /\ reply'[d] = << >> /\ OnMine(d, "waiting", FALSE)
        /\ list' = [list EXCEPT ![d] = {}]
    BY <1>5, FailureCounts, FinishTypes DEF DeviceCrash, MapInv, Inv, BaseInv, TypeOK
  <2>2. ~Mine(d, conn)'
    BY <2>1, StopsWaiting DEF Mine, MapInv, Inv, BaseInv
  <2>3. QED
    BY <2>1, <2>2, GiveUpStep DEF Promise!Next
<1>6. QED
  BY <1>1, <1>2, <1>3, <1>4, <1>5 DEF DeviceMoves, Proceed, Check

----------------------------------------------------------------------------
(* All together.                                                           *)

LEMMA DeliveryStep ==
  ASSUME MapInv, [Next]_vars
  PROVE  [Promise!Next]_(Promise!vars)
<1> USE DEF MapInv, Inv, BaseInv
<1>1. CASE CreateSchedule \/ DeactivateSchedule
  BY <1>1, WebStep DEF Promise!Next
<1>2. CASE ReceiverServes
  <2>1. CASE FetchSchedules
    BY <1>2, <2>1, LookStep DEF ReceiverServes, Promise!Next
  <2>2. CASE SendRsp
    BY <1>2, <2>2, SendStep, SilentStep DEF ReceiverServes
  <2>3. CASE SetSchedulesSent \/ SetSchedulesSentFails
    BY <1>2, <2>3, MarkStep DEF ReceiverServes
  <2>4. CASE Accept \/ RecvHeader \/ RecvHeaderFails \/ FetchValves \/ FetchFails \/ DeactivationRequestsDone
             \/ DeactivationRequestsDoneFails \/ Close
    <3>1. /\ UNCHANGED <<valve_of, active, sent, reply>>
          /\ failures' = failures \/ failures' > 0
      BY <2>4, FailureCounts DEF Accept, RecvHeader, RecvHeaderFails, FetchValves, FetchFails, Close,
         DeactivationRequestsDone, DeactivationRequestsDoneFails, deactivation_requests_done, db_vars
    <3>2. ~Fetching({"send", "mark"}) /\ ~Fetching({"send", "mark"})'
      BY <2>4 DEF Accept, RecvHeader, RecvHeaderFails, FetchValves, FetchFails, Close,
         DeactivationRequestsDone, DeactivationRequestsDoneFails, Fetching
    <3>3. QED
      BY <1>2, <3>1, <3>2, NoPictureStep, SilentStep DEF ReceiverServes
  <2>5. QED
    BY <1>2, <2>1, <2>2, <2>3, <2>4 DEF ReceiverServes, Serve
<1>3. CASE ReceiverDies
  BY <1>3, CrashStep DEF ReceiverDies, Promise!Next
<1>4. CASE ReceiverReturns
  <2>1. /\ UNCHANGED <<valve_of, active, sent, reply, client_vars, failures>>
        /\ ~Fetching({"send", "mark"}) /\ ~Fetching({"send", "mark"})'
    BY <1>4 DEF ReceiverReturns, ReceiverRestart, db_vars, Fetching
  <2>2. QED
    BY <2>1, NoPictureStep, SilentStep
<1>5. CASE \E d \in Devices : DeviceMoves(d)
  BY <1>5, DeviceStep
<1>6. CASE UNCHANGED vars
  BY <1>6, SilentStep, SameRows DEF vars, db_vars, rcv_vars, client_vars, main_vars, Silent, Requests, RequestFor,
     Answers, AnswerFor, Due, Fetching, Mine
<1>7. QED
  BY <1>1, <1>2, <1>3, <1>4, <1>5, <1>6 DEF Next, DeviceMoves

\* Web site, database, receiver and devices together implement Delivery: every
\* list a device takes is a picture of the database taken while it waited.
THEOREM Distribution == Spec => ImplementsDelivery
<1>1. Init => Promise!Init
  <2> SUFFICES ASSUME Init PROVE Promise!Init
    OBVIOUS
  <2>1. /\ RowsByDevice = [d \in Devices |-> {}] /\ Due = {}
        /\ Requests = [d \in Devices |-> "none"] /\ Answers = [d \in Devices |-> << >>]
    BY DEF Init, DbInit, ReceiverInit, RowsByDevice, RowsOf, Rows, Due, Fetching, Requests, RequestFor,
           Answers, AnswerFor
  <2>2. QED
    BY <2>1 DEF Init, DbInit, ReceiverInit, Promise!Init
<1>2. QED
  BY <1>1, MapInvariance, DeliveryStep, PTL DEF Spec, ImplementsDelivery, Promise!Spec
=============================================================================

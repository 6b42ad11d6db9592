-------------------------------- MODULE Wire --------------------------------
(***************************************************************************)
(* One request of a device and its answer as the bytes that both sides     *)
(* write and read: socket_data.c and client_controller.c on the device,    *)
(* socket_data.cpp, db.cpp and main.cpp in the receiver.                   *)
(*                                                                         *)
(* An answer is its length in 16 bits and that many bytes.  recv waits for *)
(* all it asks for (MSG_WAITALL), but returns fewer when the stream ends   *)
(* and, in the receiver, after 30 seconds (SO_RCVTIMEO); the code takes    *)
(* any positive count for success.  What was not received is then whatever *)
(* the memory held.  The device's recv has no timeout: a connection that   *)
(* breaks without a word leaves it waiting.                                *)
(***************************************************************************)
EXTENDS Integers, Sequences

CONSTANTS
  ByteMod,     \* values of a byte, 256 in the code
  MagicNumber, DeviceId,
  Valves,      \* the lists of valve ids the database may hold for the device
  Schedules,   \* the lists of its active schedules: <<id, valve id, start, stop>>
  Junk         \* a byte nobody wrote, or a number with such a byte

Bytes == 0..ByteMod - 1
WordMod == ByteMod * ByteMod
Words == 0..WordMod - 1

ASSUME WireAssumption ==
  /\ ByteMod \in Nat /\ ByteMod > 3
  /\ MagicNumber \in Words /\ DeviceId \in Bytes
  /\ Valves \subseteq Seq(Nat) /\ Schedules \subseteq Seq(Nat \X Nat \X Words \X Words)
  /\ Junk \notin Nat

GET_DEVICE_VALVES_MSG == 1
GET_ACTIVE_SCHES_MSG == 2
CHECK_NEW_SCHEDULES_MSG == 3
RequestTypes == {GET_DEVICE_VALVES_MSG, GET_ACTIVE_SCHES_MSG, CHECK_NEW_SCHEDULES_MSG}

HEADER_SIZE == 6
\* sizeof(uint16_t), sizeof(struct schedule), sizeof(struct schedule_status)
ItemSize(type) == IF type = GET_DEVICE_VALVES_MSG THEN 2 ELSE 8
StatusSize == 10

VARIABLES
  db,        \* the device's rows: [valves, schedules]
  request,   \* the type of the request
  dpc,       \* the device: "send", "len", "msg", "done"
  rsp_len, result, ret,
  spc,       \* the receiver: "header", "fetch", "send", "close", "closed"
  msg_type, device_id,  \* of the header it received
  answer,    \* what it is to send: valve ids or schedules
  up, down,  \* the bytes under way to the receiver and to the device
  broken,    \* the connection broke
  unseen,    \* and the device is never told
  short,     \* history: the header was received in part
  overflow   \* history: something was written past the end of its block

device_vars == <<request, dpc, rsp_len, result, ret>>
server_vars == <<spc, msg_type, device_id, answer, short>>
vars == <<db, device_vars, server_vars, up, down, broken, unseen, overflow>>

Init ==
  /\ db \in [valves : Valves, schedules : Schedules]
  /\ request \in RequestTypes
  /\ dpc = "send" /\ rsp_len = 0 /\ result = << >> /\ ret = "none"
  /\ spc = "header" /\ msg_type = 0 /\ device_id = 0 /\ answer = << >>
  /\ up = << >> /\ down = << >> /\ broken = FALSE /\ unseen = FALSE
  /\ short = FALSE /\ overflow = FALSE

----------------------------------------------------------------------------
(* Bytes and words.                                                        *)

prep_to_send_16(w) == <<w \div ByteMod, w % ByteMod>>

\* Offsets count from 0, as in the code.
prep_recved_16(msg, offset) ==
  LET hi == msg[offset + 1]
      lo == msg[offset + 2]
  IN  IF Junk \in {hi, lo} THEN Junk ELSE hi * ByteMod + lo

\* Mutant: the fields in another order than the reader's.
encode_schedule_swapped(sche) ==
  prep_to_send_16(sche[1]) \o prep_to_send_16(sche[2]) \o prep_to_send_16(sche[4])
    \o prep_to_send_16(sche[3])

encode_schedule(sche) ==
  prep_to_send_16(sche[1]) \o prep_to_send_16(sche[2]) \o prep_to_send_16(sche[3])
    \o prep_to_send_16(sche[4])

sd_decode_schedule(msg, offset) ==
  <<prep_recved_16(msg, offset), prep_recved_16(msg, offset + 2),
    prep_recved_16(msg, offset + 4), prep_recved_16(msg, offset + 6)>>

EncodeItem(type, item) ==
  IF type = GET_DEVICE_VALVES_MSG THEN prep_to_send_16(item) ELSE encode_schedule(item)

DecodeItem(type, msg, offset) ==
  IF type = GET_DEVICE_VALVES_MSG THEN prep_recved_16(msg, offset)
                                  ELSE sd_decode_schedule(msg, offset)

\* craft_device_valves_rsp, craft_active_schedules_rsp
craft_rsp(type, items) ==
  [p \in 1..ItemSize(type) * Len(items) |->
     EncodeItem(type, items[((p - 1) \div ItemSize(type)) + 1])
       [((p - 1) % ItemSize(type)) + 1]]

Prefix(bytes, n) == SubSeq(bytes, 1, IF n < Len(bytes) THEN n ELSE Len(bytes))
Rest(bytes, n) == SubSeq(bytes, n + 1, Len(bytes))

\* A block of n bytes into which only the given ones were received.
Block(bytes, n) == [p \in 1..n |-> IF p <= Len(bytes) THEN bytes[p] ELSE Junk]

\* The values a byte or word of a block may have when the code uses it.
ByteValues(b) == IF b = Junk THEN Bytes ELSE {b}
WordValues(msg, offset) ==
  {hi * ByteMod + lo : hi \in ByteValues(msg[offset + 1]), lo \in ByteValues(msg[offset + 2])}

----------------------------------------------------------------------------
(* The device.                                                             *)

SendHeader ==
  /\ dpc = "send"
  /\ up' = prep_to_send_16(MagicNumber) \o <<DeviceId, request>> \o prep_to_send_16(0)
  /\ dpc' = "len"
  /\ UNCHANGED <<db, request, rsp_len, result, ret, server_vars, down, broken, unseen, overflow>>

\* recv returns what there is when the other side closed the connection, or
\* when its own side learnt that it broke.
Ended == IF broken THEN ~unseen ELSE spc = "closed"

Fail == dpc' = "done" /\ ret' = "error" /\ UNCHANGED <<rsp_len, result>>

\* sd_recv_rsp_len, and the branch on an empty answer
RecvRspLen ==
  /\ dpc = "len" /\ (Len(down) >= 2 \/ Ended)
  /\ \/ down = << >> /\ Fail
     \/ /\ down # << >>
        /\ rsp_len' \in WordValues(Block(Prefix(down, 2), 2), 0)
        /\ IF rsp_len' = 0 /\ request # GET_DEVICE_VALVES_MSG
           THEN dpc' = "done" /\ ret' = "ok"
           ELSE dpc' = "msg" /\ UNCHANGED ret
        /\ UNCHANGED result
  /\ down' = Rest(down, 2)
  /\ UNCHANGED <<db, request, server_vars, up, broken, unseen, overflow>>

\* Mutant: the number of items is that of the blocks the scheduler will need.
ItemCountByStatus(type, len) ==
  IF type = GET_DEVICE_VALVES_MSG THEN len \div 2 ELSE len \div StatusSize

ItemCount(type, len) == len \div ItemSize(type)

\* sd_recv_rsp_msg, the decoding loop, and the block of sm_set_new_schedules
RecvRspMsg ==
  /\ dpc = "msg" /\ (Len(down) >= rsp_len \/ Ended)
  /\ LET received == Prefix(down, rsp_len)
         msg == Block(received, rsp_len)
         n == ItemCount(request, rsp_len)
     IN  \/ received = << >> /\ Fail /\ UNCHANGED overflow
         \/ /\ received # << >>
            /\ result' = [k \in 1..n |-> DecodeItem(request, msg, (k - 1) * ItemSize(request))]
            /\ overflow' = (overflow \/ (/\ request # GET_DEVICE_VALVES_MSG
                                         /\ (StatusSize * n) % WordMod < StatusSize * n))
            /\ dpc' = "done" /\ ret' = "ok"
            /\ UNCHANGED rsp_len
  /\ down' = Rest(down, rsp_len)
  /\ UNCHANGED <<db, request, server_vars, up, broken, unseen>>

Device == SendHeader \/ RecvRspLen \/ RecvRspMsg

----------------------------------------------------------------------------
(* The receiver.                                                           *)

\* Mutant: device and type change places.
RecvHeaderSwapped ==
  /\ spc = "header"
  /\ \E n \in 0..HEADER_SIZE :
       /\ n <= Len(up)
       /\ \/ n = 0 /\ spc' = "close" /\ UNCHANGED <<msg_type, device_id, short>>
          \/ /\ n > 0
             /\ LET msg == Block(Prefix(up, n), HEADER_SIZE)
                IN  /\ device_id' \in ByteValues(msg[4]) /\ msg_type' \in ByteValues(msg[3])
                    /\ \E magic_number \in WordValues(msg, 0) :
                         spc' = IF magic_number = MagicNumber /\ msg_type' \in RequestTypes
                                THEN "fetch" ELSE "close"
             /\ short' = (n < HEADER_SIZE)
       /\ up' = Rest(up, n)
  /\ UNCHANGED <<db, device_vars, answer, down, broken, unseen, overflow>>

\* recv_socket_header and the test of the magic number.  n bytes have come when
\* the header is complete, the stream ends or the 30 seconds are over; the last
\* two leave the connection as it is.
RecvHeader ==
  /\ spc = "header"
  /\ \E n \in 0..HEADER_SIZE :
       /\ n <= Len(up)
       /\ \/ n = 0 /\ spc' = "close" /\ UNCHANGED <<msg_type, device_id, short>>
          \/ /\ n > 0
             /\ LET msg == Block(Prefix(up, n), HEADER_SIZE)
                IN  /\ device_id' \in ByteValues(msg[3]) /\ msg_type' \in ByteValues(msg[4])
                    /\ \E magic_number \in WordValues(msg, 0) :
                         spc' = IF magic_number = MagicNumber /\ msg_type' \in RequestTypes
                                THEN "fetch" ELSE "close"
             /\ short' = (n < HEADER_SIZE)
       /\ up' = Rest(up, n)
  /\ UNCHANGED <<db, device_vars, answer, down, broken, unseen, overflow>>

\* Another device has no rows here.
Found ==
  IF device_id # DeviceId THEN << >>
  ELSE IF msg_type = GET_DEVICE_VALVES_MSG THEN db.valves ELSE db.schedules

\* row[0].as<uint16_t>() throws when the id has more than 16 bits.
Readable ==
  \A k \in DOMAIN Found :
    IF msg_type = GET_DEVICE_VALVES_MSG THEN Found[k] \in Words
                                        ELSE Found[k][1] \in Words /\ Found[k][2] \in Words

\* The database call and, for CHECK_NEW_SCHEDULES_MSG, need_update.
Fetch ==
  /\ spc = "fetch"
  /\ \/ ~Readable /\ spc' = "close" /\ UNCHANGED answer
     \/ /\ Readable /\ spc' = "send"
        /\ \/ answer' = Found
           \/ msg_type = CHECK_NEW_SCHEDULES_MSG /\ answer' = << >>
  /\ UNCHANGED <<db, device_vars, msg_type, device_id, short, up, down, broken, unseen, overflow>>

\* Mutant: the length is not kept in 16 bits.
RspLenWide(type, items) == ItemSize(type) * Len(items)

RspLen(type, items) == (ItemSize(type) * Len(items)) % WordMod

\* Mutant: no room for the length itself.
TotalSizeMsgOnly(len) == len

TotalSize(len) == (2 + len) % WordMod

\* send_rsp_msg, or the end of the process if a block was too small.
SendRsp ==
  /\ spc = "send"
  /\ LET len == RspLen(msg_type, answer)
         total == TotalSize(len)
         msg == prep_to_send_16(len) \o Prefix(craft_rsp(msg_type, answer), len)
         damage == ItemSize(msg_type) * Len(answer) > len \/ 2 + len > total
     IN  /\ \/ down' = IF broken THEN down ELSE Prefix(msg, total)
            \/ damage /\ UNCHANGED down
         /\ overflow' = (overflow \/ damage)
  /\ spc' = "close"
  /\ UNCHANGED <<db, device_vars, msg_type, device_id, answer, short, up, broken, unseen>>

\* Mutant: the socket is closed only after an answer.
CloseAnswered ==
  /\ spc = "close" /\ answer # << >>
  /\ spc' = "closed"
  /\ UNCHANGED <<db, device_vars, msg_type, device_id, answer, short, up, down, broken, unseen,
                 overflow>>

Close ==
  /\ spc = "close"
  /\ spc' = "closed"
  /\ UNCHANGED <<db, device_vars, msg_type, device_id, answer, short, up, down, broken, unseen,
                 overflow>>

Receiver == RecvHeader \/ Fetch \/ SendRsp \/ Close

----------------------------------------------------------------------------

\* The connection breaks; of the bytes under way some may still arrive.  Its
\* kernel tells the device unless all that it sent has arrived.
Break ==
  /\ dpc \in {"len", "msg"} /\ ~broken
  /\ broken' = TRUE
  /\ \E n \in 0..Len(up), m \in 0..Len(down) :
       /\ up' = Prefix(up, n) /\ down' = Prefix(down, m)
       /\ unseen' \in {FALSE, n = Len(up)}
  /\ UNCHANGED <<db, device_vars, server_vars, overflow>>

Next == Device \/ Receiver \/ Break

Spec == Init /\ [][Next]_vars

\* Both processes run.
FairSpec == Spec /\ WF_vars(Device) /\ WF_vars(Receiver)

----------------------------------------------------------------------------
(* Properties.                                                             *)

TypeOK ==
  /\ db \in [valves : Valves, schedules : Schedules] /\ request \in RequestTypes
  /\ dpc \in {"send", "len", "msg", "done"} /\ ret \in {"none", "ok", "error"}
  /\ rsp_len \in Words
  /\ spc \in {"header", "fetch", "send", "close", "closed"}
  /\ {msg_type, device_id} \subseteq Bytes
  /\ \/ answer = << >>
     \/ answer = IF msg_type = GET_DEVICE_VALVES_MSG THEN db.valves ELSE db.schedules
  /\ up \in Seq(Bytes) /\ down \in Seq(Bytes)
  /\ {broken, unseen, short, overflow} \subseteq BOOLEAN

\* The answer consists of the items the device expects, although the receiver
\* may have taken the request for another one.
SameItems == ItemSize(msg_type) = ItemSize(request)

\* If nothing breaks and nothing was written past a block, a successful request
\* gives the device exactly the rows that were to be sent; but a header received
\* in part may have the receiver send items of the other kind.
AnswerArrives ==
  (ret = "ok" /\ ~broken /\ ~overflow) => result = answer \/ (short /\ ~SameItems)

\* Whatever breaks or wraps, no value ends up in another field or another row,
\* unless the items are of the other kind: what the device takes over is a row's
\* value in its place, or was never received.
NeverShifted ==
  \/ short /\ ~SameItems
  \/ /\ Len(result) <= Len(answer)
     /\ \A k \in 1..Len(result) :
          IF request = GET_DEVICE_VALVES_MSG THEN result[k] \in {answer[k], Junk}
          ELSE \A j \in 1..4 : result[k][j] \in {answer[k][j], Junk}

\* Blocks are large enough up to the last size that 16 bits can express: an
\* answer with its length in the receiver, and the scheduler's block in a device
\* that takes the answer for schedules.
BlocksHold ==
  LET bytes == ItemSize(msg_type) * Len(answer)
  IN  overflow => \/ bytes + 2 >= WordMod
                  \/ /\ request # GET_DEVICE_VALVES_MSG
                     /\ StatusSize * ItemCount(request, bytes) >= WordMod

\* The receiver works on the request that was made, unless the header came short.
RequestUnderstood ==
  spc \in {"fetch", "send"} => short \/ (msg_type = request /\ device_id = DeviceId)

\* Every exchange ends, also when the length promises more than was sent, unless
\* the connection breaks and the device is never told.
ExchangeEnds == <>(dpc = "done" \/ unseen)
=============================================================================

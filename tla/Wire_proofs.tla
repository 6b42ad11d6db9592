----------------------------- MODULE Wire_proofs -----------------------------
(***************************************************************************)
(* Theorems about one request and its answer, for bytes of any width, any  *)
(* list of valves or schedules, a connection that breaks anywhere and a    *)
(* receiver whose wait for the header may end at any byte.                 *)
(***************************************************************************)
EXTENDS Wire, SequenceTheorems, TLAPS

\* The rows of an answer that can be sent: their values fit into a word.
Items(type) ==
  IF type = GET_DEVICE_VALVES_MSG THEN Words ELSE Words \X Words \X Words \X Words

Len16 == RspLen(msg_type, answer)
Payload == craft_rsp(msg_type, answer)

\* A header that came whole says what the device asked; before one is sent the
\* receiver can only give up.
HeaderInv ==
  /\ dpc = "send" => up = << >> /\ down = << >> /\ spc \notin {"fetch", "send"}
  /\ spc = "header" /\ Len(up) >= HEADER_SIZE => up[3] = DeviceId /\ up[4] = request
  /\ spc \in {"fetch", "send"} =>
       msg_type \in RequestTypes /\ (short \/ (msg_type = request /\ device_id = DeviceId))

\* Before the receiver has sent, the device has nothing; what is under way then
\* is a beginning of the answer, and its rest once the length was read.
AnswerInv ==
  /\ answer \in Seq(Items(msg_type))
  /\ spc \in {"header", "fetch"} => answer = << >>
  /\ spc \in {"header", "fetch", "send"} =>
       down = << >> /\ result = << >> /\ ret # "ok" /\ ~overflow /\ dpc # "msg"
  /\ dpc # "done" => result = << >> /\ ret = "none"
  /\ down # << >> => msg_type \in RequestTypes /\ (short \/ msg_type = request)
  /\ (down # << >> /\ dpc = "len") =>
       /\ Len(down) <= 2 + Len16
       /\ \A k \in 1..Len(down) :
            down[k] = IF k <= 2 THEN prep_to_send_16(Len16)[k] ELSE Payload[k - 2]
  /\ (down # << >> /\ dpc = "msg") =>
       /\ rsp_len = Len16 /\ Len(down) <= Len16
       /\ \A k \in 1..Len(down) : down[k] = Payload[k]

\* Without a break and without damage the answer is complete.
CompleteInv ==
  (~broken /\ ~overflow /\ down # << >> /\ dpc # "done") =>
    /\ Len16 = ItemSize(msg_type) * Len(answer)
    /\ Len(down) = IF dpc = "msg" THEN Len16 ELSE 2 + Len16

IInv ==
  TypeOK /\ HeaderInv /\ AnswerInv /\ CompleteInv /\ NeverShifted /\ BlocksHold /\ AnswerArrives

----------------------------------------------------------------------------
(* Bytes and words.                                                        *)

LEMMA WidthFacts ==
  /\ ByteMod \in Nat /\ ByteMod >= 4
  /\ WordMod \in Nat /\ WordMod >= 16 /\ WordMod >= ByteMod
  /\ 0 \in Words /\ 0 \in Bytes
<1>1. ByteMod \in Nat /\ ByteMod >= 4
  BY WireAssumption
<1>2. ByteMod * ByteMod \in Nat /\ ByteMod * ByteMod >= 4 * ByteMod
  BY <1>1
<1>3. QED
  BY <1>1, <1>2 DEF WordMod, Words, Bytes

\* Division with a remainder.
LEMMA Division ==
  ASSUME NEW n \in Nat, NEW b \in Nat \ {0}
  PROVE  /\ n \div b \in Nat /\ n % b \in 0..b - 1
         /\ n = b * (n \div b) + (n % b)
BY SMT

\* A remainder is smaller than the number only if that is not below the divisor.
LEMMA Remainder ==
  ASSUME NEW n \in Nat, NEW b \in Nat \ {0}
  PROVE  n % b \in Nat /\ n % b < b /\ n % b <= n /\ (n % b < n => b <= n)
<1> DEFINE q == n \div b
           r == n % b
<1>1. q \in Nat /\ r \in Nat /\ r < b /\ n = b * q + r
  BY Division
<1> HIDE DEF q, r
<1>2. CASE q = 0
  BY <1>1, <1>2 DEF r
<1>3. CASE q # 0
  <2>1. q - 1 \in Nat /\ b * q = b * (q - 1) + b
    BY <1>1, <1>3
  <2>2. b * (q - 1) \in Nat
    BY <2>1
  <2>3. b * q \in Nat /\ b * q >= b
    BY <2>1, <2>2
  <2> HIDE DEF q
  <2>4. r <= n /\ b <= n
    BY <1>1, <2>3
  <2>5. QED
    BY <1>1, <2>4 DEF r
<1>4. QED
  BY <1>2, <1>3

LEMMA Narrower ==
  ASSUME NEW S, NEW T, NEW s \in Seq(S), \A k \in 1..Len(s) : s[k] \in T
  PROVE  s \in Seq(T)
<1>1. s \in [1..Len(s) -> T] /\ Len(s) \in Nat
  OBVIOUS
<1>2. QED
  BY <1>1

LEMMA NotJunk == Junk \notin Bytes
BY WireAssumption DEF Bytes

LEMMA Multiple ==
  ASSUME NEW n \in Nat, NEW b \in Nat, n # 0
  PROVE  b * n \in Nat /\ b * n >= b
<1>1. b * (n - 1) \in Nat /\ b * n = b * (n - 1) + b
  OBVIOUS
<1>2. QED
  BY <1>1

\* A word is sent as two bytes, which the other side puts together again.
LEMMA TwoBytes ==
  ASSUME NEW w \in Words
  PROVE  /\ prep_to_send_16(w) \in Seq(Bytes)
         /\ prep_to_send_16(w)[1] \in Bytes /\ prep_to_send_16(w)[2] \in Bytes
         /\ Len(prep_to_send_16(w)) = 2
         /\ prep_to_send_16(w)[1] * ByteMod + prep_to_send_16(w)[2] = w
<1>1. ByteMod \in Nat \ {0} /\ w \in Nat /\ w < ByteMod * ByteMod
  BY WidthFacts DEF Words, WordMod
<1>2. /\ w \div ByteMod \in Nat /\ w % ByteMod \in 0..ByteMod - 1
      /\ w = ByteMod * (w \div ByteMod) + (w % ByteMod)
  BY <1>1, Division
<1>3. w \div ByteMod < ByteMod
  BY <1>1, <1>2
<1>4. QED
  BY <1>1, <1>2, <1>3 DEF prep_to_send_16, Bytes

\* Two bytes that were written, or not, are the word or a value nobody wrote.
LEMMA WordBack ==
  ASSUME NEW w \in Words, NEW msg, NEW offset,
         msg[offset + 1] \in {prep_to_send_16(w)[1], Junk},
         msg[offset + 2] \in {prep_to_send_16(w)[2], Junk}
  PROVE  /\ prep_recved_16(msg, offset) \in {w, Junk}
         /\ (msg[offset + 1] # Junk /\ msg[offset + 2] # Junk) => prep_recved_16(msg, offset) = w
         /\ prep_to_send_16(w)[1] # Junk /\ prep_to_send_16(w)[2] # Junk
<1>1. /\ prep_to_send_16(w)[1] # Junk /\ prep_to_send_16(w)[2] # Junk
      /\ prep_to_send_16(w)[1] * ByteMod + prep_to_send_16(w)[2] = w
  BY TwoBytes, NotJunk
<1>2. QED
  BY <1>1 DEF prep_recved_16

\* Whatever the memory held, a length is a word.
LEMMA WordRange ==
  ASSUME NEW hi \in Bytes, NEW lo \in Bytes
  PROVE  hi * ByteMod + lo \in Words
<1>1. ByteMod \in Nat /\ hi \in Nat /\ lo \in Nat /\ hi <= ByteMod - 1 /\ lo <= ByteMod - 1
  BY WidthFacts DEF Bytes
<1>2. hi * ByteMod <= (ByteMod - 1) * ByteMod
  BY <1>1
<1>3. (ByteMod - 1) * ByteMod = ByteMod * ByteMod - ByteMod
  BY <1>1
<1>4. hi * ByteMod \in Nat
  BY <1>1
<1>5. QED
  BY <1>1, <1>2, <1>3, <1>4 DEF Words, WordMod

LEMMA WordValuesFacts ==
  ASSUME NEW msg, NEW offset,
         msg[offset + 1] \in Bytes \cup {Junk}, msg[offset + 2] \in Bytes \cup {Junk}
  PROVE  /\ WordValues(msg, offset) \subseteq Words
         /\ \A w \in Words :
              (msg[offset + 1] = prep_to_send_16(w)[1] /\ msg[offset + 2] = prep_to_send_16(w)[2])
                => WordValues(msg, offset) = {w}
<1>1. ByteValues(msg[offset + 1]) \subseteq Bytes /\ ByteValues(msg[offset + 2]) \subseteq Bytes
  BY DEF ByteValues
<1>2. WordValues(msg, offset) \subseteq Words
  BY <1>1, WordRange DEF WordValues
<1>3. ASSUME NEW w \in Words,
             msg[offset + 1] = prep_to_send_16(w)[1], msg[offset + 2] = prep_to_send_16(w)[2]
      PROVE  WordValues(msg, offset) = {w}
  <2>1. /\ prep_to_send_16(w)[1] # Junk /\ prep_to_send_16(w)[2] # Junk
        /\ prep_to_send_16(w)[1] * ByteMod + prep_to_send_16(w)[2] = w
    BY TwoBytes, NotJunk
  <2>2. QED
    BY <1>3, <2>1 DEF WordValues, ByteValues
<1>4. QED
  BY <1>2, <1>3

\* Beginnings and rests of what is under way.
LEMMA PrefixFacts ==
  ASSUME NEW S, NEW bytes \in Seq(S), NEW n \in Nat
  PROVE  /\ Prefix(bytes, n) \in Seq(S)
         /\ Len(Prefix(bytes, n)) = IF n < Len(bytes) THEN n ELSE Len(bytes)
         /\ \A k \in 1..Len(Prefix(bytes, n)) : Prefix(bytes, n)[k] = bytes[k]
         /\ Rest(bytes, n) \in Seq(S)
         /\ Len(Rest(bytes, n)) = IF n < Len(bytes) THEN Len(bytes) - n ELSE 0
         /\ \A k \in 1..Len(Rest(bytes, n)) : Rest(bytes, n)[k] = bytes[k + n]
BY DEF Prefix, Rest

\* A word after what was written before it.
LEMMA WordAppended ==
  ASSUME NEW s \in Seq(Bytes), NEW w \in Words
  PROVE  /\ s \o prep_to_send_16(w) \in Seq(Bytes)
         /\ Len(s \o prep_to_send_16(w)) = Len(s) + 2
         /\ \A j \in 1..Len(s) : (s \o prep_to_send_16(w))[j] = s[j]
         /\ (s \o prep_to_send_16(w))[Len(s) + 1] = prep_to_send_16(w)[1]
         /\ (s \o prep_to_send_16(w))[Len(s) + 2] = prep_to_send_16(w)[2]
<1> DEFINE t == prep_to_send_16(w)
<1>1. t \in Seq(Bytes) /\ Len(t) = 2
  BY TwoBytes
<1> HIDE DEF t
<1>2. /\ s \o t \in Seq(Bytes) /\ Len(s \o t) = Len(s) + Len(t)
      /\ \A j \in 1..Len(s) + Len(t) : (s \o t)[j] = IF j <= Len(s) THEN s[j] ELSE t[j - Len(s)]
  BY <1>1, ConcatProperties
<1>3. Len(s) \in Nat
  OBVIOUS
<1>4. QED
  BY <1>1, <1>2, <1>3 DEF t

\* A row as it is sent.
LEMMA EncodedItem ==
  ASSUME NEW type \in RequestTypes, NEW item \in Items(type)
  PROVE  /\ EncodeItem(type, item) \in Seq(Bytes)
         /\ Len(EncodeItem(type, item)) = ItemSize(type)
         /\ type = GET_DEVICE_VALVES_MSG => EncodeItem(type, item) = prep_to_send_16(item)
         /\ type # GET_DEVICE_VALVES_MSG => \A j \in 1..4 :
              /\ item[j] \in Words
              /\ EncodeItem(type, item)[2 * j - 1] = prep_to_send_16(item[j])[1]
              /\ EncodeItem(type, item)[2 * j] = prep_to_send_16(item[j])[2]
<1>1. CASE type = GET_DEVICE_VALVES_MSG
  <2>1. item \in Words
    BY <1>1 DEF Items
  <2>2. prep_to_send_16(item) \in Seq(Bytes) /\ Len(prep_to_send_16(item)) = 2
    BY <2>1, TwoBytes
  <2>3. QED
    BY <1>1, <2>2 DEF EncodeItem, ItemSize
<1>2. CASE type # GET_DEVICE_VALVES_MSG
  <2>1. item[1] \in Words /\ item[2] \in Words /\ item[3] \in Words /\ item[4] \in Words
    BY <1>2 DEF Items
  <2> DEFINE p == prep_to_send_16(item[1])
             f == p \o prep_to_send_16(item[2])
             g == f \o prep_to_send_16(item[3])
             e == g \o prep_to_send_16(item[4])
  <2>2. EncodeItem(type, item) = e
    BY <1>2 DEF EncodeItem, encode_schedule
  <2>3. p \in Seq(Bytes) /\ Len(p) = 2
    BY <2>1, TwoBytes
  <2> HIDE DEF p
  <2>4. /\ f \in Seq(Bytes) /\ Len(f) = 4 /\ f[1] = p[1] /\ f[2] = p[2]
        /\ f[3] = prep_to_send_16(item[2])[1] /\ f[4] = prep_to_send_16(item[2])[2]
    <3>1. /\ f \in Seq(Bytes) /\ Len(f) = Len(p) + 2 /\ \A j \in 1..Len(p) : f[j] = p[j]
          /\ f[Len(p) + 1] = prep_to_send_16(item[2])[1]
          /\ f[Len(p) + 2] = prep_to_send_16(item[2])[2]
      BY <2>1, <2>3, WordAppended
    <3>2. QED
      BY <2>3, <3>1
  <2> HIDE DEF f
  <2>5. /\ g \in Seq(Bytes) /\ Len(g) = 6 /\ \A j \in 1..4 : g[j] = f[j]
        /\ g[5] = prep_to_send_16(item[3])[1] /\ g[6] = prep_to_send_16(item[3])[2]
    <3>1. /\ g \in Seq(Bytes) /\ Len(g) = Len(f) + 2 /\ \A j \in 1..Len(f) : g[j] = f[j]
          /\ g[Len(f) + 1] = prep_to_send_16(item[3])[1]
          /\ g[Len(f) + 2] = prep_to_send_16(item[3])[2]
      BY <2>1, <2>4, WordAppended
    <3>2. QED
      BY <2>4, <3>1
  <2> HIDE DEF g
  <2>6. /\ e \in Seq(Bytes) /\ Len(e) = 8 /\ \A j \in 1..6 : e[j] = g[j]
        /\ e[7] = prep_to_send_16(item[4])[1] /\ e[8] = prep_to_send_16(item[4])[2]
    <3>1. /\ e \in Seq(Bytes) /\ Len(e) = Len(g) + 2 /\ \A j \in 1..Len(g) : e[j] = g[j]
          /\ e[Len(g) + 1] = prep_to_send_16(item[4])[1]
          /\ e[Len(g) + 2] = prep_to_send_16(item[4])[2]
      BY <2>1, <2>5, WordAppended
    <3>2. QED
      BY SMTT(40), <2>5, <3>1
  <2> HIDE DEF e
  <2>7. ASSUME NEW j \in 1..4
        PROVE  /\ item[j] \in Words
               /\ e[2 * j - 1] = prep_to_send_16(item[j])[1]
               /\ e[2 * j] = prep_to_send_16(item[j])[2]
    <3>1. j \in {1, 2, 3, 4}
      OBVIOUS
    <3>2. QED
      BY <2>1, <2>4, <2>5, <2>6, <3>1 DEF p
  <2>8. QED
    BY <1>2, <2>2, <2>6, <2>7 DEF ItemSize
<1>3. QED
  BY <1>1, <1>2

\* Where the bytes of a row are in the answer.
LEMMA ItemPlace ==
  ASSUME NEW size \in {2, 8}, NEW k \in Nat \ {0}, NEW j \in 1..size
  PROVE  /\ (((k - 1) * size + j - 1) \div size) + 1 = k
         /\ (((k - 1) * size + j - 1) % size) + 1 = j
<1>1. CASE size = 2
  BY <1>1
<1>2. CASE size = 8
  BY <1>2
<1>3. QED
  BY <1>1, <1>2

LEMMA PlaceOfItem ==
  ASSUME NEW size \in {2, 8}, NEW n \in Nat, NEW p \in 1..size * n
  PROVE  ((p - 1) \div size) + 1 \in 1..n /\ ((p - 1) % size) + 1 \in 1..size
<1>1. CASE size = 2
  BY <1>1
<1>2. CASE size = 8
  BY <1>2
<1>3. QED
  BY <1>1, <1>2

LEMMA SizeFacts ==
  ASSUME NEW type \in RequestTypes
  PROVE  /\ ItemSize(type) \in {2, 8}
         /\ type = GET_DEVICE_VALVES_MSG => ItemSize(type) = 2
         /\ type # GET_DEVICE_VALVES_MSG => ItemSize(type) = 8
BY DEF ItemSize

\* The answer as bytes: row k begins after k - 1 rows.
LEMMA Crafted ==
  ASSUME NEW type \in RequestTypes, NEW items \in Seq(Items(type))
  PROVE  /\ craft_rsp(type, items) \in Seq(Bytes)
         /\ Len(craft_rsp(type, items)) = ItemSize(type) * Len(items)
         /\ \A k \in 1..Len(items) : \A j \in 1..ItemSize(type) :
              craft_rsp(type, items)[(k - 1) * ItemSize(type) + j] = EncodeItem(type, items[k])[j]
<1> DEFINE size == ItemSize(type)
           n == Len(items)
           Of(p) == EncodeItem(type, items[((p - 1) \div size) + 1])[((p - 1) % size) + 1]
<1>1. size \in {2, 8} /\ n \in Nat
  BY SizeFacts
<1>2. \A k \in 1..n : items[k] \in Items(type)
  OBVIOUS
<1>3. ASSUME NEW k \in 1..n, NEW j \in 1..size
      PROVE  EncodeItem(type, items[k])[j] \in Bytes
  <2>1. items[k] \in Items(type)
    BY <1>2
  <2>2. EncodeItem(type, items[k]) \in Seq(Bytes) /\ Len(EncodeItem(type, items[k])) = size
    BY <2>1, EncodedItem
  <2>3. QED
    BY <1>1, <2>2
<1>4. craft_rsp(type, items) = [p \in 1..size * n |-> Of(p)]
  BY DEF craft_rsp
<1> HIDE DEF size, n
<1>5. \A p \in 1..size * n : Of(p) \in Bytes
  BY <1>1, <1>3, PlaceOfItem
<1>6. size * n \in Nat
  BY <1>1
<1>7. craft_rsp(type, items) \in [1..size * n -> Bytes]
  BY <1>4, <1>5
<1>8. craft_rsp(type, items) \in Seq(Bytes) /\ Len(craft_rsp(type, items)) = size * n
  BY <1>6, <1>7
<1>9. ASSUME NEW k \in 1..n, NEW j \in 1..size
      PROVE  craft_rsp(type, items)[(k - 1) * size + j] = EncodeItem(type, items[k])[j]
  <2> DEFINE p == (k - 1) * size + j
  <2>1. p \in 1..size * n
    <3>1. CASE size = 2
      BY <1>1, <3>1
    <3>2. CASE size = 8
      BY <1>1, <3>2
    <3>3. QED
      BY <1>1, <3>1, <3>2
  <2>2. ((p - 1) \div size) + 1 = k /\ ((p - 1) % size) + 1 = j
    <3>1. k \in Nat \ {0}
      BY <1>1
    <3>2. QED
      BY <1>1, <3>1, ItemPlace
  <2>3. QED
    BY <1>4, <2>1, <2>2
<1>10. QED
  BY <1>8, <1>9 DEF size, n

\* A row read back from bytes of which some may be missing.
LEMMA DecodedItem ==
  ASSUME NEW type \in RequestTypes, NEW item \in Items(type), NEW msg, NEW offset \in Nat,
         \A j \in 1..ItemSize(type) : msg[offset + j] \in {EncodeItem(type, item)[j], Junk}
  PROVE  /\ type = GET_DEVICE_VALVES_MSG => DecodeItem(type, msg, offset) \in {item, Junk}
         /\ type # GET_DEVICE_VALVES_MSG =>
              \A j \in 1..4 : DecodeItem(type, msg, offset)[j] \in {item[j], Junk}
         /\ (\A j \in 1..ItemSize(type) : msg[offset + j] # Junk) =>
              DecodeItem(type, msg, offset) = item
<1>1. CASE type = GET_DEVICE_VALVES_MSG
  <2>1. item \in Words /\ ItemSize(type) = 2 /\ EncodeItem(type, item) = prep_to_send_16(item)
    BY <1>1, EncodedItem DEF Items, ItemSize
  <2>2. /\ msg[offset + 1] \in {prep_to_send_16(item)[1], Junk}
        /\ msg[offset + 2] \in {prep_to_send_16(item)[2], Junk}
    BY <2>1
  <2>3. /\ prep_recved_16(msg, offset) \in {item, Junk}
        /\ (msg[offset + 1] # Junk /\ msg[offset + 2] # Junk) => prep_recved_16(msg, offset) = item
    BY <2>1, <2>2, WordBack
  <2>4. DecodeItem(type, msg, offset) = prep_recved_16(msg, offset)
    BY <1>1 DEF DecodeItem
  <2>5. QED
    BY <1>1, <2>1, <2>3, <2>4
<1>2. CASE type # GET_DEVICE_VALVES_MSG
  <2> DEFINE W(j) == prep_recved_16(msg, offset + 2 * (j - 1))
  <2>1. ItemSize(type) = 8
    BY <1>2 DEF ItemSize
  <2>2. ASSUME NEW j \in 1..4
        PROVE  /\ W(j) \in {item[j], Junk}
               /\ (msg[offset + 2 * j - 1] # Junk /\ msg[offset + 2 * j] # Junk) => W(j) = item[j]
    <3>1. /\ item[j] \in Words
          /\ EncodeItem(type, item)[2 * j - 1] = prep_to_send_16(item[j])[1]
          /\ EncodeItem(type, item)[2 * j] = prep_to_send_16(item[j])[2]
      BY <1>2, EncodedItem
    <3>2. /\ msg[offset + (2 * j - 1)] \in {prep_to_send_16(item[j])[1], Junk}
          /\ msg[offset + 2 * j] \in {prep_to_send_16(item[j])[2], Junk}
      BY <2>1, <3>1
    <3>3. /\ offset + 2 * (j - 1) + 1 = offset + (2 * j - 1)
          /\ offset + 2 * (j - 1) + 2 = offset + 2 * j
          /\ offset + 2 * j - 1 = offset + (2 * j - 1)
      OBVIOUS
    <3>4. QED
      BY <3>1, <3>2, <3>3, WordBack
  <2>3. DecodeItem(type, msg, offset) = <<W(1), W(2), W(3), W(4)>>
    <3>1. offset + 2 * (1 - 1) = offset
      OBVIOUS
    <3>2. QED
      BY <1>2, <3>1 DEF DecodeItem, sd_decode_schedule
  <2>4. item = <<item[1], item[2], item[3], item[4]>>
    BY <1>2 DEF Items
  <2> HIDE DEF W
  <2>5. \A j \in 1..4 : DecodeItem(type, msg, offset)[j] \in {item[j], Junk}
    <3>1. ASSUME NEW j \in 1..4 PROVE <<W(1), W(2), W(3), W(4)>>[j] = W(j)
      <4>1. j \in {1, 2, 3, 4}
        OBVIOUS
      <4>2. QED
        BY <4>1
    <3>2. QED
      BY <2>2, <2>3, <3>1
  <2>6. ASSUME \A j \in 1..ItemSize(type) : msg[offset + j] # Junk
        PROVE  DecodeItem(type, msg, offset) = item
    <3>1. ASSUME NEW j \in 1..4 PROVE W(j) = item[j]
      <4>1. 2 * j - 1 \in 1..8 /\ 2 * j \in 1..8 /\ offset + 2 * j - 1 = offset + (2 * j - 1)
        OBVIOUS
      <4>2. QED
        BY <2>1, <2>2, <2>6, <4>1
    <3>2. QED
      BY <2>3, <2>4, <3>1
  <2>7. QED
    BY <1>2, <2>5, <2>6
<1>3. QED
  BY <1>1, <1>2

----------------------------------------------------------------------------
(* Types and the header.                                                   *)

\* A block holds what was received, and Junk.
LEMMA BlockFacts ==
  ASSUME NEW bytes \in Seq(Bytes), NEW n \in Nat
  PROVE  \A p \in 1..n : Block(bytes, n)[p] = (IF p <= Len(bytes) THEN bytes[p] ELSE Junk)
                       /\ Block(bytes, n)[p] \in Bytes \cup {Junk}
BY DEF Block

LEMMA TypesFit == RequestTypes \subseteq Bytes \ {0} /\ RequestTypes \subseteq Nat
BY WidthFacts DEF RequestTypes, GET_DEVICE_VALVES_MSG, GET_ACTIVE_SCHES_MSG,
   CHECK_NEW_SCHEDULES_MSG, Bytes

LEMMA RspLenFacts ==
  ASSUME TypeOK, AnswerInv
  PROVE  /\ Len(answer) \in Nat /\ ItemSize(msg_type) \in {2, 8}
         /\ ItemSize(msg_type) * Len(answer) \in Nat
         /\ Len16 \in Words /\ Len16 \in Nat /\ Len16 <= ItemSize(msg_type) * Len(answer)
         /\ Len16 < ItemSize(msg_type) * Len(answer) =>
              WordMod <= ItemSize(msg_type) * Len(answer)
<1>1. Len(answer) \in Nat /\ ItemSize(msg_type) \in {2, 8}
  BY DEF AnswerInv, ItemSize
<1>2. ItemSize(msg_type) * Len(answer) \in Nat
  BY <1>1
<1> DEFINE x == ItemSize(msg_type) * Len(answer)
<1>3. WordMod \in Nat \ {0} /\ Len16 = x % WordMod
  BY WidthFacts DEF RspLen, Len16
<1> HIDE DEF x
<1>4. x % WordMod \in Nat /\ x % WordMod < WordMod /\ x % WordMod <= x /\ (x % WordMod < x => WordMod <= x)
  BY <1>2, <1>3, Remainder DEF x
<1>8. Len16 \in Words
  BY <1>3, <1>4 DEF Words
<1>9. Len16 \in Nat /\ Len16 <= x /\ (Len16 < x => WordMod <= x)
  BY <1>3, <1>4
<1>10. QED
  BY <1>1, <1>2, <1>8, <1>9 DEF x

LEMMA HeaderBytes ==
  LET h == prep_to_send_16(MagicNumber) \o <<DeviceId, request>> \o prep_to_send_16(0)
  IN  TypeOK => /\ h \in Seq(Bytes) /\ Len(h) = 6 /\ h[3] = DeviceId /\ h[4] = request
<1> SUFFICES ASSUME TypeOK
             PROVE  LET h == prep_to_send_16(MagicNumber) \o <<DeviceId, request>> \o prep_to_send_16(0)
                    IN  /\ h \in Seq(Bytes) /\ Len(h) = 6 /\ h[3] = DeviceId /\ h[4] = request
  OBVIOUS
<1> DEFINE m == prep_to_send_16(MagicNumber)
           d == <<DeviceId, request>>
           f == m \o d
           h == f \o prep_to_send_16(0)
<1>1. MagicNumber \in Words /\ DeviceId \in Bytes /\ request \in Bytes /\ 0 \in Words
  BY WireAssumption, TypesFit, WidthFacts DEF TypeOK
<1>2. m \in Seq(Bytes) /\ Len(m) = 2
  BY <1>1, TwoBytes
<1>3. d \in Seq(Bytes) /\ Len(d) = 2 /\ d[1] = DeviceId /\ d[2] = request
  BY <1>1
<1> HIDE DEF m, d
<1>4. /\ f \in Seq(Bytes) /\ Len(f) = 4
      /\ \A j \in 1..4 : f[j] = IF j <= 2 THEN m[j] ELSE d[j - 2]
  <2>1. /\ f \in Seq(Bytes) /\ Len(f) = Len(m) + Len(d)
        /\ \A j \in 1..Len(m) + Len(d) : f[j] = IF j <= Len(m) THEN m[j] ELSE d[j - Len(m)]
    BY <1>2, <1>3, ConcatProperties
  <2>2. QED
    BY <1>2, <1>3, <2>1
<1> HIDE DEF f
<1>5. /\ h \in Seq(Bytes) /\ Len(h) = Len(f) + 2 /\ \A j \in 1..Len(f) : h[j] = f[j]
  BY <1>1, <1>4, WordAppended
<1>6. h[3] = f[3] /\ h[4] = f[4] /\ f[3] = d[1] /\ f[4] = d[2]
  BY <1>4, <1>5
<1>7. QED
  BY <1>3, <1>4, <1>5, <1>6 DEF m, d, f

\* What the receiver reads from the database can be sent.
LEMMA FoundItems ==
  ASSUME TypeOK, Readable, msg_type \in RequestTypes
  PROVE  Found \in Seq(Items(msg_type))
<1>1. db.valves \in Seq(Nat) /\ db.schedules \in Seq(Nat \X Nat \X Words \X Words)
  BY WireAssumption DEF TypeOK
<1>2. CASE device_id # DeviceId
  BY <1>2 DEF Found
<1>3. CASE device_id = DeviceId /\ msg_type = GET_DEVICE_VALVES_MSG
  <2>1. Found = db.valves /\ \A k \in 1..Len(Found) : Found[k] \in Words
    BY <1>1, <1>3 DEF Found, Readable
  <2>2. QED
    BY <1>1, <1>3, <2>1, Narrower DEF Items
<1>4. CASE device_id = DeviceId /\ msg_type # GET_DEVICE_VALVES_MSG
  <2>1. Found = db.schedules
    BY <1>4 DEF Found
  <2>2. \A k \in 1..Len(Found) : Found[k] \in Nat \X Nat \X Words \X Words
    BY <1>1, <2>1
  <2>3. \A k \in 1..Len(Found) : Found[k][1] \in Words /\ Found[k][2] \in Words
    BY <1>1, <1>4, <2>1 DEF Readable
  <2>4. \A k \in 1..Len(Found) : Found[k] \in Words \X Words \X Words \X Words
    BY <2>2, <2>3
  <2>5. QED
    BY <1>1, <1>4, <2>1, <2>4, Narrower DEF Items
<1>5. QED
  BY <1>2, <1>3, <1>4

LEMMA InitInv == Init => IInv
<1> SUFFICES ASSUME Init PROVE IInv
  OBVIOUS
<1>1. TypeOK
  <2>1. {broken, unseen, short, overflow} \subseteq BOOLEAN
    BY DEF Init
  <2>2. rsp_len \in Words /\ {msg_type, device_id} \subseteq Bytes
    BY WidthFacts DEF Init
  <2>3. up \in Seq(Bytes) /\ down \in Seq(Bytes)
    BY DEF Init
  <2>4. QED
    BY <2>1, <2>2, <2>3 DEF Init, TypeOK
<1>2. HeaderInv /\ AnswerInv /\ CompleteInv
  BY DEF Init, HeaderInv, AnswerInv, CompleteInv, HEADER_SIZE
<1>3. NeverShifted /\ BlocksHold /\ AnswerArrives
  BY DEF Init, NeverShifted, BlocksHold, AnswerArrives
<1>4. QED
  BY <1>1, <1>2, <1>3 DEF IInv

\* The four actions that leave the rows, the answer and what arrived alone.
LEMMA SendHeaderStep == IInv /\ SendHeader => IInv'
<1> SUFFICES ASSUME IInv, SendHeader PROVE IInv'
  OBVIOUS
<1>1. /\ up' \in Seq(Bytes) /\ Len(up') = 6 /\ up'[3] = DeviceId /\ up'[4] = request
  BY HeaderBytes DEF IInv, SendHeader
<1>2. TypeOK' /\ HeaderInv'
  BY <1>1 DEF IInv, TypeOK, HeaderInv, SendHeader, server_vars
<1>3. AnswerInv'
  BY DEF IInv, AnswerInv, HeaderInv, SendHeader, server_vars, Len16, Payload
<1>4. CompleteInv' /\ NeverShifted' /\ BlocksHold' /\ AnswerArrives'
  BY DEF IInv, AnswerInv, HeaderInv, CompleteInv, NeverShifted, BlocksHold, AnswerArrives,
     SameItems, SendHeader, server_vars, Len16
<1>5. QED
  BY <1>2, <1>3, <1>4 DEF IInv

LEMMA RecvHeaderStep == IInv /\ RecvHeader => IInv'
<1> SUFFICES ASSUME IInv, RecvHeader PROVE IInv'
  OBVIOUS
<1> USE DEF IInv
<1>1. up \in Seq(Bytes) /\ HEADER_SIZE = 6 /\ HEADER_SIZE \in Nat
  BY DEF TypeOK, HEADER_SIZE
<1>2. PICK n \in 0..HEADER_SIZE :
        /\ n <= Len(up)
        /\ \/ n = 0 /\ spc' = "close" /\ UNCHANGED <<msg_type, device_id, short>>
           \/ /\ n > 0
              /\ LET msg == Block(Prefix(up, n), HEADER_SIZE)
                 IN  /\ device_id' \in ByteValues(msg[3]) /\ msg_type' \in ByteValues(msg[4])
                     /\ \E magic_number \in WordValues(msg, 0) :
                          spc' = IF magic_number = MagicNumber /\ msg_type' \in RequestTypes
                                 THEN "fetch" ELSE "close"
              /\ short' = (n < HEADER_SIZE)
        /\ up' = Rest(up, n)
  BY DEF RecvHeader
<1> DEFINE part == Prefix(up, n)
           msg == Block(part, HEADER_SIZE)
<1>3. /\ up' \in Seq(Bytes) /\ part \in Seq(Bytes) /\ Len(part) = n
      /\ \A k \in 1..n : part[k] = up[k]
      /\ up = << >> => up' = << >>
  <2>1. n \in Nat /\ n <= Len(up) /\ Len(up) \in Nat
    BY <1>1, <1>2
  <2>2. /\ Prefix(up, n) \in Seq(Bytes)
        /\ Len(Prefix(up, n)) = IF n < Len(up) THEN n ELSE Len(up)
        /\ \A k \in 1..Len(Prefix(up, n)) : Prefix(up, n)[k] = up[k]
        /\ Rest(up, n) \in Seq(Bytes)
        /\ Len(Rest(up, n)) = IF n < Len(up) THEN Len(up) - n ELSE 0
    BY <1>1, <2>1, PrefixFacts
  <2>3. Len(Prefix(up, n)) = n
    BY <2>1, <2>2
  <2>4. up = << >> => Rest(up, n) = << >>
    BY <2>1, <2>2
  <2>5. QED
    BY <1>2, <2>2, <2>3, <2>4
<1> HIDE DEF part
<1>4. /\ msg[3] \in Bytes \cup {Junk} /\ msg[4] \in Bytes \cup {Junk}
      /\ n = HEADER_SIZE => msg[3] = up[3] /\ msg[4] = up[4]
  <2>1. \A p \in 1..HEADER_SIZE : /\ msg[p] = IF p <= Len(part) THEN part[p] ELSE Junk
                                 /\ msg[p] \in Bytes \cup {Junk}
    BY <1>1, <1>3, BlockFacts
  <2>2. 3 \in 1..HEADER_SIZE /\ 4 \in 1..HEADER_SIZE
    BY <1>1
  <2>3. n = HEADER_SIZE => 3 \in 1..n /\ 4 \in 1..n /\ 3 <= Len(part) /\ 4 <= Len(part)
    BY <1>1, <1>3
  <2>4. QED
    BY <1>3, <2>1, <2>2, <2>3
<1>5. \/ n = 0 /\ spc' = "close" /\ UNCHANGED <<msg_type, device_id, short>>
      \/ /\ n > 0
         /\ device_id' \in ByteValues(msg[3]) /\ msg_type' \in ByteValues(msg[4])
         /\ spc' = "close" \/ (spc' = "fetch" /\ msg_type' \in RequestTypes)
         /\ short' = (n < HEADER_SIZE)
  BY <1>2 DEF part
<1> HIDE DEF msg
<1>6. spc = "header" /\ UNCHANGED <<db, device_vars, answer, down, broken, unseen, overflow>>
  BY DEF RecvHeader
<1>7. device_id' \in Bytes /\ msg_type' \in Bytes
  BY <1>4, <1>5 DEF ByteValues, TypeOK
<1>8. spc' = "fetch" => up # << >> /\ msg_type' \in RequestTypes
  <2>1. spc' = "fetch" => n > 0 /\ msg_type' \in RequestTypes
    BY <1>5
  <2>2. n > 0 => up # << >>
    BY <1>1, <1>2
  <2>3. QED
    BY <2>1, <2>2
<1>9. spc' = "fetch" => short' \/ (device_id' = DeviceId /\ msg_type' = request)
  <2>1. SUFFICES ASSUME spc' = "fetch", ~short' PROVE device_id' = DeviceId /\ msg_type' = request
    OBVIOUS
  <2>2. device_id' \in ByteValues(msg[3]) /\ msg_type' \in ByteValues(msg[4]) /\ ~(n < HEADER_SIZE)
    BY <1>5, <2>1
  <2>3. n = HEADER_SIZE /\ Len(up) >= HEADER_SIZE
    BY <1>1, <1>2, <2>2
  <2>4. msg[3] = DeviceId /\ msg[4] = request
    BY <1>4, <1>6, <2>3 DEF HeaderInv
  <2>5. DeviceId # Junk /\ request # Junk
    BY NotJunk, TypesFit, WireAssumption DEF TypeOK
  <2>6. QED
    BY <2>2, <2>4, <2>5 DEF ByteValues
<1>10. answer = << >> /\ down = << >> /\ result = << >> /\ ret # "ok" /\ ~overflow
  BY <1>6 DEF AnswerInv
<1>11. TypeOK'
  <2>1. short' \in BOOLEAN
    <3>1. CASE UNCHANGED short
      BY <3>1 DEF TypeOK
    <3>2. CASE short' = (n < HEADER_SIZE)
      BY <3>2
    <3>3. QED
      BY <1>5, <3>1, <3>2
  <2>2. {broken, unseen, short, overflow}' \subseteq BOOLEAN
    BY <1>6, <2>1 DEF TypeOK
  <2>3. spc' \in {"fetch", "close"}
    BY <1>5
  <2>4. QED
    BY <1>3, <1>6, <1>7, <1>10, <2>2, <2>3 DEF TypeOK, device_vars
<1>12. HeaderInv'
  <2>1. spc' \in {"fetch", "close"}
    BY <1>5
  <2>2. QED
    BY <1>3, <1>6, <1>8, <1>9, <2>1 DEF HeaderInv, device_vars
<1>13. AnswerInv' /\ CompleteInv' /\ NeverShifted' /\ BlocksHold' /\ AnswerArrives'
  BY <1>6, <1>10 DEF AnswerInv, CompleteInv, NeverShifted, BlocksHold, AnswerArrives, device_vars
<1>14. QED
  BY <1>11, <1>12, <1>13

LEMMA FetchStep == IInv /\ Fetch => IInv'
<1> SUFFICES ASSUME IInv, Fetch PROVE IInv'
  OBVIOUS
<1> USE DEF IInv
<1>1. /\ spc = "fetch" /\ spc' \in {"close", "send"}
      /\ UNCHANGED <<db, device_vars, msg_type, device_id, short, up, down, broken, unseen,
                   overflow>>
  BY DEF Fetch
<1>2. /\ answer = << >> /\ down = << >> /\ result = << >>
      /\ ret # "ok" /\ ~overflow /\ dpc # "msg" /\ msg_type \in RequestTypes
  BY <1>1 DEF AnswerInv, HeaderInv
<1>3. answer' = << >> \/ (answer' = Found /\ Readable)
  BY <1>2 DEF Fetch
<1>4. answer' \in Seq(Items(msg_type))
  <2>1. Readable => Found \in Seq(Items(msg_type))
    BY <1>2, FoundItems
  <2>2. << >> \in Seq(Items(msg_type))
    OBVIOUS
  <2>3. QED
    BY <1>3, <2>1, <2>2
<1>5. TypeOK'
  <2>1. \/ answer' = << >>
        \/ answer' = IF msg_type = GET_DEVICE_VALVES_MSG THEN db.valves ELSE db.schedules
    BY <1>3 DEF Found
  <2>2. QED
    BY <1>1, <2>1 DEF TypeOK, device_vars
<1>6. HeaderInv'
  BY <1>1 DEF HeaderInv, device_vars
<1>7. AnswerInv' /\ CompleteInv'
  BY <1>1, <1>2, <1>4 DEF AnswerInv, CompleteInv, device_vars
<1>8. NeverShifted' /\ BlocksHold' /\ AnswerArrives'
  BY <1>1, <1>2, <1>4 DEF NeverShifted, BlocksHold, AnswerArrives, SameItems, device_vars
<1>9. QED
  BY <1>5, <1>6, <1>7, <1>8

LEMMA CloseStep == IInv /\ Close => IInv'
<1> SUFFICES ASSUME IInv, Close PROVE IInv'
  OBVIOUS
<1> USE DEF IInv
<1>1. /\ spc' = "closed"
      /\ UNCHANGED <<db, device_vars, msg_type, device_id, answer, short, up, down, broken, unseen,
                   overflow>>
  BY DEF Close
<1>2. spc = "close"
  BY DEF Close
<1>3. TypeOK' /\ HeaderInv'
  BY <1>1, <1>2 DEF TypeOK, HeaderInv, device_vars
<1>4. AnswerInv' /\ CompleteInv'
  BY <1>1 DEF AnswerInv, CompleteInv, device_vars, Len16, Payload
<1>5. NeverShifted' /\ BlocksHold' /\ AnswerArrives'
  BY <1>1 DEF NeverShifted, BlocksHold, AnswerArrives, SameItems, device_vars
<1>6. QED
  BY <1>3, <1>4, <1>5

\* What a break leaves of the bytes under way is a beginning of them.
LEMMA BreakStep == IInv /\ Break => IInv'
<1> SUFFICES ASSUME IInv, Break PROVE IInv'
  OBVIOUS
<1> USE DEF IInv
<1>1. dpc \in {"len", "msg"} /\ broken' = TRUE /\ UNCHANGED <<db, device_vars, server_vars, overflow>>
  BY DEF Break
<1>2. PICK n \in 0..Len(up), m \in 0..Len(down) :
        /\ up' = Prefix(up, n) /\ down' = Prefix(down, m)
        /\ unseen' \in {FALSE, n = Len(up)}
  BY DEF Break
<1>3. /\ up \in Seq(Bytes) /\ down \in Seq(Bytes) /\ n \in Nat /\ m \in Nat
  BY <1>2 DEF TypeOK
<1>4. /\ up' \in Seq(Bytes) /\ Len(up') <= Len(up)
      /\ \A k \in 1..Len(up') : up'[k] = up[k]
  BY <1>2, <1>3, PrefixFacts
<1>5. /\ down' \in Seq(Bytes) /\ Len(down') <= Len(down)
      /\ \A k \in 1..Len(down') : down'[k] = down[k]
  BY <1>2, <1>3, PrefixFacts
<1>6. TypeOK'
  <2>1. unseen' \in BOOLEAN
    BY <1>2
  <2>2. QED
    BY <1>1, <1>4, <1>5, <2>1 DEF TypeOK, device_vars, server_vars
<1>7. HeaderInv'
  <2>1. Len(up') >= HEADER_SIZE => Len(up) >= HEADER_SIZE /\ up'[3] = up[3] /\ up'[4] = up[4]
    BY <1>3, <1>4 DEF HEADER_SIZE
  <2>2. QED
    BY <1>1, <2>1 DEF HeaderInv, device_vars, server_vars
<1>8. AnswerInv'
  <2>1. down' # << >> => down # << >>
    BY <1>3, <1>5
  <2>2. Len16' = Len16 /\ Payload' = Payload
    BY <1>1 DEF Len16, Payload, server_vars
  <2>3. (down' # << >> /\ dpc' = "len") =>
           /\ Len(down') <= 2 + Len16
           /\ \A k \in 1..Len(down') :
                down'[k] = IF k <= 2 THEN prep_to_send_16(Len16)[k] ELSE Payload[k - 2]
    BY <1>1, <1>3, <1>5, <2>1, RspLenFacts DEF AnswerInv, device_vars
  <2>4. (down' # << >> /\ dpc' = "msg") =>
           /\ rsp_len' = Len16 /\ Len(down') <= Len16
           /\ \A k \in 1..Len(down') : down'[k] = Payload[k]
    BY <1>1, <1>3, <1>5, <2>1, RspLenFacts DEF AnswerInv, device_vars
  <2>5. QED
    BY <1>1, <2>1, <2>2, <2>3, <2>4 DEF AnswerInv, device_vars, server_vars
<1>9. CompleteInv' /\ NeverShifted' /\ BlocksHold' /\ AnswerArrives'
  BY <1>1 DEF CompleteInv, NeverShifted, BlocksHold, AnswerArrives, SameItems,
     device_vars, server_vars
<1>10. QED
  BY <1>6, <1>7, <1>8, <1>9

\* The answer on its way: its length, and as many bytes of it as 16 bits can count.
LEMMA AnswerBytes ==
  ASSUME TypeOK, AnswerInv, msg_type \in RequestTypes
  PROVE  LET msg == prep_to_send_16(Len16) \o Prefix(Payload, Len16)
         IN  /\ msg \in Seq(Bytes) /\ Len(msg) = 2 + Len16
             /\ \A k \in 1..Len(msg) :
                  msg[k] = IF k <= 2 THEN prep_to_send_16(Len16)[k] ELSE Payload[k - 2]
<1> DEFINE w == prep_to_send_16(Len16)
           t == Prefix(Payload, Len16)
           msg == w \o t
<1>1. Len16 \in Words /\ Len16 \in Nat /\ Len16 <= ItemSize(msg_type) * Len(answer)
  BY RspLenFacts
<1>2. w \in Seq(Bytes) /\ Len(w) = 2
  BY <1>1, TwoBytes
<1>3. Payload \in Seq(Bytes) /\ Len(Payload) = ItemSize(msg_type) * Len(answer)
  BY Crafted DEF AnswerInv, Payload
<1> HIDE DEF w
<1>4. /\ t \in Seq(Bytes) /\ Len(t) = IF Len16 < Len(Payload) THEN Len16 ELSE Len(Payload)
      /\ \A k \in 1..Len(t) : t[k] = Payload[k]
  BY <1>1, <1>3, PrefixFacts
<1>5. Len(t) = Len16
  BY <1>1, <1>3, <1>4
<1> HIDE DEF t
<1>6. /\ msg \in Seq(Bytes) /\ Len(msg) = Len(w) + Len(t)
      /\ \A j \in 1..Len(w) + Len(t) : msg[j] = IF j <= Len(w) THEN w[j] ELSE t[j - Len(w)]
  <2>1. w \in Seq(Bytes) /\ t \in Seq(Bytes)
    BY <1>2, <1>4
  <2>2. QED
    BY <2>1, ConcatProperties
<1> HIDE DEF msg
<1>7. /\ Len(msg) = 2 + Len16
      /\ \A k \in 1..Len(msg) : msg[k] = IF k <= 2 THEN w[k] ELSE t[k - 2]
  BY <1>1, <1>2, <1>5, <1>6
<1>8. \A k \in 1..Len(msg) : k > 2 => t[k - 2] = Payload[k - 2]
  BY <1>1, <1>4, <1>5, <1>7
<1>9. ASSUME NEW k \in 1..Len(msg) PROVE msg[k] = IF k <= 2 THEN w[k] ELSE Payload[k - 2]
  <2>1. CASE k <= 2
    BY <1>7, <2>1
  <2>2. CASE k > 2
    <3>1. t[k - 2] = Payload[k - 2] /\ msg[k] = t[k - 2] /\ ~(k <= 2)
      BY <1>1, <1>7, <1>8, <2>2
    <3>2. QED
      BY <3>1
  <2>3. QED
    BY <1>1, <1>7, <2>1, <2>2
<1>10. QED
  BY <1>6, <1>7, <1>9 DEF w, t, msg

LEMMA SendRspStep == IInv /\ SendRsp => IInv'
<1> SUFFICES ASSUME IInv, SendRsp PROVE IInv'
  OBVIOUS
<1> USE DEF IInv
<1> DEFINE total == TotalSize(Len16)
           msg == prep_to_send_16(Len16) \o Prefix(Payload, Len16)
           damage == ItemSize(msg_type) * Len(answer) > Len16 \/ 2 + Len16 > total
<1>1. /\ spc = "send" /\ spc' = "close"
      /\ UNCHANGED <<db, device_vars, msg_type, device_id, answer, short, up, broken, unseen>>
      /\ \/ down' = IF broken THEN down ELSE Prefix(msg, total)
         \/ damage /\ down' = down
      /\ overflow' = (overflow \/ damage)
  BY DEF SendRsp, Len16, Payload
<1>2. /\ down = << >> /\ result = << >> /\ ret # "ok" /\ ~overflow /\ dpc # "msg"
      /\ msg_type \in RequestTypes
  BY <1>1 DEF AnswerInv, HeaderInv
<1>3. /\ Len(answer) \in Nat /\ ItemSize(msg_type) * Len(answer) \in Nat
      /\ Len16 \in Words /\ Len16 \in Nat /\ Len16 <= ItemSize(msg_type) * Len(answer)
      /\ Len16 < ItemSize(msg_type) * Len(answer) => WordMod <= ItemSize(msg_type) * Len(answer)
  BY RspLenFacts
<1>4. /\ msg \in Seq(Bytes) /\ Len(msg) = 2 + Len16
      /\ \A k \in 1..Len(msg) :
           msg[k] = IF k <= 2 THEN prep_to_send_16(Len16)[k] ELSE Payload[k - 2]
  BY <1>2, AnswerBytes
<1>5. WordMod \in Nat /\ WordMod >= 16
  BY WidthFacts
<1>6. total \in Nat /\ total <= 2 + Len16 /\ (total < 2 + Len16 => WordMod <= 2 + Len16)
  <2>1. WordMod \in Nat \ {0} /\ 2 + Len16 \in Nat /\ total = (2 + Len16) % WordMod
    BY <1>3, <1>5 DEF TotalSize
  <2> HIDE DEF total
  <2>2. QED
    BY <2>1, Remainder
<1> HIDE DEF total, msg
<1>7. down' = << >> \/ (~broken /\ down' = Prefix(msg, total))
  BY <1>1, <1>2
<1>8. /\ down' \in Seq(Bytes) /\ Len(down') <= 2 + Len16
      /\ \A k \in 1..Len(down') :
           down'[k] = IF k <= 2 THEN prep_to_send_16(Len16)[k] ELSE Payload[k - 2]
  <2>1. CASE down' = << >>
    BY <1>3, <2>1
  <2>2. CASE down' = Prefix(msg, total)
    <3>1. /\ down' \in Seq(Bytes) /\ Len(down') = IF total < Len(msg) THEN total ELSE Len(msg)
          /\ \A k \in 1..Len(down') : down'[k] = msg[k]
      BY <1>4, <1>6, <2>2, PrefixFacts
    <3>2. Len(down') <= Len(msg) /\ Len(down') \in Nat
      BY <1>3, <1>4, <1>6, <3>1
    <3>3. QED
      BY <1>3, <1>4, <3>1, <3>2
  <2>3. QED
    BY <1>7, <2>1, <2>2
<1>9. Len16' = Len16 /\ Payload' = Payload
  BY <1>1 DEF Len16, Payload
<1>10. overflow' \in BOOLEAN /\ (overflow' <=> damage)
  BY <1>1, <1>2, Zenon
<1>11. TypeOK'
  <2>1. {broken, unseen, short, overflow}' \subseteq BOOLEAN
    BY <1>1, <1>10 DEF TypeOK
  <2>2. QED
    BY <1>1, <1>8, <2>1 DEF TypeOK, device_vars
<1>12. HeaderInv'
  BY <1>1 DEF HeaderInv, device_vars
<1>13. AnswerInv'
  <2>1. down' # << >> => msg_type \in RequestTypes /\ (short \/ msg_type = request)
    BY <1>1, <1>7 DEF HeaderInv
  <2>2. QED
    BY <1>1, <1>2, <1>8, <1>9, <2>1 DEF AnswerInv, device_vars
<1>14. CompleteInv'
  <2>1. SUFFICES ASSUME ~broken, ~damage, down' # << >>
                 PROVE  /\ Len16 = ItemSize(msg_type) * Len(answer)
                        /\ Len(down') = 2 + Len16
    BY <1>1, <1>2, <1>9, <1>10 DEF CompleteInv, device_vars
  <2>2. Len16 = ItemSize(msg_type) * Len(answer) /\ total = 2 + Len16
    BY <1>3, <1>6, <2>1
  <2>3. Len(down') = IF total < Len(msg) THEN total ELSE Len(msg)
    BY <1>4, <1>6, <1>7, <2>1, PrefixFacts
  <2>4. QED
    BY <1>3, <1>4, <2>2, <2>3
<1>15. BlocksHold'
  <2>1. SUFFICES ASSUME damage PROVE ItemSize(msg_type) * Len(answer) + 2 >= WordMod
    BY <1>1, <1>10 DEF BlocksHold
  <2>2. QED
    BY <1>3, <1>5, <1>6, <2>1
<1>16. NeverShifted' /\ AnswerArrives'
  BY <1>1, <1>2, <1>3 DEF NeverShifted, AnswerArrives, device_vars
<1>17. QED
  BY <1>11, <1>12, <1>13, <1>14, <1>15, <1>16

\* The length the device reads is the one that was sent, if both its bytes came.
LEMMA RecvRspLenStep == IInv /\ RecvRspLen => IInv'
<1> SUFFICES ASSUME IInv, RecvRspLen PROVE IInv'
  OBVIOUS
<1> USE DEF IInv
<1> DEFINE msg == Block(Prefix(down, 2), 2)
<1>1. /\ dpc = "len" /\ dpc' \in {"msg", "done"} /\ result' = result /\ down' = Rest(down, 2)
      /\ UNCHANGED <<db, request, server_vars, up, broken, unseen, overflow>>
  BY DEF RecvRspLen, Fail
<1>2. \/ down = << >> /\ dpc' = "done" /\ ret' = "error" /\ rsp_len' = rsp_len
      \/ /\ down # << >> /\ rsp_len' \in WordValues(msg, 0)
         /\ \/ rsp_len' = 0 /\ request # GET_DEVICE_VALVES_MSG /\ dpc' = "done" /\ ret' = "ok"
            \/ dpc' = "msg" /\ ret' = ret
  BY DEF RecvRspLen, Fail
<1> HIDE DEF msg
<1>3. down \in Seq(Bytes) /\ result = << >> /\ ret = "none"
  BY <1>1 DEF TypeOK, AnswerInv
<1>4. /\ down' \in Seq(Bytes)
      /\ Len(down') = IF 2 < Len(down) THEN Len(down) - 2 ELSE 0
      /\ \A k \in 1..Len(down') : down'[k] = down[k + 2]
  BY <1>1, <1>3, PrefixFacts
<1>5. /\ Len(answer) \in Nat /\ Len16 \in Words /\ Len16 \in Nat
      /\ Len16 <= ItemSize(msg_type) * Len(answer)
  BY RspLenFacts
<1>6. /\ msg[1] \in Bytes \cup {Junk} /\ msg[2] \in Bytes \cup {Junk}
      /\ Len(down) >= 2 => msg[1] = down[1] /\ msg[2] = down[2]
  <2>1. /\ Prefix(down, 2) \in Seq(Bytes)
        /\ Len(Prefix(down, 2)) = IF 2 < Len(down) THEN 2 ELSE Len(down)
        /\ \A k \in 1..Len(Prefix(down, 2)) : Prefix(down, 2)[k] = down[k]
    BY ZenonT(40), <1>3, PrefixFacts
  <2>2. \A p \in 1..2 :
          /\ msg[p] = IF p <= Len(Prefix(down, 2)) THEN Prefix(down, 2)[p] ELSE Junk
          /\ msg[p] \in Bytes \cup {Junk}
    BY <2>1, BlockFacts DEF msg
  <2>3. 1 \in 1..2 /\ 2 \in 1..2
    OBVIOUS
  <2>4. msg[1] \in Bytes \cup {Junk} /\ msg[2] \in Bytes \cup {Junk}
    BY <2>2, <2>3
  <2>5. ASSUME Len(down) >= 2 PROVE msg[1] = down[1] /\ msg[2] = down[2]
    <3>1. Len(Prefix(down, 2)) = 2
      <4>1. Len(down) \in Nat /\ Len(down) >= 2
        BY <1>3, <2>5
      <4>2. \A l \in Nat : l >= 2 => 2 < l \/ l = 2
        OBVIOUS
      <4>3. QED
        BY <2>1, <4>1, <4>2
    <3>2. Prefix(down, 2)[1] = down[1] /\ Prefix(down, 2)[2] = down[2]
      BY <2>1, <2>3, <3>1
    <3>3. 1 <= Len(Prefix(down, 2)) /\ 2 <= Len(Prefix(down, 2))
      BY <3>1
    <3>4. msg[1] = Prefix(down, 2)[1] /\ msg[2] = Prefix(down, 2)[2]
      BY <2>2, <2>3, <3>3
    <3>5. QED
      BY <3>2, <3>4
  <2>6. QED
    BY <2>4, <2>5
<1>7. WordValues(msg, 0) \subseteq Words
  <2>1. 0 + 1 = 1 /\ 0 + 2 = 2
    OBVIOUS
  <2>2. QED
    BY <1>6, <2>1, WordValuesFacts
<1>8. ASSUME down # << >>, Len(down) >= 2 PROVE rsp_len' = Len16
  <2>1. /\ 1 \in 1..Len(down) /\ 2 \in 1..Len(down)
    BY <1>3, <1>8
  <2>2. /\ down[1] = prep_to_send_16(Len16)[1] /\ down[2] = prep_to_send_16(Len16)[2]
    BY <1>1, <1>8, <2>1 DEF AnswerInv
  <2>3. WordValues(msg, 0) = {Len16}
    <3>1. 0 + 1 = 1 /\ 0 + 2 = 2
      OBVIOUS
    <3>2. msg[0 + 1] = prep_to_send_16(Len16)[1] /\ msg[0 + 2] = prep_to_send_16(Len16)[2]
      BY <1>6, <1>8, <2>2, <3>1
    <3>3. msg[0 + 1] \in Bytes \cup {Junk} /\ msg[0 + 2] \in Bytes \cup {Junk}
      BY <1>6, <3>1
    <3>4. QED
      BY <1>5, <3>2, <3>3, WordValuesFacts
  <2>4. QED
    BY <1>2, <1>8, <2>3
<1>9. Len16' = Len16 /\ Payload' = Payload
  BY <1>1 DEF Len16, Payload, server_vars
<1>10. down # << >> => spc \notin {"header", "fetch", "send"}
  BY DEF AnswerInv
<1>11. down' # << >> => down # << >> /\ Len(down) > 2
  BY <1>3, <1>4
<1>12. TypeOK'
  <2>1. rsp_len' \in Words
    BY <1>2, <1>7 DEF TypeOK
  <2>2. ret' \in {"none", "ok", "error"}
    BY <1>2, <1>3
  <2>3. QED
    BY <1>1, <1>4, <2>1, <2>2 DEF TypeOK, server_vars
<1>13. HeaderInv'
  BY <1>1 DEF HeaderInv, server_vars
<1>14. AnswerInv'
  <2>1. spc \in {"header", "fetch", "send"} => down' = << >> /\ ret' # "ok" /\ dpc' # "msg"
    BY <1>2, <1>3, <1>4, <1>10, <1>11
  <2>2. down' # << >> => msg_type \in RequestTypes /\ (short \/ msg_type = request)
    BY <1>11 DEF AnswerInv
  <2>3. dpc' # "done" => ret' = "none"
    BY <1>2, <1>3
  <2>4. down' # << >> =>
          /\ rsp_len' = Len16 /\ Len(down') <= Len16
          /\ \A k \in 1..Len(down') : down'[k] = Payload[k]
    <3>1. SUFFICES ASSUME down' # << >>
                   PROVE  /\ rsp_len' = Len16 /\ Len(down') <= Len16
                          /\ \A k \in 1..Len(down') : down'[k] = Payload[k]
      OBVIOUS
    <3>2. down # << >> /\ Len(down) > 2 /\ Len(down) \in Nat
      BY <1>3, <1>11, <3>1
    <3>3. /\ Len(down) <= 2 + Len16
          /\ \A k \in 1..Len(down) :
               down[k] = IF k <= 2 THEN prep_to_send_16(Len16)[k] ELSE Payload[k - 2]
      BY <1>1, <3>2 DEF AnswerInv
    <3>4. Len(down') = Len(down) - 2
      BY <1>4, <3>2
    <3>5. ASSUME NEW k \in 1..Len(down') PROVE down'[k] = Payload[k]
      <4>1. k + 2 \in 1..Len(down) /\ ~(k + 2 <= 2) /\ (k + 2) - 2 = k
        BY <3>2, <3>4
      <4>2. down'[k] = down[k + 2]
        BY <1>4
      <4>3. QED
        BY <3>3, <4>1, <4>2
    <3>6. rsp_len' = Len16
      BY <1>8, <3>2
    <3>7. QED
      BY <1>5, <3>2, <3>3, <3>4, <3>5, <3>6
  <2>5. QED
    BY <1>1, <1>3, <1>9, <2>1, <2>2, <2>3, <2>4 DEF AnswerInv, server_vars
<1>15. ASSUME ~broken, ~overflow, down # << >>
       PROVE  /\ Len16 = ItemSize(msg_type) * Len(answer) /\ Len(down) = 2 + Len16
              /\ rsp_len' = Len16
  <2>1. Len16 = ItemSize(msg_type) * Len(answer) /\ Len(down) = 2 + Len16
    BY <1>1, <1>15 DEF CompleteInv
  <2>2. Len(down) >= 2
    BY <1>5, <2>1
  <2>3. QED
    BY <1>8, <1>15, <2>1, <2>2
<1>16. CompleteInv'
  <2>1. SUFFICES ASSUME ~broken, ~overflow, down' # << >>
                 PROVE  Len16 = ItemSize(msg_type) * Len(answer) /\ Len(down') = Len16
    BY <1>1, <1>9 DEF CompleteInv, server_vars
  <2>2. Len16 = ItemSize(msg_type) * Len(answer) /\ Len(down) = 2 + Len16
    BY <1>11, <1>15, <2>1
  <2>3. QED
    BY <1>4, <1>5, <1>11, <2>1, <2>2
<1>17. NeverShifted' /\ BlocksHold'
  BY <1>1 DEF NeverShifted, BlocksHold, SameItems, server_vars
<1>18. AnswerArrives'
  <2>1. SUFFICES ASSUME ret' = "ok", ~broken, ~overflow PROVE result = answer
    BY <1>1 DEF AnswerArrives, SameItems, server_vars
  <2>2. down # << >> /\ rsp_len' = 0
    BY <1>2, <1>3, <2>1
  <2>3. 0 = ItemSize(msg_type) * Len(answer)
    BY <1>15, <2>1, <2>2
  <2>4. Len(answer) = 0
    BY <1>5, <2>3 DEF ItemSize
  <2>5. answer = << >>
    BY <2>4 DEF AnswerInv
  <2>6. QED
    BY <1>3, <2>5
<1>19. QED
  BY <1>12, <1>13, <1>14, <1>16, <1>17, <1>18

\* The rows the device takes out of what it received.
LEMMA RecvRspMsgStep == IInv /\ RecvRspMsg => IInv'
<1> SUFFICES ASSUME IInv, RecvRspMsg PROVE IInv'
  OBVIOUS
<1> USE DEF IInv
<1> DEFINE received == Prefix(down, rsp_len)
           msg == Block(received, rsp_len)
           n == ItemCount(request, rsp_len)
           size == ItemSize(request)
           over == request # GET_DEVICE_VALVES_MSG /\ (StatusSize * n) % WordMod < StatusSize * n
<1>1. /\ dpc = "msg" /\ dpc' = "done" /\ down' = Rest(down, rsp_len)
      /\ UNCHANGED <<db, request, server_vars, up, broken, unseen, rsp_len>>
  BY DEF RecvRspMsg, Fail
<1>2. \/ ret' = "error" /\ result' = result /\ overflow' = overflow
      \/ /\ received # << >> /\ ret' = "ok"
         /\ result' = [k \in 1..n |-> DecodeItem(request, msg, (k - 1) * size)]
         /\ overflow' = (overflow \/ over)
  BY DEF RecvRspMsg, Fail
<1>3. /\ down \in Seq(Bytes) /\ result = << >> /\ rsp_len \in Nat /\ Len(down) \in Nat
      /\ request \in RequestTypes
  BY <1>1, WidthFacts DEF TypeOK, AnswerInv, Words
<1>4. /\ received \in Seq(Bytes)
      /\ Len(received) = IF rsp_len < Len(down) THEN rsp_len ELSE Len(down)
      /\ \A k \in 1..Len(received) : received[k] = down[k]
  BY <1>3, PrefixFacts
<1>5. \A p \in 1..rsp_len : msg[p] = IF p <= Len(received) THEN received[p] ELSE Junk
  BY <1>3, <1>4, BlockFacts
<1>6. down' \in Seq(Bytes)
  BY <1>1, <1>3, PrefixFacts
<1>7. /\ Len(answer) \in Nat /\ Len16 \in Nat /\ Len16 <= ItemSize(msg_type) * Len(answer)
  BY RspLenFacts
<1>8. size \in {2, 8} /\ (request = GET_DEVICE_VALVES_MSG => size = 2) /\ (request # GET_DEVICE_VALVES_MSG => size = 8)
  BY DEF ItemSize
<1> HIDE DEF received, msg, size
<1>9. n \in Nat /\ size * n <= rsp_len /\ \A l \in Nat : rsp_len <= size * l => n <= l
  <2>1. n = rsp_len \div size
    BY DEF ItemCount, size
  <2> HIDE DEF n
  <2>2. CASE size = 2
    BY <1>3, <2>1, <2>2
  <2>3. CASE size = 8
    BY <1>3, <2>1, <2>3
  <2>4. QED
    BY <1>8, <2>2, <2>3
<1> HIDE DEF n
<1>10. ASSUME received # << >>
       PROVE  /\ down # << >> /\ rsp_len = Len16 /\ Len(down) <= Len16
              /\ msg_type \in RequestTypes /\ (short \/ msg_type = request)
              /\ spc \notin {"header", "fetch", "send"}
              /\ \A k \in 1..Len(down) : down[k] = Payload[k]
  <2>1. down # << >>
    BY <1>3, <1>4, <1>10
  <2>2. QED
    BY <1>1, <2>1 DEF AnswerInv
\* The receiver and the device mean the same kind of items.
<1> DEFINE fits == received # << >> /\ ~(short /\ ~SameItems)
<1>11. ASSUME fits
       PROVE  /\ ItemSize(msg_type) = size /\ Items(msg_type) = Items(request)
              /\ \A item : EncodeItem(msg_type, item) = EncodeItem(request, item)
  <2>1. ItemSize(msg_type) = ItemSize(request)
    BY <1>10, <1>11 DEF SameItems
  <2>2. msg_type = GET_DEVICE_VALVES_MSG <=> request = GET_DEVICE_VALVES_MSG
    BY <2>1 DEF ItemSize
  <2>3. QED
    BY <2>1, <2>2 DEF Items, EncodeItem, size
<1>12. ASSUME fits PROVE n <= Len(answer)
  BY <1>7, <1>9, <1>10, <1>12, <1>11
\* A byte of the block is the payload's, or was never received.
<1>13. ASSUME fits, NEW k \in 1..n, NEW j \in 1..size
       PROVE  /\ msg[(k - 1) * size + j] \in {EncodeItem(request, answer[k])[j], Junk}
              /\ (Len(down) = rsp_len => msg[(k - 1) * size + j] # Junk)
  <2> DEFINE p == (k - 1) * size + j
  <2>1. p \in 1..rsp_len
    <3>1. CASE size = 2
      BY <1>3, <1>9, <3>1
    <3>2. CASE size = 8
      BY <1>3, <1>9, <3>2
    <3>3. QED
      BY <1>8, <3>1, <3>2
  <2>2. k \in 1..Len(answer)
    BY <1>7, <1>9, <1>12, <1>13
  <2>3. Payload[p] = EncodeItem(request, answer[k])[j]
    <3>1. msg_type \in RequestTypes /\ answer \in Seq(Items(msg_type))
      BY <1>10, <1>13 DEF AnswerInv
    <3>2. \A i \in 1..Len(answer) : \A q \in 1..ItemSize(msg_type) :
            Payload[(i - 1) * ItemSize(msg_type) + q] = EncodeItem(msg_type, answer[i])[q]
      BY <3>1, Crafted DEF Payload
    <3>3. ItemSize(msg_type) = size /\ EncodeItem(msg_type, answer[k]) = EncodeItem(request, answer[k])
      BY <1>13, <1>11
    <3>4. QED
      BY <1>13, <2>2, <3>2, <3>3
  <2> HIDE DEF p
  <2>4. CASE p <= Len(received)
    <3>1. p \in 1..Len(received) /\ p \in 1..Len(down)
      BY <1>3, <1>4, <2>1, <2>4
    <3>2. msg[p] = Payload[p]
      BY <1>4, <1>5, <1>10, <1>13, <2>1, <2>4, <3>1
    <3>3. msg[p] \in Bytes
      BY <1>3, <1>4, <1>5, <2>1, <2>4, <3>1
    <3>4. QED
      BY <2>3, <3>2, <3>3, NotJunk DEF p
  <2>5. CASE ~(p <= Len(received))
    <3>1. msg[p] = Junk
      BY <1>5, <2>1, <2>5
    <3>2. Len(down) # rsp_len
      BY <1>3, <1>4, <2>1, <2>5
    <3>3. QED
      BY <3>1, <3>2 DEF p
  <2>6. QED
    BY <2>4, <2>5
<1>14. ASSUME fits, NEW k \in 1..n
       PROVE  LET row == DecodeItem(request, msg, (k - 1) * size)
              IN  /\ request = GET_DEVICE_VALVES_MSG => row \in {answer[k], Junk}
                  /\ request # GET_DEVICE_VALVES_MSG => \A j \in 1..4 : row[j] \in {answer[k][j], Junk}
                  /\ Len(down) = rsp_len => row = answer[k]
  <2>1. k \in 1..Len(answer)
    BY <1>7, <1>9, <1>12, <1>14
  <2>2. answer[k] \in Items(request)
    BY <1>14, <1>11, <2>1 DEF AnswerInv
  <2>3. (k - 1) * size \in Nat
    <3>1. k - 1 \in Nat /\ size \in Nat
      BY <1>8, <1>9
    <3>2. QED
      BY <3>1
  <2>4. /\ \A j \in 1..ItemSize(request) :
              msg[(k - 1) * size + j] \in {EncodeItem(request, answer[k])[j], Junk}
        /\ Len(down) = rsp_len =>
              \A j \in 1..ItemSize(request) : msg[(k - 1) * size + j] # Junk
    BY <1>13, <1>14 DEF size
  <2>5. QED
    BY SMTT(40), <1>3, <2>2, <2>3, <2>4, DecodedItem
<1>15. NeverShifted'
  <2>1. CASE result' = result \/ (short /\ ~SameItems)
    BY <1>1, <1>3, <1>7, <2>1 DEF NeverShifted, SameItems, server_vars
  <2>2. CASE fits /\ result' = [k \in 1..n |-> DecodeItem(request, msg, (k - 1) * size)]
    <3>1. Len(result') = n /\ \A k \in 1..n : result'[k] = DecodeItem(request, msg, (k - 1) * size)
      BY <1>9, <2>2
    <3>2. Len(result') <= Len(answer)
      BY <1>12, <2>2, <3>1
    <3>3. QED
      BY <1>1, <1>14, <2>2, <3>1, <3>2 DEF NeverShifted, server_vars
  <2>3. QED
    BY <1>2, <2>1, <2>2
<1>16. overflow' \in BOOLEAN /\ (overflow' <=> overflow \/ (ret' = "ok" /\ over))
  <2>1. overflow \in BOOLEAN
    BY DEF TypeOK
  <2>2. "error" # "ok"
    OBVIOUS
  <2> HIDE DEF over
  <2>3. CASE ret' = "error" /\ overflow' = overflow
    BY <2>1, <2>2, <2>3
  <2>4. CASE ret' = "ok" /\ overflow' = (overflow \/ over)
    BY <2>1, <2>4, Zenon
  <2>5. QED
    BY <1>2, <2>3, <2>4
<1>17. TypeOK'
  <2>1. {broken, unseen, short, overflow}' \subseteq BOOLEAN
    BY <1>1, <1>16 DEF TypeOK, server_vars
  <2>2. ret' \in {"none", "ok", "error"}
    BY <1>2
  <2>3. QED
    BY <1>1, <1>6, <2>1, <2>2 DEF TypeOK, server_vars
<1>18. HeaderInv'
  BY <1>1 DEF HeaderInv, server_vars
<1>19. AnswerInv'
  <2>1. CASE spc \in {"header", "fetch", "send"}
    BY <1>1, <2>1 DEF AnswerInv
  <2>2. CASE spc \notin {"header", "fetch", "send"}
    <3>1. down' # << >> => msg_type \in RequestTypes /\ (short \/ msg_type = request)
      <4>1. down' # << >> => down # << >>
        BY <1>1, <1>3, PrefixFacts
      <4>2. QED
        BY <4>1 DEF AnswerInv
    <3>2. QED
      BY <1>1, <2>2, <3>1 DEF AnswerInv, server_vars
  <2>3. QED
    BY <2>1, <2>2
<1>20. CompleteInv'
  BY <1>1 DEF CompleteInv
<1>21. BlocksHold'
  <2>1. CASE overflow
    BY <1>1, <2>1 DEF BlocksHold, server_vars
  <2>2. CASE ~overflow
    <3> DEFINE bytes == ItemSize(msg_type) * Len(answer)
               most == ItemCount(request, bytes)
    <3>1. SUFFICES ASSUME ret' = "ok", over
                   PROVE  request # GET_DEVICE_VALVES_MSG /\ StatusSize * most >= WordMod
      BY <1>1, <1>16, <2>2 DEF BlocksHold, server_vars
    <3>2. received # << >> /\ request # GET_DEVICE_VALVES_MSG
      BY <1>2, <3>1
    <3>3. bytes \in Nat /\ rsp_len <= bytes
      BY <1>7, <1>10, <3>2, RspLenFacts
    <3>4. most = bytes \div 8 /\ n = rsp_len \div 8
      BY <1>8, <3>2 DEF ItemCount, n, size
    <3> HIDE DEF bytes, most
    <3>5. most \in Nat /\ n <= most
      BY <1>3, <3>3, <3>4
    <3>6. WordMod \in Nat \ {0} /\ StatusSize * n \in Nat /\ StatusSize = 10
      BY <1>9, WidthFacts DEF StatusSize
    <3>7. WordMod <= StatusSize * n
      BY <3>1, <3>6, Remainder
    <3>8. QED
      BY <1>9, <3>2, <3>5, <3>6, <3>7
  <2>3. QED
    BY <2>1, <2>2
<1>22. AnswerArrives'
  <2>1. SUFFICES ASSUME ret' = "ok", ~broken, ~overflow, ~(short /\ ~SameItems)
                 PROVE  result' = answer
    BY <1>1, <1>16 DEF AnswerArrives, SameItems, server_vars
  <2>2. fits /\ result' = [k \in 1..n |-> DecodeItem(request, msg, (k - 1) * size)]
    BY <1>2, <2>1
  <2>3. down # << >> /\ rsp_len = Len16 /\ ItemSize(msg_type) = size
    BY <1>10, <1>11, <2>2
  <2>4. Len16 = size * Len(answer) /\ Len(down) = rsp_len
    BY <1>1, <2>1, <2>3 DEF CompleteInv
  <2>5. n = Len(answer)
    <3>1. n <= Len(answer)
      BY <1>12, <2>2
    <3>2. n >= Len(answer)
      <4>1. n = (size * Len(answer)) \div size
        BY <2>3, <2>4 DEF n, ItemCount, size
      <4>2. CASE size = 2
        BY <1>7, <4>1, <4>2
      <4>3. CASE size = 8
        BY <1>7, <4>1, <4>3
      <4>4. QED
        BY <1>8, <4>2, <4>3
    <3>3. QED
      BY <1>7, <1>9, <3>1, <3>2
  <2>6. \A k \in 1..n : DecodeItem(request, msg, (k - 1) * size) = answer[k]
    BY <1>14, <2>2, <2>4
  <2>7. result' = [k \in 1..n |-> answer[k]]
    BY <2>2, <2>6
  <2>8. QED
    BY <2>5, <2>7 DEF AnswerInv
<1>23. QED
  BY <1>15, <1>17, <1>18, <1>19, <1>20, <1>21, <1>22

LEMMA StutterStep == IInv /\ UNCHANGED vars => IInv'
<1> SUFFICES ASSUME IInv, UNCHANGED vars PROVE IInv'
  OBVIOUS
<1> USE DEF IInv, vars, device_vars, server_vars
<1>1. TypeOK' /\ HeaderInv'
  BY DEF TypeOK, HeaderInv
<1>2. AnswerInv' /\ CompleteInv'
  BY DEF AnswerInv, CompleteInv, Len16, Payload
<1>3. NeverShifted' /\ BlocksHold' /\ AnswerArrives'
  BY DEF NeverShifted, BlocksHold, AnswerArrives, SameItems
<1>4. QED
  BY <1>1, <1>2, <1>3

LEMMA NextStep == IInv /\ [Next]_vars => IInv'
<1>1. IInv /\ Device => IInv'
  BY SendHeaderStep, RecvRspLenStep, RecvRspMsgStep DEF Device
<1>2. IInv /\ Receiver => IInv'
  BY RecvHeaderStep, FetchStep, SendRspStep, CloseStep DEF Receiver
<1>3. QED
  BY <1>1, <1>2, BreakStep, StutterStep DEF Next

LEMMA Invariance == Spec => []IInv
BY InitInv, NextStep, PTL DEF Spec

----------------------------------------------------------------------------
(* The theorems.                                                           *)

\* The variables of both sides keep their types; in particular the length that
\* sd_recv_rsp_len returns is a word, also when it read memory nobody wrote.
THEOREM TypeCorrect == Spec => []TypeOK
<1>1. IInv => TypeOK
  BY DEF IInv
<1>2. QED
  BY Invariance, <1>1, PTL

\* While recv_socket_header's caller works on a request, it is the one that
\* sd_send_header wrote, unless recv returned only a part of the header, because
\* the connection ended inside it or the 30 seconds were over.
THEOREM HeaderTheorem == Spec => []RequestUnderstood
<1>1. IInv => RequestUnderstood
  BY DEF IInv, HeaderInv, RequestUnderstood
<1>2. QED
  BY Invariance, <1>1, PTL

\* What the decoding loops of client_controller.c take out of an answer is what
\* craft_device_valves_rsp or craft_active_schedules_rsp put there, row by row and
\* field by field, or memory nobody wrote, wherever the connection broke; except
\* after a header received in part that had the receiver send valves for schedules
\* or schedules for valves.
THEOREM NothingShifted == Spec => []NeverShifted
<1>1. IInv => NeverShifted
  BY DEF IInv
<1>2. QED
  BY Invariance, <1>1, PTL

\* craft_*_rsp, main.cpp's copy with the length in front, and the block of
\* sm_set_new_schedules stay within their blocks for every answer whose size, and
\* whose block in the device, 16 bits can express, also when the device takes
\* valves for schedules.
THEOREM BlocksLargeEnough == Spec => []BlocksHold
<1>1. IInv => BlocksHold
  BY DEF IInv
<1>2. QED
  BY Invariance, <1>1, PTL

\* A request that returns successfully over a connection that did not break has
\* every row the receiver had to send, if no block was too small for them and they
\* are of the kind the device asked for, as after every header received in full.
THEOREM AnswerComplete == Spec => []AnswerArrives
<1>1. IInv => AnswerArrives
  BY DEF IInv
<1>2. QED
  BY Invariance, <1>1, PTL
=============================================================================

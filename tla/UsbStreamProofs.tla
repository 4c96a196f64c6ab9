-------------------------- MODULE UsbStreamProofs --------------------------
(***************************************************************************)
(* What the client hands on are captured records, whole and in order, for  *)
(* queues of every size, all payloads and time stamps, and any number of   *)
(* records and unplugged cables, unless it comes in inside a record that   *)
(* holds the magic number, by itself or with the first byte of the next.   *)
(***************************************************************************)
EXTENDS UsbStream, SequenceTheorems, TLAPS

-----------------------------------------------------------------------------
(* The inductive invariant. *)

(* Types. *)
RecordType == [type : Types, stamp : Stamps, body : Bodies \cup {<<>>}]
ValueType == ByteValue \cup {"hdr"}
AnyByte == [value : ValueType, rec : Nat, at : Nat]

(* Where a byte is in its record, and what it is there. *)
RecordLen(r) == HeadEnd + Len(records[r].body)
ValueAt(r, k) ==
  IF k <= 4 THEN MagicNumber[k] ELSE IF k = 5 THEN "hdr"
  ELSE IF k <= HeadEnd THEN records[r].stamp[k - 5]
  ELSE records[r].body[k - HeadEnd]
Genuine(b) ==
  /\ b.rec \in DOMAIN records /\ b.at \in 1..RecordLen(b.rec)
  /\ b.value = ValueAt(b.rec, b.at)
Bytes(q) == q \in Seq(AnyByte) /\ \A i \in DOMAIN q : Genuine(q[i])

(* Every variable has its type, and every byte is one of a record.          *)
AnyType == Types \cup {"other"}
ParserType ==
  \/ /\ parser \in [at : {"magic"}, window : Seq(AnyByte)]
     /\ Bytes(parser.window) /\ Len(parser.window) < 4
  \/ /\ parser \in [at : {"header"}, head : Seq(AnyByte)]
     /\ Bytes(parser.head) /\ Len(parser.head) < HeaderLen
  \/ /\ parser \in [at : {"body"}, type : AnyType, size : 1..MaxBodySize, body : Seq(AnyByte)]
     /\ Len(parser.body) < parser.size
Typed ==
  /\ records \in Seq(RecordType) /\ Len(records) <= MaxRecords
  /\ \A r \in DOMAIN records : records[r].type = "its" => records[r].body \in Bodies
  /\ usb_queue \in Seq(Nat) /\ Len(usb_queue) <= QUEUE_SIZE
  /\ \A i \in DOMAIN usb_queue : usb_queue[i] \in DOMAIN records
  /\ Bytes(out) /\ Bytes(wire) /\ Bytes(queueTty)
  /\ Len(wire) <= RingSize /\ Len(queueTty) <= Size + 1
  /\ {connected, reading, dropped, misled} \subseteq BOOLEAN
  /\ ParserType
  /\ packets \in Seq(Seq(AnyByte))

(* The last byte of a record; which byte is written after which.            *)
Ends(b) == b.at = RecordLen(b.rec)
Earlier(b, c) == b.rec < c.rec \/ (b.rec = c.rec /\ b.at < c.at)
Follows(b, c) ==
  \/ c.rec = b.rec /\ c.at = b.at + 1
  \/ c.rec > b.rec /\ Ends(b) /\ c.at = 1

(* A part of what the USB task writes, with a gap only behind byte gap.     *)
Chain(s, gap) ==
  /\ \A i \in DOMAIN s : Genuine(s[i])
  /\ \A i, j \in DOMAIN s : i < j => Earlier(s[i], s[j])
  /\ \A i \in 1..(Len(s) - 1) : i # gap => Follows(s[i], s[i + 1])

(* All bytes between the USB task and the parser, the next one first.  When *)
(* the cable was pulled some are missing behind those that the host has.    *)
InFlight == queueTty \o (wire \o out)
Gap == IF reading THEN 0 ELSE Len(queueTty)
LineWhole ==
  /\ Chain(InFlight, Gap)
  /\ InFlight # <<>> /\ (reading \/ wire \o out # <<>>) => Ends(InFlight[Len(InFlight)])

(* Records wait in the order of capture, behind all that is written.        *)
QueueBehind ==
  /\ \A i, j \in DOMAIN usb_queue : i < j => usb_queue[i] < usb_queue[j]
  /\ \A i \in DOMAIN usb_queue, j \in DOMAIN InFlight : InFlight[j].rec < usb_queue[i]

(* A window in front of bytes that are still to come: one follows the other,*)
(* none is behind the magic number of an ambiguous record, and one of such a*)
(* magic number has all of it that came before in front of it.              *)
Searches(w, s) ==
  /\ \A i \in 1..(Len(w) - 1) : Follows(w[i], w[i + 1])
  /\ w # <<>> => IF s = <<>> THEN Ends(w[Len(w)]) ELSE Follows(w[Len(w)], s[1])
  /\ \A i \in DOMAIN w : w[i].at <= 3 \/ ~Ambiguous(w[i].rec)
  /\ s # <<>> => \/ s[1].at = 1 \/ ~Ambiguous(s[1].rec)
                 \/ s[1].at <= 4 /\ Len(w) >= s[1].at - 1
WindowBefore(w) == \A i \in DOMAIN w, j \in DOMAIN usb_queue : w[i].rec < usb_queue[j]

(* The next byte is the one the parser takes it for.                        *)
Heads(b) ==
  /\ b.at = 5 + Len(parser.head)
  /\ parser.head # <<>> => parser.head[1].value = "hdr" /\ parser.head[1].rec = b.rec
Reads(b) ==
  /\ parser.type = records[b.rec].type /\ parser.size = Len(records[b.rec].body)
  /\ b.at = HeadEnd + 1 + Len(parser.body)
  /\ \A i \in DOMAIN parser.body : parser.body[i] = BodyBytes(b.rec)[i]
ParserFits ==
  queueTty # <<>> \/ reading =>
    /\ parser.at = "magic" =>
         Searches(parser.window, InFlight) /\ WindowBefore(parser.window)
    /\ parser.at = "header" => InFlight # <<>> /\ Heads(InFlight[1])
    /\ parser.at = "body" => InFlight # <<>> /\ Reads(InFlight[1])

(* What is handed on came before all that is still to come.                 *)
PacketsBefore ==
  \A i \in DOMAIN packets :
    /\ packets[i] # <<>>
    /\ \A j \in DOMAIN InFlight : packets[i][1].rec < InFlight[j].rec
    /\ \A j \in DOMAIN usb_queue : packets[i][1].rec < usb_queue[j]
    /\ packets[i][1].rec \in DOMAIN records

StreamInv ==
  LineWhole /\ QueueBehind /\ ParserFits /\ PacketsBefore /\ CapturedInOrder
IInv == Typed /\ (~dropped /\ ~misled => StreamInv)

-----------------------------------------------------------------------------
(* Sequences. *)

(* A sequence is not empty when it has a first element.                     *)
LEMMA NotEmpty ==
  ASSUME NEW S, NEW s \in Seq(S)
  PROVE  /\ Len(s) \in Nat /\ DOMAIN s = 1..Len(s)
         /\ s # <<>> <=> Len(s) > 0
BY EmptySeq, LenProperties

(* A queue, the line behind it and what is still to be written, in one.     *)
LEMMA JoinProperties ==
  ASSUME NEW S, NEW q \in Seq(S), NEW w \in Seq(S), NEW o \in Seq(S)
  PROVE  /\ q \o (w \o o) \in Seq(S)
         /\ Len(q \o (w \o o)) = Len(q) + Len(w) + Len(o)
         /\ \A i \in 1..(Len(q) + Len(w) + Len(o)) : (q \o (w \o o))[i] =
              IF i <= Len(q) THEN q[i]
              ELSE IF i <= Len(q) + Len(w) THEN w[i - Len(q)]
              ELSE o[i - Len(q) - Len(w)]
<1>1. Len(q) \in Nat /\ Len(w) \in Nat /\ Len(o) \in Nat
  BY LenProperties
<1>2. /\ w \o o \in Seq(S) /\ Len(w \o o) = Len(w) + Len(o)
      /\ \A i \in 1..(Len(w) + Len(o)) :
           (w \o o)[i] = IF i <= Len(w) THEN w[i] ELSE o[i - Len(w)]
  BY ConcatProperties
<1> DEFINE t == w \o o
<1>3. /\ t \in Seq(S) /\ Len(t) = Len(w) + Len(o)
      /\ \A i \in 1..(Len(w) + Len(o)) :
           t[i] = IF i <= Len(w) THEN w[i] ELSE o[i - Len(w)]
  BY <1>2
<1> HIDE DEF t
<1>4. /\ q \o t \in Seq(S) /\ Len(q \o t) = Len(q) + Len(t)
      /\ \A i \in 1..(Len(q) + Len(t)) :
           (q \o t)[i] = IF i <= Len(q) THEN q[i] ELSE t[i - Len(q)]
  <2>1. t \in Seq(S)
    BY <1>3
  <2> QED  BY <2>1, ConcatProperties
<1> DEFINE u == q \o t
<1>5. /\ u \in Seq(S) /\ Len(u) = Len(q) + Len(t)
      /\ \A i \in 1..(Len(q) + Len(t)) :
           u[i] = IF i <= Len(q) THEN q[i] ELSE t[i - Len(q)]
  BY <1>4
<1> HIDE DEF u
<1>6. /\ u \in Seq(S) /\ Len(u) = Len(q) + Len(w) + Len(o)
      /\ \A i \in 1..(Len(q) + Len(w) + Len(o)) : u[i] =
           IF i <= Len(q) THEN q[i]
           ELSE IF i <= Len(q) + Len(w) THEN w[i - Len(q)]
           ELSE o[i - Len(q) - Len(w)]
  <2>1. Len(u) = Len(q) + Len(w) + Len(o)
    BY <1>1, <1>3, <1>5
  <2>2. ASSUME NEW i \in 1..(Len(q) + Len(w) + Len(o))
        PROVE  u[i] = IF i <= Len(q) THEN q[i]
                      ELSE IF i <= Len(q) + Len(w) THEN w[i - Len(q)]
                      ELSE o[i - Len(q) - Len(w)]
    <3>1. u[i] = IF i <= Len(q) THEN q[i] ELSE t[i - Len(q)]
      BY <1>1, <1>3, <1>5
    <3>2. i > Len(q) => i - Len(q) \in 1..(Len(w) + Len(o))
      BY <1>1
    <3>3. i > Len(q) => t[i - Len(q)] = IF i - Len(q) <= Len(w) THEN w[i - Len(q)]
                                        ELSE o[i - Len(q) - Len(w)]
      BY <1>3, <3>2
    <3> QED  BY <1>1, <3>1, <3>3
  <2> QED  BY <1>5, <2>1, <2>2
<1> QED  BY <1>6 DEF u, t

(* Three parts of the line, put together in either order. *)
LEMMA Associative == \A q, w, o \in Seq(AnyByte) : q \o (w \o o) = (q \o w) \o o
  BY ConcatAssociative

(* A byte that moves from one to the next leaves the whole as it is.        *)
LEMMA MoveOn ==
  ASSUME NEW S, NEW q \in Seq(S), NEW w \in Seq(S), w # <<>>
  PROVE  /\ Append(q, Head(w)) \in Seq(S) /\ Len(Append(q, Head(w))) = Len(q) + 1
         /\ Tail(w) \in Seq(S) /\ Len(Tail(w)) = Len(w) - 1
         /\ Append(q, Head(w)) \o Tail(w) = q \o w
<1>1. /\ Head(w) \in S /\ Tail(w) \in Seq(S) /\ Len(Tail(w)) = Len(w) - 1
      /\ \A i \in 1..Len(Tail(w)) : Tail(w)[i] = w[i + 1]
  BY HeadTailProperties
<1>2. Head(w) = w[1] /\ Len(w) \in Nat /\ Len(q) \in Nat
  BY LenProperties
<1> DEFINE h == Head(w)
           t == Tail(w)
           p == Append(q, h)
<1>3. h \in S /\ t \in Seq(S) /\ Len(t) = Len(w) - 1 /\ h = w[1]
      /\ \A i \in 1..Len(t) : t[i] = w[i + 1]
  BY <1>1, <1>2
<1> HIDE DEF h, t
<1>4. /\ p \in Seq(S) /\ Len(p) = Len(q) + 1
      /\ \A i \in 1..Len(q) : p[i] = q[i]
      /\ p[Len(q) + 1] = h
  BY <1>3, AppendProperties
<1> HIDE DEF p
<1>5. /\ p \o t \in Seq(S) /\ Len(p \o t) = Len(p) + Len(t)
      /\ \A i \in 1..(Len(p) + Len(t)) :
           (p \o t)[i] = IF i <= Len(p) THEN p[i] ELSE t[i - Len(p)]
  BY <1>3, <1>4, ConcatProperties
<1>6. /\ q \o w \in Seq(S) /\ Len(q \o w) = Len(q) + Len(w)
      /\ \A i \in 1..(Len(q) + Len(w)) :
           (q \o w)[i] = IF i <= Len(q) THEN q[i] ELSE w[i - Len(q)]
  BY ConcatProperties
<1> DEFINE a == p \o t
           b == q \o w
<1>7. \A i \in 1..(Len(q) + Len(w)) : a[i] = b[i]
  <2> SUFFICES ASSUME NEW i \in 1..(Len(q) + Len(w)) PROVE a[i] = b[i]
    OBVIOUS
  <2>1. a[i] = IF i <= Len(q) + 1 THEN p[i] ELSE t[i - Len(q) - 1]
    BY <1>2, <1>3, <1>4, <1>5
  <2>2. b[i] = IF i <= Len(q) THEN q[i] ELSE w[i - Len(q)]
    BY <1>6
  <2> HIDE DEF a, b
  <2>3. CASE i <= Len(q)
    BY <1>2, <1>4, <2>1, <2>2, <2>3
  <2>4. CASE i = Len(q) + 1
    BY <1>2, <1>3, <1>4, <2>1, <2>2, <2>4
  <2>5. CASE i > Len(q) + 1
    <3>1. i - Len(q) - 1 \in 1..Len(t) /\ i - Len(q) - 1 + 1 = i - Len(q)
      BY <1>2, <1>3, <2>5
    <3> QED  BY <1>2, <1>3, <2>1, <2>2, <2>5, <3>1
  <2> QED  BY <1>2, <2>3, <2>4, <2>5
<1>8. a \in Seq(S) /\ b \in Seq(S) /\ Len(a) = Len(q) + Len(w) /\ Len(b) = Len(q) + Len(w)
  BY <1>2, <1>3, <1>4, <1>5, <1>6
<1> HIDE DEF a, b
<1>9. a = b
  BY <1>7, <1>8, SeqEqual
<1> QED  BY <1>1, <1>3, <1>4, <1>9 DEF a, b, p, t, h

-----------------------------------------------------------------------------
(* Parts of a chain. *)

(* What is left when the first n bytes are gone.                            *)
LEMMA ChainSuffix ==
  ASSUME NEW s \in Seq(AnyByte), NEW t \in Seq(AnyByte), NEW n \in Nat,
         NEW gap \in Nat, NEW g \in Nat, Chain(s, gap),
         Len(t) = Len(s) - n, \A i \in 1..Len(t) : t[i] = s[i + n],
         g = gap - n \/ gap <= n
  PROVE  Chain(t, g)
<1>1. /\ Len(s) \in Nat /\ Len(t) \in Nat
      /\ DOMAIN s = 1..Len(s) /\ DOMAIN t = 1..Len(t)
  BY LenProperties
<1>2. \A i \in DOMAIN t : i + n \in DOMAIN s /\ t[i] = s[i + n]
  BY <1>1
<1>3. \A i \in DOMAIN t : Genuine(t[i])
  BY <1>2 DEF Chain
<1>4. \A i, j \in DOMAIN t : i < j => Earlier(t[i], t[j])
  <2> SUFFICES ASSUME NEW i \in DOMAIN t, NEW j \in DOMAIN t, i < j
               PROVE  Earlier(t[i], t[j])
    OBVIOUS
  <2>1. i + n < j + n
    BY <1>1
  <2> QED  BY <1>2, <2>1 DEF Chain
<1>5. \A i \in 1..(Len(t) - 1) : i # g => Follows(t[i], t[i + 1])
  <2> SUFFICES ASSUME NEW i \in 1..(Len(t) - 1), i # g PROVE Follows(t[i], t[i + 1])
    OBVIOUS
  <2>1. i + n \in 1..(Len(s) - 1) /\ i + n # gap /\ i + n + 1 = i + 1 + n
    BY <1>1
  <2>2. i \in DOMAIN t /\ i + 1 \in DOMAIN t
    BY <1>1
  <2>3. Follows(s[i + n], s[i + n + 1])
    BY <2>1 DEF Chain
  <2> QED  BY <1>2, <2>1, <2>2, <2>3
<1> QED  BY <1>3, <1>4, <1>5 DEF Chain

(* Bytes missing in the middle leave a gap there.                           *)
LEMMA ChainGap ==
  ASSUME NEW s \in Seq(AnyByte), NEW t \in Seq(AnyByte), NEW n \in Nat, NEW k \in Nat,
         NEW gap \in {0, k}, Chain(s, gap), Len(t) = Len(s) - n, k <= Len(t),
         \A i \in 1..Len(t) : t[i] = IF i <= k THEN s[i] ELSE s[i + n]
  PROVE  Chain(t, k)
<1>1. /\ Len(s) \in Nat /\ Len(t) \in Nat
      /\ DOMAIN s = 1..Len(s) /\ DOMAIN t = 1..Len(t)
  BY LenProperties
<1> DEFINE f(i) == IF i <= k THEN i ELSE i + n
<1>2. \A i \in DOMAIN t : f(i) \in DOMAIN s /\ t[i] = s[f(i)]
  BY <1>1
<1>3. \A i, j \in DOMAIN t : i < j => f(i) < f(j)
  BY <1>1
<1>4. \A i \in 1..(Len(t) - 1) : i # k =>
        f(i) \in 1..(Len(s) - 1) /\ f(i) # gap /\ f(i + 1) = f(i) + 1
  BY <1>1
<1>5. \A i \in 1..(Len(t) - 1) : i \in DOMAIN t /\ i + 1 \in DOMAIN t
  BY <1>1
<1> HIDE DEF f
<1>6. \A i \in DOMAIN t : Genuine(t[i])
  BY <1>2 DEF Chain
<1>7. \A i, j \in DOMAIN t : i < j => Earlier(t[i], t[j])
  BY <1>2, <1>3 DEF Chain
<1>8. ASSUME NEW i \in 1..(Len(t) - 1), i # k PROVE Follows(t[i], t[i + 1])
  <2>1. Follows(s[f(i)], s[f(i) + 1])
    BY <1>4, <1>8 DEF Chain
  <2>2. t[i] = s[f(i)] /\ t[i + 1] = s[f(i + 1)] /\ f(i + 1) = f(i) + 1
    BY <1>2, <1>4, <1>5, <1>8
  <2> QED  BY <2>1, <2>2
<1> QED  BY <1>6, <1>7, <1>8 DEF Chain

-----------------------------------------------------------------------------
(* Records and their bytes. *)

(* Where a header and a body begin.                                         *)
LEMMA Layout ==
  /\ StampLen \in Nat /\ MaxBodySize \in Nat
  /\ HeaderLen = 1 + StampLen /\ HeadEnd = 5 + StampLen
  /\ MagicNumber \in Seq(ByteValue) /\ Len(MagicNumber) = 4
  /\ MagicNumber[1] = "aa" /\ MagicNumber[2] = "55"
  /\ MagicNumber[3] = "55" /\ MagicNumber[4] = "aa"
<1>1. StampLen \in Nat /\ MaxBodySize \in Nat
  BY StreamAssumption
<1>2. /\ MagicNumber \in Seq(ByteValue) /\ Len(MagicNumber) = 4
      /\ MagicNumber[1] = "aa" /\ MagicNumber[2] = "55"
      /\ MagicNumber[3] = "55" /\ MagicNumber[4] = "aa"
  BY DEF MagicNumber, ByteValue
<1>3. HeaderLen = 1 + StampLen
  BY DEF HeaderLen
<1>4. HeadEnd = 5 + StampLen
  BY <1>1, <1>2, <1>3 DEF HeadEnd
<1> QED  BY <1>1, <1>2, <1>3, <1>4

(* The types of what one record is made of.                                 *)
LEMMA BodyType ==
  ASSUME Typed, NEW r \in DOMAIN records
  PROVE  /\ r \in Nat /\ r \in 1..Len(records)
         /\ records[r].type \in Types
         /\ records[r].stamp \in Seq(ByteValue) /\ Len(records[r].stamp) = StampLen
         /\ records[r].body \in Seq(ByteValue)
         /\ Len(records[r].body) \in 0..MaxBodySize
         /\ records[r].type = "its" => records[r].body \in Bodies
<1>1. records \in Seq(RecordType)
  BY DEF Typed
<1>2. r \in 1..Len(records) /\ Len(records) \in Nat /\ records[r] \in RecordType
  BY <1>1, LenProperties, ElementOfSeq
<1>3. /\ records[r].type \in Types /\ records[r].stamp \in Stamps
      /\ records[r].body \in Bodies \cup {<<>>}
  BY <1>2 DEF RecordType
<1>4. <<>> \in Seq(ByteValue) /\ Len(<<>>) = 0
  BY EmptySeq
<1>5. records[r].body \in Seq(ByteValue)
  BY <1>3, <1>4, StreamAssumption
<1>6. Len(records[r].body) <= MaxBodySize
  BY <1>3, <1>4, StreamAssumption
<1>7. records[r].stamp \in Seq(ByteValue) /\ Len(records[r].stamp) = StampLen
  BY <1>3, StreamAssumption
<1> QED  BY <1>2, <1>3, <1>5, <1>6, <1>7, LenProperties DEF Typed

(* Three parts put together, the second as long as n.                       *)
LEMMA ThreeParts ==
  ASSUME NEW S, NEW p \in Seq(S), NEW q \in Seq(S), NEW o \in Seq(S)
  PROVE  /\ p \o q \o o \in Seq(S) /\ Len(p \o q \o o) = Len(p) + Len(q) + Len(o)
         /\ \A i \in 1..(Len(p) + Len(q) + Len(o)) : (p \o q \o o)[i] =
              IF i <= Len(p) THEN p[i] ELSE IF i <= Len(p) + Len(q) THEN q[i - Len(p)]
              ELSE o[i - Len(p) - Len(q)]
<1>1. (p \o q) \o o = p \o (q \o o)
  BY ConcatAssociative
<1>2. /\ p \o (q \o o) \in Seq(S)
      /\ Len(p \o (q \o o)) = Len(p) + Len(q) + Len(o)
      /\ \A i \in 1..(Len(p) + Len(q) + Len(o)) : (p \o (q \o o))[i] =
           IF i <= Len(p) THEN p[i]
           ELSE IF i <= Len(p) + Len(q) THEN q[i - Len(p)]
           ELSE o[i - Len(p) - Len(q)]
  BY JoinProperties
<1> QED  BY <1>1, <1>2

(* What the USB task writes for a record: its bytes, each in its place.     *)
LEMMA RecordBytesAre ==
  ASSUME Typed, NEW r \in DOMAIN records
  PROVE  /\ RecordLen(r) \in Nat /\ RecordLen(r) >= HeadEnd
         /\ RecordLen(r) <= MaxBodySize + HeadEnd
         /\ RecordBytes(r) \in Seq(AnyByte) /\ Len(RecordBytes(r)) = RecordLen(r)
         /\ \A k \in 1..RecordLen(r) :
              RecordBytes(r)[k] = Byte(ValueAt(r, k), r, k)
<1> DEFINE h == MagicNumber \o <<"hdr">>
           t == records[r].stamp
           b == records[r].body
           n == Len(b)
           v == h \o t \o b
<1>1. /\ t \in Seq(ByteValue) /\ Len(t) = StampLen /\ b \in Seq(ByteValue)
      /\ n \in 0..MaxBodySize /\ r \in Nat
  BY BodyType
<1>2. /\ t \in Seq(ValueType) /\ b \in Seq(ValueType)
  <2>1. \A s \in Seq(ByteValue) : s \in Seq(ValueType)
    <3> SUFFICES ASSUME NEW s \in Seq(ByteValue) PROVE s \in Seq(ValueType)
      OBVIOUS
    <3>1. s \in [1..Len(s) -> ByteValue] /\ Len(s) \in Nat
      BY LenProperties
    <3>2. s \in [1..Len(s) -> ValueType]
      BY <3>1 DEF ValueType
    <3> QED  BY <3>1, <3>2, SeqDef
  <2> QED  BY <1>1, <2>1
<1>3. /\ h \in Seq(ValueType) /\ Len(h) = 5
      /\ \A k \in 1..4 : h[k] = MagicNumber[k]
      /\ h[5] = "hdr"
  BY DEF MagicNumber, ValueType, ByteValue
<1>4. v = h \o t \o b /\ n = Len(b) /\ RecordLen(r) = HeadEnd + n
  BY DEF RecordLen
<1> HIDE DEF h, t, b, n, v
<1>5. /\ v \in Seq(ValueType) /\ Len(v) = 5 + StampLen + n
      /\ \A k \in 1..(5 + StampLen + n) : v[k] =
           IF k <= 5 THEN h[k] ELSE IF k <= 5 + StampLen THEN t[k - 5]
           ELSE b[k - 5 - StampLen]
  <2>1. h \in Seq(ValueType) /\ t \in Seq(ValueType) /\ b \in Seq(ValueType)
    BY <1>2, <1>3
  <2>2. /\ h \o t \o b \in Seq(ValueType) /\ Len(h \o t \o b) = Len(h) + Len(t) + Len(b)
        /\ \A k \in 1..(Len(h) + Len(t) + Len(b)) : (h \o t \o b)[k] =
             IF k <= Len(h) THEN h[k] ELSE IF k <= Len(h) + Len(t) THEN t[k - Len(h)]
             ELSE b[k - Len(h) - Len(t)]
    BY <2>1, ThreeParts
  <2>3. /\ v \in Seq(ValueType) /\ Len(v) = Len(h) + Len(t) + Len(b)
        /\ \A k \in 1..(Len(h) + Len(t) + Len(b)) : v[k] =
             IF k <= Len(h) THEN h[k] ELSE IF k <= Len(h) + Len(t) THEN t[k - Len(h)]
             ELSE b[k - Len(h) - Len(t)]
    BY <1>4, <2>2
  <2> QED  BY <1>1, <1>3, <1>4, <2>3
<1>6. RecordLen(r) = 5 + StampLen + n /\ RecordLen(r) \in Nat
  BY <1>1, <1>4, Layout
<1>7. ASSUME NEW k \in 1..RecordLen(r) PROVE v[k] = ValueAt(r, k)
  <2>0. k \in 1..(5 + StampLen + n) /\ k \in Nat /\ n \in Nat /\ StampLen \in Nat
    BY <1>1, <1>6, Layout
  <2>1. CASE k <= 4
    <3>1. k \in 1..4 /\ k <= 5
      BY <2>0, <2>1
    <3> QED  BY <1>3, <1>5, <2>0, <2>1, <3>1 DEF ValueAt
  <2>2. CASE k = 5
    BY <1>3, <1>5, <2>0, <2>2 DEF ValueAt
  <2>3. CASE k > 5 /\ k <= HeadEnd
    <3>1. ~(k <= 4) /\ ~(k = 5) /\ ~(k <= 5) /\ k <= 5 + StampLen
      BY <2>0, <2>3, Layout
    <3> QED  BY <1>5, <2>0, <2>3, <3>1 DEF ValueAt, t
  <2>4. CASE k > HeadEnd
    <3>1. /\ ~(k <= 4) /\ ~(k = 5) /\ ~(k <= HeadEnd) /\ ~(k <= 5) /\ ~(k <= 5 + StampLen)
          /\ k - 5 - StampLen = k - HeadEnd
      BY <2>0, <2>4, Layout
    <3> QED  BY <1>5, <2>0, <3>1 DEF ValueAt, b
  <2>5. HeadEnd \in Nat /\ HeadEnd >= 5
    BY Layout
  <2> QED  BY <2>0, <2>1, <2>2, <2>3, <2>4, <2>5
<1> DEFINE u == RecordBytes(r)
<1>8. DOMAIN v = 1..RecordLen(r)
  BY <1>5, <1>6, LenProperties
<1>9. u = [k \in 1..RecordLen(r) |-> Byte(v[k], r, k)]
  <2>1. u = [k \in DOMAIN v |-> Byte(v[k], r, k)]
    BY DEF RecordBytes, v, h, t, b
  <2> QED  BY <1>8, <2>1
<1>10. \A k \in 1..RecordLen(r) : v[k] \in ValueType
  BY <1>5, <1>6, ElementOfSeq
<1> HIDE DEF v, u
<1>11. u \in [1..RecordLen(r) -> AnyByte]
  BY <1>1, <1>9, <1>10 DEF Byte, AnyByte
<1>12. u \in Seq(AnyByte)
  BY <1>6, <1>11, SeqDef
<1>13. Len(u) = RecordLen(r)
  <2>1. DOMAIN u = 1..RecordLen(r) /\ DOMAIN u = 1..Len(u) /\ Len(u) \in Nat
    BY <1>11, <1>12, LenProperties
  <2> QED  BY <1>6, <2>1
<1>14. RecordLen(r) >= HeadEnd /\ RecordLen(r) <= MaxBodySize + HeadEnd
  <2>1. n \in 0..MaxBodySize
    BY <1>1
  <2> QED  BY <1>6, <2>1, Layout
<1> QED  BY <1>6, <1>7, <1>9, <1>12, <1>13, <1>14 DEF u

(* A record behind whole ones, or behind a gap, makes the chain longer.     *)
LEMMA ChainAppend ==
  ASSUME Typed, NEW s \in Seq(AnyByte), NEW gap \in Nat, Chain(s, gap),
         NEW r \in DOMAIN records, \A i \in DOMAIN s : s[i].rec < r,
         s = <<>> \/ Ends(s[Len(s)]) \/ gap = Len(s)
  PROVE  /\ s \o RecordBytes(r) \in Seq(AnyByte)
         /\ Chain(s \o RecordBytes(r), gap)
         /\ s \o RecordBytes(r) # <<>>
         /\ (s \o RecordBytes(r))[1] = IF s = <<>> THEN Byte("aa", r, 1) ELSE s[1]
         /\ Ends((s \o RecordBytes(r))[Len(s \o RecordBytes(r))])
         /\ \A i \in DOMAIN (s \o RecordBytes(r)) :
              (s \o RecordBytes(r))[i].rec = r
                \/ (i \in DOMAIN s /\ (s \o RecordBytes(r))[i] = s[i])
<1> DEFINE t == RecordBytes(r)
           m == RecordLen(r)
           n == Len(s)
           u == s \o t
<1>1. /\ t \in Seq(AnyByte) /\ Len(t) = m /\ m \in Nat /\ m >= 3
      /\ \A k \in 1..m : t[k] = Byte(ValueAt(r, k), r, k)
  BY RecordBytesAre, Layout
<1>2. n \in Nat /\ DOMAIN s = 1..n /\ (s = <<>> <=> n = 0)
  BY NotEmpty
<1> HIDE DEF t
<1>3. u \in Seq(AnyByte) /\ Len(u) = n + Len(t)
      /\ \A i \in 1..(n + Len(t)) : u[i] = IF i <= n THEN s[i] ELSE t[i - n]
  BY <1>1, ConcatProperties
<1>4. DOMAIN u = 1..(n + m)
  BY <1>1, <1>3, LenProperties
<1> HIDE DEF u, m, n
<1>5. \A i \in 1..(n + m) : \/ i <= n /\ i \in DOMAIN s /\ u[i] = s[i]
                            \/ i > n /\ i - n \in 1..m /\ u[i] = t[i - n]
  BY <1>1, <1>2, <1>3
<1>6. \A k \in 1..m : Genuine(t[k]) /\ t[k].rec = r /\ t[k].at = k
  BY <1>1 DEF Genuine, Byte, m
<1>7. \A i \in DOMAIN u : Genuine(u[i])
  BY <1>4, <1>5, <1>6 DEF Chain
<1>8. ASSUME NEW i \in DOMAIN u, NEW j \in DOMAIN u, i < j PROVE Earlier(u[i], u[j])
  <2>1. CASE j <= n
    <3>1. i <= n
      BY <1>1, <1>2, <1>4, <1>8, <2>1
    <3>2. i \in DOMAIN s /\ j \in DOMAIN s /\ u[i] = s[i] /\ u[j] = s[j]
      BY <1>1, <1>2, <1>4, <1>5, <2>1, <3>1
    <3> QED  BY <1>8, <3>2 DEF Chain
  <2>2. CASE i <= n /\ j > n
    <3>1. i \in DOMAIN s /\ u[i] = s[i] /\ u[j].rec = r
      <4>1. i \in 1..(n + m) /\ j \in 1..(n + m) /\ ~(i > n) /\ ~(j <= n)
        BY <1>1, <1>2, <1>4, <2>2
      <4> QED  BY <1>5, <1>6, <4>1
    <3> QED  BY <3>1 DEF Earlier
  <2>3. CASE i > n /\ j > n
    <3>1. /\ i - n \in 1..m /\ j - n \in 1..m /\ i - n < j - n
          /\ u[i] = t[i - n] /\ u[j] = t[j - n]
      BY <1>1, <1>2, <1>4, <1>5, <1>8, <2>3
    <3>2. u[i].rec = r /\ u[j].rec = r /\ u[i].at = i - n /\ u[j].at = j - n
      BY <1>6, <3>1
    <3> QED  BY <3>1, <3>2 DEF Earlier
  <2> QED  BY <1>1, <1>2, <1>4, <1>8, <2>1, <2>2, <2>3
<1>9. ASSUME NEW i \in 1..(n + m - 1), i # gap PROVE Follows(u[i], u[i + 1])
  <2>1. CASE i < n
    <3>1. i \in 1..(n - 1) /\ u[i] = s[i] /\ u[i + 1] = s[i + 1]
      BY <1>1, <1>2, <1>5, <2>1
    <3> QED  BY <1>9, <3>1 DEF Chain, n
  <2>2. CASE i = n
    <3>1. u[i] = s[n] /\ u[i + 1].rec = r /\ u[i + 1].at = 1 /\ n \in DOMAIN s
      <4>1. i + 1 \in 1..(n + m) /\ i + 1 - n = 1 /\ i + 1 > n /\ 1 \in 1..m
        BY <1>1, <1>2, <2>2
      <4>2. ~(i + 1 <= n) /\ i <= n /\ i \in 1..(n + m) /\ ~(i > n)
        BY <1>1, <1>2, <2>2
      <4>3. u[i + 1] = t[i + 1 - n]
        BY <1>1, <1>2, <1>5, <4>1, <4>2
      <4>5. u[i + 1] = t[1]
        BY <4>1, <4>3
      <4>4. u[i] = s[i] /\ i \in DOMAIN s
        BY <1>5, <4>2
      <4> QED  BY <1>6, <2>2, <4>1, <4>5, <4>4
    <3>2. Ends(s[n])
      <4>1. n # 0 /\ n # gap
        BY <1>1, <1>2, <1>9, <2>2
      <4> QED  BY <1>2, <4>1 DEF n
    <3> QED  BY <3>1, <3>2 DEF Follows
  <2>3. CASE i > n
    <3>1. /\ i - n \in 1..m /\ i + 1 - n \in 1..m /\ i + 1 > n
          /\ i + 1 - n = i - n + 1 /\ i \in 1..(n + m) /\ i + 1 \in 1..(n + m)
      BY <1>1, <1>2, <2>3
    <3>2. u[i] = t[i - n] /\ u[i + 1] = t[i + 1 - n]
      BY <1>2, <1>5, <2>3, <3>1
    <3> QED  BY <1>6, <3>1, <3>2 DEF Follows
  <2> QED  BY <1>1, <1>2, <2>1, <2>2, <2>3
<1>10. Len(u) = n + m
  BY <1>1, <1>3
<1>11. Chain(u, gap)
  <2>1. \A i, j \in DOMAIN u : i < j => Earlier(u[i], u[j])
    BY <1>8
  <2>2. ASSUME NEW i \in 1..(Len(u) - 1), i # gap PROVE Follows(u[i], u[i + 1])
    <3>1. i \in 1..(n + m - 1)
      BY <1>1, <1>2, <1>10
    <3> QED  BY <1>9, <2>2, <3>1
  <2> QED  BY <1>7, <2>1, <2>2 DEF Chain
<1>12. u[1] = IF s = <<>> THEN Byte("aa", r, 1) ELSE s[1]
  <2>1. CASE n = 0
    <3>1. 1 \in 1..(n + m) /\ 1 > n /\ 1 - n = 1 /\ 1 \in 1..m
      BY <1>1, <2>1
    <3>2. u[1] = t[1] /\ t[1] = Byte(ValueAt(r, 1), r, 1)
      BY <1>1, <1>5, <2>1, <3>1
    <3>3. ValueAt(r, 1) = "aa"
      BY Layout DEF ValueAt
    <3> QED  BY <1>2, <2>1, <3>2, <3>3
  <2>2. CASE n # 0
    BY <1>1, <1>2, <1>5, <2>2
  <2> QED  BY <2>1, <2>2
<1>13. Ends(u[Len(u)])
  <2>1. u[n + m] = t[m]
    <3>1. n + m \in 1..(n + m) /\ n + m > n /\ n + m - n = m
      BY <1>1, <1>2
    <3>2. ~(n + m <= n)
      BY <1>1, <1>2
    <3>3. u[n + m] = t[n + m - n]
      BY <1>1, <1>2, <1>5, <3>1, <3>2
    <3> QED  BY <3>1, <3>3
  <2>2. m \in 1..m
    BY <1>1
  <2> QED  BY <1>6, <1>10, <2>1, <2>2 DEF Ends, m
<1>14. \A i \in DOMAIN u : u[i].rec = r \/ (i \in DOMAIN s /\ u[i] = s[i])
  BY <1>4, <1>5, <1>6
<1>15. u # <<>>
  BY <1>1, <1>2, <1>3, <1>10, NotEmpty
<1> QED  BY <1>3, <1>11, <1>12, <1>13, <1>14, <1>15 DEF u, t

-----------------------------------------------------------------------------
(* Types. *)

(* Nothing, a byte more, a byte less, the end of them.                      *)
LEMMA BytesProperties ==
  /\ Bytes(<<>>)
  /\ \A q, b : Bytes(q) /\ b \in AnyByte /\ Genuine(b) => Bytes(Append(q, b))
  /\ \A q : Bytes(q) /\ q # <<>> => Head(q) \in AnyByte /\ Genuine(Head(q)) /\ Bytes(Tail(q))
  /\ \A q : Bytes(q) => \A n \in 0..Len(q) :
       Bytes(SubSeq(q, n + 1, Len(q))) /\ Len(SubSeq(q, n + 1, Len(q))) = Len(q) - n
         /\ \A i \in 1..(Len(q) - n) : SubSeq(q, n + 1, Len(q))[i] = q[i + n]
<1>1. Bytes(<<>>)
  BY EmptySeq, LenProperties DEF Bytes
<1>2. ASSUME NEW q, NEW b, Bytes(q), b \in AnyByte, Genuine(b) PROVE Bytes(Append(q, b))
  <2> DEFINE p == Append(q, b)
  <2>1. q \in Seq(AnyByte) /\ Len(q) \in Nat /\ DOMAIN q = 1..Len(q)
    BY <1>2, LenProperties DEF Bytes
  <2>2. p \in Seq(AnyByte) /\ Len(p) = Len(q) + 1 /\ (\A i \in 1..Len(q) : p[i] = q[i])
        /\ p[Len(q) + 1] = b
    BY <1>2, <2>1, AppendProperties
  <2>3. DOMAIN p = 1..(Len(q) + 1)
    BY <2>2, LenProperties
  <2> HIDE DEF p
  <2>4. ASSUME NEW i \in DOMAIN p PROVE Genuine(p[i])
    <3>1. CASE i = Len(q) + 1
      BY <1>2, <2>2, <3>1
    <3>2. CASE i # Len(q) + 1
      BY <1>2, <2>1, <2>2, <2>3, <3>2 DEF Bytes
    <3> QED  BY <3>1, <3>2
  <2>5. Bytes(p)
    BY <2>2, <2>4 DEF Bytes
  <2> QED  BY <2>5 DEF p
<1>3. ASSUME NEW q, Bytes(q), q # <<>>
      PROVE  Head(q) \in AnyByte /\ Genuine(Head(q)) /\ Bytes(Tail(q))
  <2>1. q \in Seq(AnyByte) /\ Len(q) \in Nat /\ DOMAIN q = 1..Len(q) /\ Len(q) > 0
    BY <1>3, NotEmpty DEF Bytes
  <2>2. /\ Head(q) \in AnyByte /\ Tail(q) \in Seq(AnyByte) /\ Len(Tail(q)) = Len(q) - 1
        /\ \A i \in 1..Len(Tail(q)) : Tail(q)[i] = q[i + 1]
    BY <1>3, <2>1, HeadTailProperties
  <2>3. Head(q) = q[1] /\ DOMAIN Tail(q) = 1..Len(Tail(q))
    BY <2>1, <2>2, LenProperties
  <2>4. \A i \in DOMAIN Tail(q) : i + 1 \in DOMAIN q /\ Tail(q)[i] = q[i + 1]
    BY <2>1, <2>2, <2>3
  <2> QED  BY <1>3, <2>1, <2>2, <2>3, <2>4 DEF Bytes
<1>4. ASSUME NEW q, Bytes(q), NEW n \in 0..Len(q)
      PROVE  /\ Bytes(SubSeq(q, n + 1, Len(q))) /\ Len(SubSeq(q, n + 1, Len(q))) = Len(q) - n
             /\ \A i \in 1..(Len(q) - n) : SubSeq(q, n + 1, Len(q))[i] = q[i + n]
  <2> DEFINE p == SubSeq(q, n + 1, Len(q))
             l == Len(q)
  <2>1. q \in Seq(AnyByte) /\ l \in Nat /\ DOMAIN q = 1..l /\ n \in Nat /\ n <= l
    BY <1>4, LenProperties DEF Bytes
  <2>2. \A i \in (n + 1)..l : q[i] \in AnyByte
    BY <2>1, ElementOfSeq
  <2> HIDE DEF l
  <2>3. /\ SubSeq(q, n + 1, l) \in Seq(AnyByte)
        /\ Len(SubSeq(q, n + 1, l)) = IF n + 1 <= l THEN l - (n + 1) + 1 ELSE 0
        /\ \A i \in 1..(l - (n + 1) + 1) : SubSeq(q, n + 1, l)[i] = q[n + 1 + i - 1]
    <3>1. n + 1 \in Int /\ l \in Int
      BY <2>1
    <3> QED  BY <2>2, <3>1, SubSeqProperties
  <2>4. p = SubSeq(q, n + 1, l)
    BY DEF l
  <2> HIDE DEF p
  <2>5. /\ p \in Seq(AnyByte) /\ Len(p) = l - n
        /\ \A i \in 1..(l - n) : p[i] = q[i + n]
    <3>1. \A i \in 1..(l - n) : i \in 1..(l - (n + 1) + 1) /\ n + 1 + i - 1 = i + n
      BY <2>1
    <3>2. Len(p) = l - n
      BY <2>1, <2>3, <2>4
    <3> QED  BY <2>3, <2>4, <3>1, <3>2
  <2>6. \A i \in DOMAIN p : i \in 1..(l - n) /\ i + n \in DOMAIN q
    BY <2>1, <2>5, LenProperties
  <2>7. Bytes(p)
    BY <1>4, <2>5, <2>6 DEF Bytes
  <2> QED  BY <2>5, <2>7 DEF p, l
<1> QED  BY <1>1, <1>2, <1>3, <1>4

(* A record more takes nothing from those before it.                        *)
LEMMA RecordsGrow ==
  ASSUME Typed, NEW x \in RecordType, records' = Append(records, x)
  PROVE  /\ records' \in Seq(RecordType) /\ Len(records') = Len(records) + 1
         /\ Len(records) \in Nat
         /\ DOMAIN records' = DOMAIN records \cup {Len(records')}
         /\ Len(records') \notin DOMAIN records
         /\ records'[Len(records')] = x
         /\ \A r \in DOMAIN records : /\ r < Len(records')
                                      /\ r \in DOMAIN records' /\ records'[r] = records[r]
                                      /\ RecordLen(r)' = RecordLen(r)
                                      /\ BodyBytes(r)' = BodyBytes(r)
                                      /\ Ambiguous(r)' <=> Ambiguous(r)
         /\ \A b : Genuine(b) => Genuine(b)' /\ (Ends(b)' <=> Ends(b))
         /\ \A q : Bytes(q) => Bytes(q)'
<1>1. /\ records' \in Seq(RecordType) /\ Len(records') = Len(records) + 1
      /\ \A r \in 1..Len(records) : records'[r] = records[r]
      /\ records'[Len(records) + 1] = x
  BY AppendProperties DEF Typed
<1>2. /\ DOMAIN records = 1..Len(records) /\ Len(records) \in Nat
      /\ DOMAIN records' = 1..Len(records')
  BY <1>1, LenProperties DEF Typed
<1>3. DOMAIN records' = DOMAIN records \cup {Len(records')} /\ Len(records') \notin DOMAIN records
  BY <1>1, <1>2
<1>4. \A r \in DOMAIN records : r < Len(records') /\ r \in DOMAIN records' /\ records'[r] = records[r]
  BY <1>1, <1>2
<1>5. \A r \in DOMAIN records : RecordLen(r)' = RecordLen(r) /\ BodyBytes(r)' = BodyBytes(r)
                                 /\ (Ambiguous(r)' <=> Ambiguous(r))
  BY <1>4 DEF RecordLen, BodyBytes, Ambiguous
<1>6. ASSUME NEW b, Genuine(b) PROVE Genuine(b)' /\ (Ends(b)' <=> Ends(b))
  BY <1>4, <1>5, <1>6 DEF Genuine, Ends, ValueAt
<1>7. \A q : Bytes(q) => Bytes(q)'
  BY <1>6 DEF Bytes
<1> QED  BY <1>1, <1>2, <1>3, <1>4, <1>5, <1>6, <1>7

(* Where nothing is captured a byte stays what it is.                       *)
LEMMA RecordsStay ==
  ASSUME UNCHANGED records
  PROVE  /\ \A b : (Genuine(b)' <=> Genuine(b)) /\ (Ends(b)' <=> Ends(b))
         /\ \A q : Bytes(q)' <=> Bytes(q)
         /\ \A r : BodyBytes(r)' = BodyBytes(r) /\ (Ambiguous(r)' <=> Ambiguous(r))
BY DEF Genuine, Ends, ValueAt, RecordLen, Bytes, BodyBytes, Ambiguous

(* In front of the magic number nothing is kept yet.                        *)
LEMMA SkippingType ==
  /\ Skipping \in [at : {"magic"}, window : Seq(AnyByte)]
  /\ Bytes(Skipping.window) /\ Len(Skipping.window) = 0 /\ Skipping.window = <<>>
BY EmptySeq, BytesProperties DEF Skipping

(* A record that is captured leaves the parser its types.                   *)
LEMMA ParserGrows ==
  ASSUME \A q : Bytes(q) => Bytes(q)', UNCHANGED parser, ParserType
  PROVE  ParserType'
<1> DEFINE w == parser.window
           h == parser.head
<1>1. /\ parser.at = "magic" => Bytes(w)
      /\ parser.at = "header" => Bytes(h)
  BY DEF ParserType
<1>2. ASSUME NEW q, Bytes(q) PROVE \A i \in DOMAIN q : Genuine(q[i])'
  BY <1>2 DEF Bytes
<1>3. /\ parser.at = "magic" => \A i \in DOMAIN w : Genuine(w[i])'
      /\ parser.at = "header" => \A i \in DOMAIN h : Genuine(h[i])'
  BY <1>1, <1>2
<1> QED  BY <1>3 DEF ParserType, Bytes, Genuine, ValueAt, RecordLen

(* So does a step that captures none.                                       *)
LEMMA HeaderTyped ==
  ASSUME UNCHANGED records, NEW h, parser' = [at |-> "header", head |-> h],
         Bytes(h), Len(h) < HeaderLen
  PROVE  ParserType'
BY DEF ParserType, Bytes, Genuine, ValueAt, RecordLen

(* A window is one of bytes of records, as long as no record is captured.   *)
LEMMA SearchTyped ==
  ASSUME UNCHANGED records, NEW w, parser' = [at |-> "magic", window |-> w],
         Bytes(w), Len(w) < 4
  PROVE  ParserType'
BY DEF ParserType, Bytes, Genuine, ValueAt, RecordLen

(* The program starts with the types.                                       *)
LEMMA InitTyped == Init => Typed
<1> SUFFICES ASSUME Init PROVE Typed
  OBVIOUS
<1>1. /\ records \in Seq(RecordType) /\ usb_queue \in Seq(Nat) /\ packets \in Seq(Seq(AnyByte))
      /\ Len(records) = 0 /\ Len(usb_queue) = 0 /\ Len(wire) = 0 /\ Len(queueTty) = 0
      /\ DOMAIN records = {} /\ DOMAIN usb_queue = {}
  BY EmptySeq, LenProperties DEF Init
<1>2. Bytes(out) /\ Bytes(wire) /\ Bytes(queueTty)
  BY BytesProperties DEF Init
<1>3. ParserType
  BY <1>1, SkippingType DEF Init, ParserType
<1>4. {connected, reading, dropped, misled} \subseteq BOOLEAN
  BY DEF Init
<1> QED  BY <1>1, <1>2, <1>3, <1>4, StreamAssumption DEF Typed

(* log_data keeps the types (main.c:237-243).                               *)
LEMMA LogDataTyped ==
  ASSUME Typed, NEW type \in Types, NEW body \in Bodies \cup {<<>>},
         type = "its" => body \in Bodies, log_data(type, body)
  PROVE  Typed'
<1>0. PICK stamp \in Stamps :
        records' = Append(records, [type |-> type, stamp |-> stamp, body |-> body])
  BY DEF log_data
<1> DEFINE x == [type |-> type, stamp |-> stamp, body |-> body]
<1>1. x \in RecordType /\ records' = Append(records, x)
  BY <1>0 DEF RecordType
<1> HIDE DEF x
<1>2. /\ records' \in Seq(RecordType) /\ Len(records') = Len(records) + 1
      /\ Len(records) \in Nat /\ records'[Len(records')] = x
      /\ DOMAIN records' = DOMAIN records \cup {Len(records')}
      /\ \A r \in DOMAIN records : records'[r] = records[r]
      /\ \A q : Bytes(q) => Bytes(q)'
  BY <1>1, RecordsGrow
<1>3. \A r \in DOMAIN records' : records'[r].type = "its" => records'[r].body \in Bodies
  BY <1>2 DEF Typed, x
<1>4. /\ usb_queue' \in Seq(Nat) /\ Len(usb_queue') <= QUEUE_SIZE
      /\ \A i \in DOMAIN usb_queue' : usb_queue'[i] \in DOMAIN records'
  <2>1. CASE connected /\ Len(usb_queue) < QUEUE_SIZE
    <3>1. usb_queue' = Append(usb_queue, Len(records'))
      BY <2>1 DEF log_data
    <3>2. /\ usb_queue' \in Seq(Nat) /\ Len(usb_queue') = Len(usb_queue) + 1
          /\ \A i \in 1..Len(usb_queue) : usb_queue'[i] = usb_queue[i]
          /\ usb_queue'[Len(usb_queue) + 1] = Len(records')
      BY <1>2, <3>1, AppendProperties DEF Typed
    <3>3. /\ DOMAIN usb_queue = 1..Len(usb_queue) /\ Len(usb_queue) \in Nat
          /\ DOMAIN usb_queue' = 1..Len(usb_queue')
      BY <3>2, LenProperties DEF Typed
    <3>4. ASSUME NEW i \in DOMAIN usb_queue' PROVE usb_queue'[i] \in DOMAIN records'
      <4>1. CASE i = Len(usb_queue) + 1
        BY <1>2, <3>2, <4>1
      <4>2. CASE i # Len(usb_queue) + 1
        <5>1. i \in 1..Len(usb_queue)
          BY <3>2, <3>3, <4>2
        <5>2. usb_queue[i] \in DOMAIN records /\ usb_queue'[i] = usb_queue[i]
          BY <3>2, <3>3, <5>1 DEF Typed
        <5> QED  BY <1>2, <5>2
      <4> QED  BY <4>1, <4>2
    <3> QED  BY <2>1, <3>2, <3>3, <3>4, StreamAssumption
  <2>2. CASE ~(connected /\ Len(usb_queue) < QUEUE_SIZE)
    <3>1. usb_queue' = usb_queue
      BY <2>2 DEF log_data
    <3> QED  BY <1>2, <3>1 DEF Typed
  <2> QED  BY <2>1, <2>2
<1>5. UNCHANGED <<out, connected, wire, reading, queueTty, parser, packets, dropped, misled>>
  BY DEF log_data, otmVars
<1>6. Bytes(out)' /\ Bytes(wire)' /\ Bytes(queueTty)'
  BY <1>2, <1>5 DEF Typed, Bytes, Genuine
<1>7. ParserType'
  BY <1>2, <1>5, ParserGrows DEF Typed
<1>8. Len(records') <= MaxRecords
  BY <1>2, StreamAssumption DEF log_data
<1> QED  BY <1>2, <1>3, <1>4, <1>5, <1>6, <1>7, <1>8 DEF Typed

(* The USB task keeps the types (main.c:161-170).                           *)
LEMMA UsbTyped ==
  ASSUME Typed, UsbReceive \/ UsbWrite PROVE Typed'
<1>1. UNCHANGED <<records, connected, reading, queueTty, parser, packets, dropped, misled>>
  BY DEF UsbReceive, UsbWrite, otmVars
<1>2. ParserType' /\ \A q : Bytes(q)' <=> Bytes(q)
  <2>1. ParserType'
    BY <1>1 DEF Typed, ParserType, Bytes, Genuine, ValueAt, RecordLen
  <2> QED  BY <1>1, <2>1, RecordsStay
<1>3. CASE UsbReceive
  <2>1. /\ usb_queue \in Seq(Nat) /\ usb_queue # <<>> /\ usb_queue' = Tail(usb_queue)
        /\ UNCHANGED wire
    BY <1>3 DEF UsbReceive, Typed
  <2>2. /\ Tail(usb_queue) \in Seq(Nat) /\ Len(Tail(usb_queue)) = Len(usb_queue) - 1
        /\ \A i \in 1..Len(Tail(usb_queue)) : Tail(usb_queue)[i] = usb_queue[i + 1]
        /\ Len(usb_queue) \in Nat /\ DOMAIN usb_queue = 1..Len(usb_queue)
        /\ Len(usb_queue) > 0
    BY <2>1, HeadTailProperties, NotEmpty
  <2>3. DOMAIN usb_queue' = 1..Len(usb_queue')
    BY <2>1, <2>2, LenProperties
  <2>4. /\ usb_queue' \in Seq(Nat) /\ Len(usb_queue') <= QUEUE_SIZE
        /\ \A i \in DOMAIN usb_queue' : usb_queue'[i] \in DOMAIN records'
    <3>1. usb_queue' \in Seq(Nat)
      BY <2>1, <2>2
    <3>2. Len(usb_queue) <= QUEUE_SIZE /\ \A i \in DOMAIN usb_queue : usb_queue[i] \in DOMAIN records
      BY DEF Typed
    <3>3. Len(usb_queue') <= QUEUE_SIZE
      <4>1. QUEUE_SIZE \in Nat
        BY StreamAssumption
      <4> QED  BY <4>1, <2>1, <2>2, <3>2
    <3>4. ASSUME NEW i \in DOMAIN usb_queue' PROVE usb_queue'[i] \in DOMAIN records'
      <4>1. i + 1 \in DOMAIN usb_queue /\ usb_queue'[i] = usb_queue[i + 1]
        BY <2>1, <2>2, <2>3
      <4> QED  BY <1>1, <3>2, <4>1
    <3> QED  BY <3>1, <3>3, <3>4
  <2>5. Head(usb_queue) \in DOMAIN records
    <3>1. \A i \in DOMAIN usb_queue : usb_queue[i] \in DOMAIN records
      BY DEF Typed
    <3>2. 1 \in DOMAIN usb_queue /\ Head(usb_queue) = usb_queue[1]
      BY <2>1, <2>2
    <3> QED  BY <3>1, <3>2
  <2>6. Bytes(RecordBytes(Head(usb_queue)))
    <3> DEFINE r == Head(usb_queue)
    <3>1. r \in DOMAIN records
      BY <2>5
    <3> HIDE DEF r
    <3>2. /\ RecordBytes(r) \in Seq(AnyByte) /\ Len(RecordBytes(r)) = RecordLen(r)
          /\ \A k \in 1..RecordLen(r) : RecordBytes(r)[k] = Byte(ValueAt(r, k), r, k)
      BY <3>1, RecordBytesAre
    <3>3. DOMAIN RecordBytes(r) = 1..RecordLen(r)
      BY <3>2, LenProperties
    <3>4. \A k \in DOMAIN RecordBytes(r) : Genuine(RecordBytes(r)[k])
      BY <3>1, <3>2, <3>3 DEF Genuine, Byte
    <3>5. Bytes(RecordBytes(r))
      BY <3>2, <3>4 DEF Bytes
    <3> QED  BY <3>5 DEF r
  <2>7. Bytes(out') /\ Bytes(wire')
    BY <1>3, <2>1, <2>6, BytesProperties DEF UsbReceive, Typed
  <2>8. Bytes(out)' /\ Bytes(wire)' /\ Bytes(queueTty)'
    BY <1>1, <1>2, <2>7 DEF Typed, Bytes, Genuine, ValueAt, RecordLen
  <2> QED  BY <1>1, <1>2, <2>1, <2>4, <2>8 DEF Typed
<1>4. CASE UsbWrite
  <2>1. /\ out # <<>> /\ Len(wire) < RingSize /\ wire' = Append(wire, Head(out))
        /\ out' = Tail(out) /\ UNCHANGED usb_queue /\ Bytes(out) /\ Bytes(wire)
    BY <1>4 DEF UsbWrite, Typed
  <2>2. Head(out) \in AnyByte /\ Genuine(Head(out)) /\ Bytes(Tail(out))
    BY <2>1, BytesProperties
  <2>3. Bytes(Append(wire, Head(out)))
    BY <2>1, <2>2, BytesProperties
  <2>4. Len(wire') = Len(wire) + 1 /\ Len(wire) \in Nat
    BY <2>1, <2>2, AppendProperties, LenProperties DEF Bytes
  <2>5. Bytes(out') /\ Bytes(wire')
    BY <2>1, <2>2, <2>3
  <2>6. Bytes(out)' /\ Bytes(wire)' /\ Bytes(queueTty)'
    BY <1>1, <2>5 DEF Typed, Bytes, Genuine, ValueAt, RecordLen
  <2> QED  BY <1>1, <1>2, <2>1, <2>4, <2>6, StreamAssumption DEF Typed
<1> QED  BY <1>3, <1>4

(* So do the cable and the start of the client (reader.cpp:7-75).           *)
LEMMA CableTyped ==
  ASSUME Typed, Unplug \/ Plug \/ Start PROVE Typed'
<1>1. UNCHANGED <<records, usb_queue, out, packets, dropped>>
  BY DEF Unplug, Plug, Start, espVars, otmVars
<1>2. {connected', reading', dropped', misled'} \subseteq BOOLEAN
  <2>1. misled' \in BOOLEAN
    BY DEF Unplug, Plug, Start, espVars, otmVars, Typed
  <2> QED  BY <1>1, <2>1 DEF Unplug, Plug, Start, espVars, otmVars, Typed
<1>3. Bytes(wire') /\ Len(wire') <= RingSize
  <2>1. CASE Plug
    BY <2>1 DEF Plug, Typed
  <2>2. CASE Unplug \/ Start
    <3>1. PICK n \in 0..Len(wire) : wire' = SubSeq(wire, n + 1, Len(wire))
      BY <2>2 DEF Unplug, Start
    <3>2. Bytes(wire') /\ Len(wire') = Len(wire) - n /\ Len(wire) \in Nat
      BY <3>1, BytesProperties, LenProperties DEF Typed, Bytes
    <3> QED  BY <3>2, StreamAssumption DEF Typed
  <2> QED  BY <2>1, <2>2
<1>4. Bytes(queueTty') /\ Len(queueTty') <= Size + 1
  <2>1. CASE Start
    BY <2>1, BytesProperties, StreamAssumption DEF Start
  <2>2. CASE Plug \/ Unplug
    BY <2>2 DEF Plug, Unplug, Typed, otmVars
  <2> QED  BY <2>1, <2>2
<1>5. ParserType'
  <2>1. CASE Start
    <3>1. parser' = Skipping
      BY <2>1 DEF Start
    <3> QED  BY <1>1, <3>1, SkippingType, SearchTyped
  <2>2. CASE Plug \/ Unplug
    <3>1. UNCHANGED parser
      BY <2>2 DEF Plug, Unplug, otmVars
    <3> QED  BY <1>1, <3>1 DEF Typed, ParserType, Bytes, Genuine, ValueAt, RecordLen
  <2> QED  BY <2>1, <2>2
<1>6. Bytes(out)' /\ Bytes(wire)' /\ Bytes(queueTty)'
  BY <1>1, <1>3, <1>4 DEF Typed, Bytes, Genuine, ValueAt, RecordLen
<1> QED  BY <1>1, <1>2, <1>3, <1>4, <1>5, <1>6 DEF Typed

(* A push that drops nothing takes the byte as it is, and the queue keeps   *)
(* its bound.                                                               *)
LEMMA PushProperties ==
  ASSUME NEW q, Bytes(q), Len(q) <= Size + 1, NEW b \in AnyByte, Genuine(b)
  PROVE  /\ Bytes(Push(q, b)) /\ Len(Push(q, b)) <= Size + 1
         /\ Len(Push(q, b)) > Len(q) => Push(q, b) = Append(q, b)
<1>1. q \in Seq(AnyByte) /\ Len(q) \in Nat /\ Size \in Nat
  BY LenProperties, StreamAssumption DEF Bytes
<1>2. CASE Len(q) > Size
  <2>1. q # <<>>
    BY <1>1, <1>2, NotEmpty
  <2>2. Bytes(Tail(q)) /\ Len(Tail(q)) = Len(q) - 1
    BY <1>1, <2>1, BytesProperties, HeadTailProperties
  <2>3. Push(q, b) = Append(Tail(q), b)
    BY <1>2 DEF Push
  <2>4. Bytes(Append(Tail(q), b)) /\ Len(Append(Tail(q), b)) = Len(Tail(q)) + 1
    BY <2>2, BytesProperties, AppendProperties DEF Bytes
  <2> QED  BY <1>1, <2>2, <2>3, <2>4
<1>3. CASE ~(Len(q) > Size)
  <2>1. Push(q, b) = Append(q, b)
    BY <1>3 DEF Push
  <2>2. Bytes(Append(q, b)) /\ Len(Append(q, b)) = Len(q) + 1
    BY <1>1, BytesProperties, AppendProperties DEF Bytes
  <2> QED  BY <1>1, <1>3, <2>1, <2>2
<1> QED  BY <1>2, <1>3

(* The reader thread keeps the types (reader.cpp:75-91).                    *)
LEMMA ReadTyped == ASSUME Typed, Read PROVE Typed'
<1>1. UNCHANGED <<records, usb_queue, out, connected, reading, parser, packets, misled>>
  BY DEF Read, espVars
<1>2. wire # <<>> /\ Bytes(wire) /\ Bytes(queueTty)
  BY DEF Read, Typed
<1>3. Head(wire) \in AnyByte /\ Genuine(Head(wire)) /\ Bytes(Tail(wire))
  BY <1>2, BytesProperties
<1>4. Len(Tail(wire)) = Len(wire) - 1 /\ Len(wire) \in Nat
  BY <1>2, HeadTailProperties, LenProperties DEF Bytes
<1>5. Bytes(wire') /\ Len(wire') <= RingSize
  BY <1>3, <1>4, StreamAssumption DEF Read, Typed
<1>6. Bytes(queueTty') /\ Len(queueTty') <= Size + 1
  BY <1>2, <1>3, PushProperties DEF Read, Typed
<1>7. dropped' \in BOOLEAN
  BY DEF Read
<1>8. ParserType'
  BY <1>1 DEF Typed, ParserType, Bytes, Genuine, ValueAt, RecordLen
<1>9. Bytes(out)' /\ Bytes(wire)' /\ Bytes(queueTty)'
  BY <1>1, <1>5, <1>6 DEF Typed, Bytes, Genuine, ValueAt, RecordLen
<1> QED  BY <1>1, <1>5, <1>6, <1>7, <1>8, <1>9 DEF Typed

(* What is handed on is a sequence of bytes.                                *)
LEMMA DeliverTyped ==
  ASSUME Typed, NEW type, NEW body \in Seq(AnyByte), Deliver(type, body)
  PROVE  packets' \in Seq(Seq(AnyByte))
BY AppendProperties DEF Deliver, Typed

(* A header names a type and a size; a captured one those of its record.    *)
LEMMA HeaderType ==
  ASSUME Typed, NEW s, Bytes(s), s # <<>>, NEW h \in Headers(s)
  PROVE  h.type \in AnyType /\ h.size \in Nat
<1> DEFINE b == s[1]
<1>1. b.rec \in DOMAIN records
  <2>1. s \in Seq(AnyByte)
    BY DEF Bytes
  <2>2. 1 \in DOMAIN s
    BY <2>1, NotEmpty
  <2> QED  BY <2>2 DEF Bytes, Genuine
<1>2. CASE b.value = "hdr"
  <2>1. h = [type |-> records[b.rec].type, size |-> Len(records[b.rec].body)]
    BY <1>2 DEF Headers
  <2>2. records[b.rec].type \in Types /\ Len(records[b.rec].body) \in 0..MaxBodySize
    BY <1>1, BodyType
  <2> HIDE DEF b
  <2> QED  BY <2>1, <2>2, Layout DEF AnyType
<1>3. CASE b.value # "hdr"
  <2>1. h \in [type : IF b.value = "x" THEN Types ELSE {"other"}, size : 0..(MaxBodySize + 1)]
    BY <1>3 DEF Headers
  <2> QED  BY <2>1, StreamAssumption DEF AnyType
<1> QED  BY <1>2, <1>3

(* The parser thread keeps the types (parser.cpp).                          *)
LEMMA ParseTyped == ASSUME Typed, Parse PROVE Typed'
<1> DEFINE b == Head(queueTty)
<1>1. UNCHANGED <<records, usb_queue, out, connected, wire, reading, dropped, misled>>
  BY DEF Parse, espVars
<1>2. queueTty # <<>> /\ queueTty' = Tail(queueTty) /\ Bytes(queueTty)
  BY DEF Parse, Typed
<1>3. b \in AnyByte /\ Genuine(b) /\ Bytes(Tail(queueTty))
  BY <1>2, BytesProperties
<1>4. Bytes(queueTty') /\ Len(queueTty') <= Size + 1
  <2>1. Len(Tail(queueTty)) = Len(queueTty) - 1 /\ Len(queueTty) \in Nat
    BY <1>2, HeadTailProperties, LenProperties DEF Bytes
  <2> QED  BY <1>2, <1>3, <2>1, StreamAssumption DEF Typed
<1>5. \/ SkipMagic(b) /\ UNCHANGED packets
      \/ ReadHeader(b)
      \/ ReadBody(b)
  BY DEF Parse
<1> HIDE DEF b
<1>6. ParserType' /\ packets' \in Seq(Seq(AnyByte))
  <2>1. CASE SkipMagic(b) /\ UNCHANGED packets
    <3> DEFINE w == Append(parser.window, b)
    <3>1. parser.at = "magic" /\ Bytes(parser.window) /\ Len(parser.window) < 4
      BY <2>1 DEF SkipMagic, Typed, ParserType
    <3>2. Bytes(w) /\ Len(w) = Len(parser.window) + 1 /\ Len(parser.window) \in Nat
      <4>1. Len(parser.window) \in Nat /\ parser.window \in Seq(AnyByte)
        BY <3>1, LenProperties DEF Bytes
      <4>2. \A q, c : Bytes(q) /\ c \in AnyByte /\ Genuine(c) => Bytes(Append(q, c))
        BY BytesProperties
      <4>3. \A q \in Seq(AnyByte), c \in AnyByte : Len(Append(q, c)) = Len(q) + 1
        BY AppendProperties
      <4> QED  BY <1>3, <3>1, <4>1, <4>2, <4>3
    <3> HIDE DEF w
    <3>3. w # <<>> /\ (Bytes(Tail(w)) /\ Len(Tail(w)) = Len(w) - 1)
      <4>1. w \in Seq(AnyByte)
        BY <3>2 DEF Bytes
      <4>2. w # <<>>
        BY <3>2, <4>1, NotEmpty
      <4> QED  BY <3>2, <4>1, <4>2, BytesProperties, HeadTailProperties
    <3>4. \/ parser' = [at |-> "header", head |-> <<>>]
          \/ \E v \in {w, Tail(w)} : Bytes(v) /\ Len(v) < 4
                /\ parser' = [at |-> "magic", window |-> v]
      <4>1. \/ parser' = [at |-> "header", head |-> <<>>]
            \/ parser' = [Skipping EXCEPT !.window = IF Len(w) = 4 THEN Tail(w) ELSE w]
        BY <2>1 DEF SkipMagic, w
      <4>2. parser' = [Skipping EXCEPT !.window = IF Len(w) = 4 THEN Tail(w) ELSE w]
              => parser' = [at |-> "magic", window |-> IF Len(w) = 4 THEN Tail(w) ELSE w]
        BY DEF Skipping
      <4>3. Len(w) < 4 \/ Len(w) = 4
        BY <3>1, <3>2
      <4>4. Len(w) = 4 => Len(Tail(w)) < 4
        <5>1. PICK l : l = Len(Tail(w))
          OBVIOUS
        <5>2. Len(w) \in Nat /\ l = Len(w) - 1
          BY <3>2, <3>3, <5>1
        <5>3. Len(w) = 4 => l < 4
          BY <5>2
        <5> QED  BY <5>1, <5>3
      <4> QED  BY <3>2, <3>3, <4>1, <4>2, <4>3, <4>4
    <3>5. CASE parser' = [at |-> "header", head |-> <<>>]
      <4>1. Bytes(<<>>) /\ Len(<<>>) = 0 /\ <<>> \in Seq(AnyByte)
        BY BytesProperties, EmptySeq
      <4>2. Len(<<>>) < HeaderLen
        BY <4>1, Layout
      <4>3. ParserType'
        BY <1>1, <3>5, <4>1, <4>2, HeaderTyped
      <4> QED  BY <2>1, <4>3 DEF Typed
    <3>6. CASE \E v \in {w, Tail(w)} : Bytes(v) /\ Len(v) < 4
                 /\ parser' = [at |-> "magic", window |-> v]
      <4>1. ParserType'
        BY <1>1, <3>6, SearchTyped
      <4> QED  BY <2>1, <4>1 DEF Typed
    <3> QED  BY <3>4, <3>5, <3>6
  <2>2. CASE ReadHeader(b)
    <3> DEFINE head == Append(parser.head, b)
    <3>1. parser.at = "header" /\ Bytes(parser.head) /\ Len(parser.head) < HeaderLen
      BY <2>2 DEF ReadHeader, Typed, ParserType
    <3>2. /\ Bytes(head) /\ Len(head) = Len(parser.head) + 1 /\ Len(parser.head) \in Nat
          /\ head \in Seq(AnyByte)
      <4>1. Len(parser.head) \in Nat /\ parser.head \in Seq(AnyByte)
        BY <3>1, LenProperties DEF Bytes
      <4>2. \A q, c : Bytes(q) /\ c \in AnyByte /\ Genuine(c) => Bytes(Append(q, c))
        BY BytesProperties
      <4>3. \A q \in Seq(AnyByte), c \in AnyByte :
              Append(q, c) \in Seq(AnyByte) /\ Len(Append(q, c)) = Len(q) + 1
        BY AppendProperties
      <4> QED  BY <1>3, <3>1, <4>1, <4>2, <4>3
    <3> HIDE DEF head
    <3>3. head # <<>>
      BY <3>2, NotEmpty
    <3>4. <<>> \in Seq(AnyByte) /\ Len(<<>>) = 0
      BY EmptySeq
    <3>5. CASE /\ Len(head) < HeaderLen
               /\ parser' = [parser EXCEPT !.head = head] /\ UNCHANGED packets
      <4>1. parser' = [at |-> "header", head |-> head]
        BY <3>1, <3>5 DEF Typed, ParserType
      <4>2. ParserType'
        BY <1>1, <3>2, <3>5, <4>1, HeaderTyped
      <4> QED  BY <3>5, <4>2 DEF Typed
    <3>6. ASSUME NEW h \in Headers(head),
                 \/ h.size > MaxBodySize /\ parser' = Skipping /\ UNCHANGED packets
                 \/ h.size = 0 /\ parser' = Skipping /\ Deliver(h.type, <<>>)
                 \/ /\ h.size \in 1..MaxBodySize
                    /\ parser' = [at |-> "body", type |-> h.type, size |-> h.size, body |-> <<>>]
                    /\ UNCHANGED packets
          PROVE  ParserType' /\ packets' \in Seq(Seq(AnyByte))
      <4>1. h.type \in AnyType /\ h.size \in Nat
        BY <3>2, <3>3, HeaderType
      <4>2. packets' \in Seq(Seq(AnyByte))
        BY <3>4, <3>6, DeliverTyped DEF Typed
      <4>3. CASE parser' = Skipping
        BY <1>1, <4>2, <4>3, SkippingType, SearchTyped DEF Skipping
      <4>4. CASE /\ h.size \in 1..MaxBodySize
                 /\ parser' = [at |-> "body", type |-> h.type, size |-> h.size, body |-> <<>>]
        <5>1. Len(parser'.body) < parser'.size
          BY <3>4, <4>4
        <5>2. ParserType'
          BY <3>4, <4>1, <4>4, <5>1 DEF ParserType
        <5> QED  BY <4>2, <5>2
      <4> QED  BY <3>6, <4>3, <4>4
    <3> QED  BY <2>2, <3>5, <3>6 DEF ReadHeader, head
  <2>3. CASE ReadBody(b)
    <3>1. /\ parser \in [at : {"body"}, type : AnyType, size : 1..MaxBodySize, body : Seq(AnyByte)]
          /\ Len(parser.body) < parser.size
      BY <2>3 DEF ReadBody, Typed, ParserType
    <3>2. parser.body \in Seq(AnyByte) /\ Len(parser.body) \in Nat /\ parser.size \in Nat
      BY <3>1, LenProperties
    <3>3. /\ Append(parser.body, b) \in Seq(AnyByte)
          /\ Len(Append(parser.body, b)) = Len(parser.body) + 1
      BY <1>3, <3>2, AppendProperties
    <3>4. CASE Len(parser.body) + 1 = parser.size
      <4>1. parser' = Skipping /\ Deliver(parser.type, Append(parser.body, b))
        BY <2>3, <3>4 DEF ReadBody
      <4>2. packets' \in Seq(Seq(AnyByte))
        BY <3>3, <4>1, DeliverTyped
      <4> QED  BY <1>1, <4>1, <4>2, SkippingType, SearchTyped DEF Skipping
    <3>5. CASE Len(parser.body) + 1 # parser.size
      <4>1. parser' = [parser EXCEPT !.body = Append(@, b)] /\ UNCHANGED packets
        BY <2>3, <3>5 DEF ReadBody
      <4>2. parser' = [parser EXCEPT !.body = Append(parser.body, b)]
        BY <4>1
      <4> DEFINE c == Append(parser.body, b)
      <4>3. c \in Seq(AnyByte) /\ Len(c) < parser.size
        BY <3>1, <3>2, <3>3, <3>5
      <4> HIDE DEF c
      <4>4. /\ parser' \in [at : {"body"}, type : AnyType, size : 1..MaxBodySize, body : Seq(AnyByte)]
            /\ parser'.body = c /\ parser'.size = parser.size
        BY <3>1, <4>2, <4>3 DEF c
      <4> QED  BY <4>1, <4>3, <4>4 DEF ParserType, Typed
    <3> QED  BY <3>4, <3>5
  <2> QED  BY <1>5, <2>1, <2>2, <2>3
<1>7. Bytes(out)' /\ Bytes(wire)' /\ Bytes(queueTty)'
  BY <1>1, <1>4 DEF Typed, Bytes, Genuine, ValueAt, RecordLen
<1> QED  BY <1>1, <1>4, <1>6, <1>7 DEF Typed

(* Every step keeps the types.                                              *)
LEMMA NextTyped == ASSUME Typed, [Next]_vars PROVE Typed'
<1>1. ASSUME NEW b \in Bodies, log_data("its", b) PROVE Typed'
  BY <1>1, LogDataTyped DEF Types
<1>2. CASE log_data("time", <<>>)
  BY <1>2, LogDataTyped DEF Types
<1>3. CASE UNCHANGED vars
  <2>1. UNCHANGED <<records, usb_queue, out, connected, wire, otmVars>>
    BY <1>3 DEF vars, espVars
  <2>2. ParserType'
    BY <2>1 DEF otmVars, Typed, ParserType, Bytes, Genuine, ValueAt, RecordLen
  <2> QED  BY <2>1, <2>2 DEF otmVars, Typed, Bytes, Genuine, ValueAt, RecordLen
<1> QED  BY <1>1, <1>2, <1>3, UsbTyped, CableTyped, ReadTyped, ParseTyped DEF Next

(* The values of bytes are those a record has, their places in it.          *)
LEMMA TypedIsTypeOK == ASSUME Typed PROVE TypeOK
<1>1. ASSUME NEW b \in AnyByte, Genuine(b) PROVE b \in ByteType
  <2>1. b.rec \in 1..MaxRecords
    <3>1. b.rec \in DOMAIN records /\ DOMAIN records = 1..Len(records) /\ Len(records) \in Nat
      BY <1>1, LenProperties DEF Genuine, Typed
    <3> QED  BY <3>1, StreamAssumption DEF Typed
  <2>2. b.at \in 1..(MaxBodySize + HeadEnd)
    <3>1. /\ RecordLen(b.rec) \in Nat /\ RecordLen(b.rec) <= MaxBodySize + HeadEnd
          /\ b.at \in 1..RecordLen(b.rec)
      BY <1>1, RecordBytesAre DEF Genuine
    <3> QED  BY <3>1, Layout
  <2> QED  BY <1>1, <2>1, <2>2 DEF AnyByte, ByteType, ValueType
<1>2. ASSUME NEW q, Bytes(q) PROVE \A i \in DOMAIN q : q[i] \in ByteType
  <2>1. \A i \in DOMAIN q : q[i] \in AnyByte /\ Genuine(q[i])
    BY <1>2, ElementOfSeq, LenProperties DEF Bytes
  <2> QED  BY <1>1, <2>1
<1>3. /\ parser.at \in {"magic", "header", "body"}
      /\ parser.at = "magic" => Len(parser.window) < 4
      /\ parser.at = "header" => Len(parser.head) < HeaderLen
      /\ parser.at = "body" => Len(parser.body) < parser.size
  BY DEF Typed, ParserType
<1> QED  BY <1>2, <1>3 DEF Typed, TypeOK

(* The types hold, the queues keep their bounds and the parser its size.    *)
THEOREM TypeCorrect == Spec => []TypeOK
<1>1. Init => Typed
  BY InitTyped
<1>2. Typed /\ [Next]_vars => Typed'
  BY NextTyped
<1>3. Typed => TypeOK
  BY TypedIsTypeOK
<1> QED  BY <1>1, <1>2, <1>3, PTL DEF Spec

-----------------------------------------------------------------------------
(* The stream. *)

(* Everything between the USB task and the parser is one sequence of bytes. *)
LEMMA FlightType ==
  ASSUME Typed
  PROVE  /\ InFlight \in Seq(AnyByte) /\ DOMAIN InFlight = 1..Len(InFlight)
         /\ Len(queueTty) \in Nat /\ Len(wire) \in Nat /\ Len(out) \in Nat
         /\ Len(InFlight) = Len(queueTty) + Len(wire) + Len(out)
         /\ \A i \in 1..(Len(queueTty) + Len(wire) + Len(out)) : InFlight[i] =
              IF i <= Len(queueTty) THEN queueTty[i]
              ELSE IF i <= Len(queueTty) + Len(wire) THEN wire[i - Len(queueTty)]
              ELSE out[i - Len(queueTty) - Len(wire)]
         /\ Gap \in Nat
         /\ InFlight # <<>> <=> Len(InFlight) > 0
         /\ queueTty # <<>> <=> Len(queueTty) > 0
         /\ wire \o out # <<>> <=> Len(wire) + Len(out) > 0
         /\ \A i \in DOMAIN InFlight : InFlight[i] \in AnyByte /\ Genuine(InFlight[i])
<1>1. queueTty \in Seq(AnyByte) /\ wire \in Seq(AnyByte) /\ out \in Seq(AnyByte)
  BY DEF Typed, Bytes
<1>2. Len(queueTty) \in Nat /\ Len(wire) \in Nat /\ Len(out) \in Nat
  BY <1>1, LenProperties
<1>3. /\ InFlight \in Seq(AnyByte)
      /\ Len(InFlight) = Len(queueTty) + Len(wire) + Len(out)
      /\ \A i \in 1..(Len(queueTty) + Len(wire) + Len(out)) : InFlight[i] =
           IF i <= Len(queueTty) THEN queueTty[i]
           ELSE IF i <= Len(queueTty) + Len(wire) THEN wire[i - Len(queueTty)]
           ELSE out[i - Len(queueTty) - Len(wire)]
  BY <1>1, JoinProperties DEF InFlight
<1>4. DOMAIN InFlight = 1..Len(InFlight) /\ (InFlight # <<>> <=> Len(InFlight) > 0)
  BY <1>3, NotEmpty
<1>5. queueTty # <<>> <=> Len(queueTty) > 0
  BY <1>1, NotEmpty
<1>6. wire \o out # <<>> <=> Len(wire) + Len(out) > 0
  <2>1. wire \o out \in Seq(AnyByte) /\ Len(wire \o out) = Len(wire) + Len(out)
    BY <1>1, ConcatProperties
  <2> QED  BY <2>1, NotEmpty
<1>7. Gap \in Nat
  BY <1>2 DEF Gap
<1>8. ASSUME NEW i \in DOMAIN InFlight PROVE InFlight[i] \in AnyByte /\ Genuine(InFlight[i])
  <2>1. InFlight[i] \in AnyByte
    BY <1>3, <1>4, <1>8, ElementOfSeq
  <2>2. /\ DOMAIN queueTty = 1..Len(queueTty) /\ DOMAIN wire = 1..Len(wire)
        /\ DOMAIN out = 1..Len(out)
    BY <1>1, LenProperties
  <2>3. i \in 1..(Len(queueTty) + Len(wire) + Len(out))
    BY <1>3, <1>4
  <2>4. \/ i \in DOMAIN queueTty /\ InFlight[i] = queueTty[i]
        \/ i - Len(queueTty) \in DOMAIN wire /\ InFlight[i] = wire[i - Len(queueTty)]
        \/ /\ i - Len(queueTty) - Len(wire) \in DOMAIN out
           /\ InFlight[i] = out[i - Len(queueTty) - Len(wire)]
    BY <1>2, <1>3, <2>2, <2>3
  <2> QED  BY <2>1, <2>4 DEF Typed, Bytes
<1> QED  BY <1>2, <1>3, <1>4, <1>5, <1>6, <1>7, <1>8

(* A chain stays one when no record is captured.                            *)
LEMMA ChainStays ==
  ASSUME UNCHANGED records, NEW s, NEW g, InFlight' = s, Gap' = g, Chain(s, g)
  PROVE  Chain(InFlight, Gap)'
<1>1. \A i \in DOMAIN InFlight' : Genuine(InFlight[i])'
  BY DEF Chain, Genuine, ValueAt, RecordLen
<1>2. \A i, j \in DOMAIN InFlight' : i < j => Earlier(InFlight[i], InFlight[j])'
  BY DEF Chain, Earlier
<1>3. \A i \in 1..(Len(InFlight') - 1) : i # Gap' => Follows(InFlight[i], InFlight[i + 1])'
  BY DEF Chain, Follows, Ends, RecordLen
<1> QED  BY <1>1, <1>2, <1>3 DEF Chain

(* What the parser searches depends on the next byte alone, and stays when  *)
(* no record is captured.                                                   *)
LEMMA SearchNext ==
  ASSUME NEW w, NEW s, NEW t, Searches(w, s), s # <<>>, t # <<>>, t[1] = s[1]
  PROVE  Searches(w, t)
BY DEF Searches
LEMMA SearchStays ==
  ASSUME UNCHANGED records, NEW w, NEW s, parser'.window = w, InFlight' = s, Searches(w, s)
  PROVE  Searches(parser.window, InFlight)'
BY DEF Searches, Follows, Ends, RecordLen, Ambiguous
LEMMA WindowStays ==
  ASSUME NEW w, parser'.window = w, WindowBefore(w),
         \A j \in DOMAIN usb_queue' : \E k \in DOMAIN usb_queue : usb_queue'[j] = usb_queue[k]
  PROVE  WindowBefore(parser.window)'
BY DEF WindowBefore

(* In front of the magic number of a record, with nothing in the window.    *)
LEMMA SearchBegins ==
  ASSUME UNCHANGED records, parser' = Skipping, NEW t, InFlight' = t,
         (queueTty' # <<>> \/ reading') /\ t # <<>>
           => t[1].at = 1 \/ ~Ambiguous(t[1].rec)
  PROVE  ParserFits'
<1>1. parser'.at = "magic" /\ parser'.window = <<>> /\ Len(<<>>) = 0 /\ DOMAIN <<>> = {}
  BY EmptySeq DEF Skipping
<1>2. WindowBefore(parser.window)'
  BY <1>1 DEF WindowBefore
<1>3. ASSUME queueTty' # <<>> \/ reading' PROVE Searches(parser.window, InFlight)'
  <2>1. Searches(<<>>, t)
    BY <1>1, <1>3 DEF Searches
  <2> QED  BY <1>1, <2>1, SearchStays
<1> QED  BY <1>1, <1>2, <1>3 DEF ParserFits

(* A step that leaves the packets and the order of the queue alone and adds *)
(* no bytes keeps what relates the three.                                   *)
LEMMA Fewer ==
  ASSUME UNCHANGED <<records, usb_queue, packets>>,
         \A j \in DOMAIN InFlight' : \E k \in DOMAIN InFlight : InFlight'[j] = InFlight[k],
         QueueBehind, PacketsBefore, CapturedInOrder
  PROVE  QueueBehind' /\ PacketsBefore' /\ CapturedInOrder'
<1>1. QueueBehind'
  BY DEF QueueBehind
<1>2. PacketsBefore'
  BY DEF PacketsBefore
<1>3. CapturedInOrder'
  BY DEF CapturedInOrder, BodyBytes
<1> QED  BY <1>1, <1>2, <1>3

(* A step that only moves bytes on keeps the invariant.                     *)
LEMMA OnlyMoves ==
  ASSUME UNCHANGED <<records, usb_queue, packets, parser>>, InFlight' = InFlight,
         Gap' = Gap, reading' = reading,
         reading \/ ((wire \o out)' = wire \o out /\ queueTty' = queueTty),
         StreamInv
  PROVE  StreamInv'
<1>1. QueueBehind' /\ PacketsBefore' /\ CapturedInOrder'
  BY Fewer DEF StreamInv
<1>2. Chain(InFlight, Gap)'
  BY ChainStays DEF StreamInv, LineWhole
<1>3. LineWhole'
  BY <1>2 DEF StreamInv, LineWhole, Ends, RecordLen
<1>4. ASSUME queueTty' # <<>> \/ reading', parser.at = "magic"
      PROVE  Searches(parser.window, InFlight)' /\ WindowBefore(parser.window)'
  <2>1. Searches(parser.window, InFlight) /\ WindowBefore(parser.window)
    BY <1>4 DEF StreamInv, ParserFits
  <2> QED  BY <2>1, SearchStays DEF WindowBefore
<1>5. ParserFits'
  BY <1>4 DEF StreamInv, ParserFits, Heads, Reads, BodyBytes
<1> QED  BY <1>1, <1>3, <1>5 DEF StreamInv

(* The USB task and the reader pass bytes on.                               *)
LEMMA MovesStream ==
  ASSUME Typed, StreamInv, UsbWrite \/ (Read /\ ~dropped') \/ Plug
  PROVE  StreamInv'
<1>0. queueTty \in Seq(AnyByte) /\ wire \in Seq(AnyByte) /\ out \in Seq(AnyByte)
  BY DEF Typed, Bytes
<1>1. CASE UsbWrite
  <2>1. wire' \o out' = wire \o out
    BY <1>0, <1>1, MoveOn DEF UsbWrite
  <2>2. UNCHANGED <<records, usb_queue, packets, parser, reading, queueTty>>
    BY <1>1 DEF UsbWrite, otmVars
  <2> QED  BY <2>1, <2>2, OnlyMoves DEF InFlight, Gap
<1>2. CASE Read /\ ~dropped'
  <2>1. UNCHANGED <<records, usb_queue, out, packets, parser, reading>> /\ reading
    BY <1>2 DEF Read, espVars
  <2>2. wire # <<>> /\ wire' = Tail(wire) /\ queueTty' = Push(queueTty, Head(wire))
    BY <1>2 DEF Read
  <2>3. Head(wire) \in AnyByte /\ Genuine(Head(wire))
    BY <2>2, BytesProperties DEF Typed
  <2>4. queueTty' = Append(queueTty, Head(wire))
    <3>1. Bytes(Push(queueTty, Head(wire)))
      BY <2>3, PushProperties DEF Typed
    <3>2. Len(Push(queueTty, Head(wire))) \in Nat /\ Len(queueTty) \in Nat
      BY <1>0, <3>1, LenProperties DEF Bytes
    <3>3. ~(Len(queueTty') <= Len(queueTty))
      BY <1>2 DEF Read
    <3>4. Len(Push(queueTty, Head(wire))) > Len(queueTty)
      BY <2>2, <3>2, <3>3
    <3> QED  BY <2>2, <2>3, <3>4, PushProperties DEF Typed
  <2>5. /\ Append(queueTty, Head(wire)) \in Seq(AnyByte) /\ Tail(wire) \in Seq(AnyByte)
        /\ Append(queueTty, Head(wire)) \o Tail(wire) = queueTty \o wire
    BY <1>0, <2>2, MoveOn
  <2>6. /\ queueTty' \o (wire' \o out) = (queueTty' \o wire') \o out
        /\ queueTty \o (wire \o out) = (queueTty \o wire) \o out
    <3>1. queueTty' \in Seq(AnyByte) /\ wire' \in Seq(AnyByte)
      BY <2>2, <2>4, <2>5
    <3>2. queueTty' \o (wire' \o out) = (queueTty' \o wire') \o out
      BY <1>0, <3>1, Associative
    <3>3. queueTty \o (wire \o out) = (queueTty \o wire) \o out
      BY <1>0, Associative
    <3> QED  BY <3>2, <3>3
  <2>7. InFlight' = InFlight
    BY <2>1, <2>2, <2>4, <2>5, <2>6 DEF InFlight
  <2> QED  BY <2>1, <2>7, OnlyMoves DEF Gap
<1>3. CASE Plug
  <2>1. UNCHANGED <<records, usb_queue, packets, parser, reading, queueTty, wire, out>>
    BY <1>3 DEF Plug, espVars, otmVars
  <2> QED  BY <2>1, OnlyMoves DEF InFlight, Gap
<1> QED  BY <1>1, <1>2, <1>3

(* A chain stays one when a record is captured behind all its bytes.        *)
LEMMA ChainGrows ==
  ASSUME Typed, NEW x \in RecordType, records' = Append(records, x),
         NEW s \in Seq(AnyByte), NEW g, Chain(s, g), InFlight' = s, Gap' = g
  PROVE  Chain(InFlight, Gap)'
<1>1. /\ Len(s) \in Nat /\ DOMAIN s = 1..Len(s)
      /\ \A i \in 1..(Len(s) - 1) : i \in DOMAIN s
  BY LenProperties
<1>2. \A b : Genuine(b) => Genuine(b)' /\ (Ends(b)' <=> Ends(b))
  BY RecordsGrow
<1>3. \A b, c : Genuine(b) /\ Follows(b, c) => Follows(b, c)'
  <2> SUFFICES ASSUME NEW b, NEW c, Genuine(b), Follows(b, c) PROVE Follows(b, c)'
    OBVIOUS
  <2>1. Ends(b)' <=> Ends(b)
    BY <1>2
  <2> QED  BY <2>1 DEF Follows
<1>4. /\ \A i \in DOMAIN s : Genuine(s[i])'
      /\ \A i, j \in DOMAIN s : i < j => Earlier(s[i], s[j])
      /\ \A i \in 1..(Len(s) - 1) : i # g => Follows(s[i], s[i + 1])'
  BY <1>1, <1>2, <1>3 DEF Chain
<1>5. \A i \in DOMAIN InFlight' : Genuine(InFlight[i])'
  BY <1>4 DEF Genuine, ValueAt, RecordLen
<1>6. \A i, j \in DOMAIN InFlight' : i < j => Earlier(InFlight[i], InFlight[j])'
  BY <1>4 DEF Earlier
<1>7. \A i \in 1..(Len(InFlight') - 1) : i # Gap' => Follows(InFlight[i], InFlight[i + 1])'
  BY <1>4 DEF Follows, Ends, RecordLen
<1> QED  BY <1>5, <1>6, <1>7 DEF Chain

(* So do the bytes in the window, in front of the same.                     *)
LEMMA SearchGrows ==
  ASSUME Typed, NEW x \in RecordType, records' = Append(records, x),
         NEW w, Bytes(w), NEW s, s # <<>> => Genuine(s[1]),
         parser'.window = w, InFlight' = s, Searches(w, s)
  PROVE  Searches(parser.window, InFlight)'
<1>1. /\ Len(w) \in Nat /\ DOMAIN w = 1..Len(w)
      /\ \A i \in 1..(Len(w) - 1) : i \in DOMAIN w
      /\ w # <<>> => Len(w) \in DOMAIN w
  <2>1. w \in Seq(AnyByte)
    BY DEF Bytes
  <2> QED  BY <2>1, NotEmpty
<1>2. /\ \A b : Genuine(b) => (Ends(b)' <=> Ends(b))
      /\ \A b : Genuine(b) => b.rec \in DOMAIN records
      /\ \A r \in DOMAIN records : Ambiguous(r)' <=> Ambiguous(r)
  BY RecordsGrow DEF Genuine
<1>3. \A b, c : Genuine(b) /\ Follows(b, c) => Follows(b, c)'
  <2> SUFFICES ASSUME NEW b, NEW c, Genuine(b), Follows(b, c) PROVE Follows(b, c)'
    OBVIOUS
  <2>1. Ends(b)' <=> Ends(b)
    BY <1>2
  <2> QED  BY <2>1 DEF Follows
<1>4. \A i \in DOMAIN w : Genuine(w[i])
  BY DEF Bytes
<1>5. /\ \A i \in 1..(Len(w) - 1) : Follows(w[i], w[i + 1])'
      /\ w # <<>> => IF s = <<>> THEN Ends(w[Len(w)])' ELSE Follows(w[Len(w)], s[1])'
  BY <1>1, <1>2, <1>3, <1>4 DEF Searches
<1>6. /\ \A i \in DOMAIN w : w[i].at <= 3 \/ ~Ambiguous(w[i].rec)'
      /\ s # <<>> => \/ s[1].at = 1 \/ ~Ambiguous(s[1].rec)'
                     \/ s[1].at <= 4 /\ Len(w) >= s[1].at - 1
  BY <1>2, <1>4 DEF Searches
<1> QED  BY <1>5, <1>6 DEF Searches, Follows, Ends, RecordLen, Ambiguous

(* A captured record comes behind all others (main.c:237-243).              *)
LEMMA LogDataStream ==
  ASSUME Typed, NEW type \in Types, NEW body \in Bodies \cup {<<>>},
         log_data(type, body), StreamInv
  PROVE  StreamInv'
<1>0. PICK stamp \in Stamps :
        records' = Append(records, [type |-> type, stamp |-> stamp, body |-> body])
  BY DEF log_data
<1> DEFINE x == [type |-> type, stamp |-> stamp, body |-> body]
           n == Len(records')
<1>1. x \in RecordType /\ records' = Append(records, x)
  BY <1>0 DEF RecordType
<1> HIDE DEF x
<1>2. /\ DOMAIN records' = DOMAIN records \cup {n}
      /\ \A r \in DOMAIN records : /\ r < n /\ r \in DOMAIN records' /\ records'[r] = records[r]
                                   /\ BodyBytes(r)' = BodyBytes(r)
      /\ \A b : Genuine(b) => Genuine(b)' /\ (Ends(b)' <=> Ends(b))
  BY <1>1, RecordsGrow
<1>3. UNCHANGED <<out, connected, wire, reading, queueTty, parser, packets>>
  BY DEF log_data, otmVars
<1>4. InFlight' = InFlight /\ Gap' = Gap
  BY <1>3 DEF InFlight, Gap
<1>5. /\ \A i \in DOMAIN InFlight : Genuine(InFlight[i]) /\ InFlight[i].rec \in DOMAIN records
      /\ DOMAIN InFlight = 1..Len(InFlight) /\ Len(InFlight) \in Nat
      /\ (InFlight # <<>> <=> Len(InFlight) > 0)
  BY FlightType, LenProperties DEF Genuine
<1>6. LineWhole'
  <2>1. /\ InFlight \in Seq(AnyByte) /\ Gap \in Nat /\ Chain(InFlight, Gap)
    BY FlightType DEF StreamInv, LineWhole
  <2>6. Chain(InFlight, Gap)'
    BY <1>1, <1>4, <2>1, ChainGrows
  <2>7. ASSUME InFlight # <<>>, reading \/ wire \o out # <<>>
        PROVE  InFlight[Len(InFlight)].at = HeadEnd + Len(records'[InFlight[Len(InFlight)].rec].body)
    <3>1. Ends(InFlight[Len(InFlight)])
      BY <2>7 DEF StreamInv, LineWhole
    <3>2. InFlight[Len(InFlight)].rec \in DOMAIN records
      BY <1>5, <2>7
    <3> QED  BY <1>2, <3>1, <3>2 DEF Ends, RecordLen
  <2> QED  BY <1>3, <1>4, <2>6, <2>7 DEF LineWhole, Ends, RecordLen
<1>7. QueueBehind'
  <2>1. /\ usb_queue \in Seq(Nat) /\ n \in Nat
        /\ \A i \in DOMAIN usb_queue : usb_queue[i] < n
    BY <1>1, <1>2, RecordsGrow DEF Typed
  <2>2. \A j \in DOMAIN InFlight : InFlight[j].rec < n
    BY <1>2, <1>5
  <2>3. CASE usb_queue' = usb_queue
    BY <1>4, <2>3 DEF StreamInv, QueueBehind
  <2>4. CASE usb_queue' = Append(usb_queue, n)
    <3> HIDE DEF n
    <3>1. /\ Len(usb_queue) \in Nat /\ DOMAIN usb_queue = 1..Len(usb_queue)
          /\ usb_queue' \in Seq(Nat) /\ Len(usb_queue') = Len(usb_queue) + 1
          /\ \A i \in 1..Len(usb_queue) : usb_queue'[i] = usb_queue[i]
          /\ usb_queue'[Len(usb_queue) + 1] = n
      BY <2>1, <2>4, AppendProperties, LenProperties
    <3>2. DOMAIN usb_queue' = 1..(Len(usb_queue) + 1)
      BY <3>1, LenProperties
    <3>3. \A i \in DOMAIN usb_queue' :
            \/ i \in DOMAIN usb_queue /\ usb_queue'[i] = usb_queue[i]
            \/ i = Len(usb_queue) + 1 /\ usb_queue'[i] = n
      BY <3>1, <3>2
    <3>4. \A i, j \in DOMAIN usb_queue' : i < j => usb_queue'[i] < usb_queue'[j]
      <4> SUFFICES ASSUME NEW i \in DOMAIN usb_queue', NEW j \in DOMAIN usb_queue', i < j
                   PROVE  usb_queue'[i] < usb_queue'[j]
        OBVIOUS
      <4>1. i \in DOMAIN usb_queue /\ usb_queue'[i] = usb_queue[i]
        BY <3>1, <3>2
      <4>2. CASE j \in DOMAIN usb_queue /\ usb_queue'[j] = usb_queue[j]
        BY <4>1, <4>2 DEF StreamInv, QueueBehind
      <4>3. CASE usb_queue'[j] = n
        BY <2>1, <4>1, <4>3
      <4> QED  BY <3>3, <4>2, <4>3
    <3>5. \A i \in DOMAIN usb_queue', j \in DOMAIN InFlight : InFlight[j].rec < usb_queue'[i]
      <4> SUFFICES ASSUME NEW i \in DOMAIN usb_queue', NEW j \in DOMAIN InFlight
                   PROVE  InFlight[j].rec < usb_queue'[i]
        OBVIOUS
      <4>1. CASE i \in DOMAIN usb_queue /\ usb_queue'[i] = usb_queue[i]
        BY <4>1 DEF StreamInv, QueueBehind
      <4>2. CASE usb_queue'[i] = n
        BY <2>2, <4>2
      <4> QED  BY <3>3, <4>1, <4>2
    <3> QED  BY <1>4, <3>4, <3>5 DEF QueueBehind
  <2> QED  BY <2>3, <2>4 DEF log_data
<1>8. ParserFits'
  <2>1. ASSUME InFlight # <<>>
        PROVE  /\ InFlight[1].rec \in DOMAIN records
               /\ records'[InFlight[1].rec] = records[InFlight[1].rec]
    <3>1. 1 \in DOMAIN InFlight
      BY <1>5, <2>1
    <3>2. InFlight[1].rec \in DOMAIN records
      BY <1>5, <3>1
    <3> QED  BY <1>2, <3>2
  <2>2. ASSUME queueTty # <<>> \/ reading, parser.at = "magic"
        PROVE  Searches(parser.window, InFlight)' /\ WindowBefore(parser.window)'
    <3> DEFINE w == parser.window
    <3>1. Bytes(w) /\ Searches(w, InFlight) /\ WindowBefore(w)
      BY <2>2 DEF StreamInv, ParserFits, Typed, ParserType
    <3>2. InFlight # <<>> => Genuine(InFlight[1])
      BY <1>5
    <3>3. Searches(parser.window, InFlight)'
      BY <1>1, <1>3, <1>4, <3>1, <3>2, SearchGrows
    <3>4. \A i \in DOMAIN w : w[i].rec < n
      BY <1>2, <3>1 DEF Bytes, Genuine
    <3>5. \A j \in DOMAIN usb_queue' :
            usb_queue'[j] = n \/ \E k \in DOMAIN usb_queue : usb_queue'[j] = usb_queue[k]
      <4>1. CASE usb_queue' = usb_queue
        BY <4>1
      <4>2. CASE usb_queue' = Append(usb_queue, n)
        <5>1. n \in Nat /\ usb_queue \in Seq(Nat)
          BY <1>1, RecordsGrow DEF Typed
        <5> HIDE DEF n
        <5>2. /\ Len(usb_queue) \in Nat /\ DOMAIN usb_queue = 1..Len(usb_queue)
              /\ usb_queue' \in Seq(Nat) /\ Len(usb_queue') = Len(usb_queue) + 1
              /\ \A i \in 1..Len(usb_queue) : usb_queue'[i] = usb_queue[i]
              /\ usb_queue'[Len(usb_queue) + 1] = n
          BY <4>2, <5>1, AppendProperties, LenProperties
        <5>3. DOMAIN usb_queue' = 1..(Len(usb_queue) + 1)
          BY <5>2, LenProperties
        <5> QED  BY <5>2, <5>3
      <4> QED  BY <4>1, <4>2 DEF log_data
    <3>6. WindowBefore(parser.window)'
      BY <1>3, <3>1, <3>4, <3>5 DEF WindowBefore
    <3> QED  BY <3>3, <3>6
  <2> QED  BY <1>3, <1>4, <2>1, <2>2 DEF StreamInv, ParserFits, Heads, Reads, BodyBytes
<1>9. PacketsBefore'
  <2> SUFFICES ASSUME NEW i \in DOMAIN packets
               PROVE  /\ packets[i] # <<>>
                      /\ \A j \in DOMAIN InFlight : packets[i][1].rec < InFlight[j].rec
                      /\ \A j \in DOMAIN usb_queue' : packets[i][1].rec < usb_queue'[j]
                      /\ packets[i][1].rec \in DOMAIN records'
    BY <1>3, <1>4 DEF PacketsBefore
  <2>1. /\ packets[i] # <<>>
        /\ \A j \in DOMAIN InFlight : packets[i][1].rec < InFlight[j].rec
        /\ \A j \in DOMAIN usb_queue : packets[i][1].rec < usb_queue[j]
        /\ packets[i][1].rec \in DOMAIN records
    BY DEF StreamInv, PacketsBefore
  <2>2. packets[i][1].rec < n /\ packets[i][1].rec \in DOMAIN records'
    BY <1>2, <2>1
  <2>3. ASSUME NEW j \in DOMAIN usb_queue'
        PROVE  usb_queue'[j] = n \/ (j \in DOMAIN usb_queue /\ usb_queue'[j] = usb_queue[j])
    <3>1. CASE usb_queue' = usb_queue
      BY <2>3, <3>1
    <3>2. CASE usb_queue' = Append(usb_queue, n)
      <4> HIDE DEF n
      <4>0. n \in Nat
        BY <1>1, RecordsGrow DEF n
      <4>1. /\ Len(usb_queue) \in Nat /\ DOMAIN usb_queue = 1..Len(usb_queue)
            /\ usb_queue' \in Seq(Nat) /\ Len(usb_queue') = Len(usb_queue) + 1
            /\ \A k \in 1..Len(usb_queue) : usb_queue'[k] = usb_queue[k]
            /\ usb_queue'[Len(usb_queue) + 1] = n
        BY <3>2, <4>0, AppendProperties, LenProperties DEF Typed
      <4>2. DOMAIN usb_queue' = 1..(Len(usb_queue) + 1)
        BY <4>1, LenProperties
      <4> QED  BY <2>3, <4>1, <4>2
    <3> QED  BY <3>1, <3>2 DEF log_data
  <2> QED  BY <2>1, <2>2, <2>3
<1>10. CapturedInOrder'
  <2>1. /\ \A i \in DOMAIN packets :
             \E r \in DOMAIN records : records[r].type = "its" /\ packets[i] = BodyBytes(r)
        /\ \A i, j \in DOMAIN packets : i < j => packets[i][1].rec < packets[j][1].rec
    BY DEF StreamInv, CapturedInOrder
  <2>2. ASSUME NEW i \in DOMAIN packets
        PROVE  \E r \in DOMAIN records' : records'[r].type = "its" /\ packets[i] = BodyBytes(r)'
    <3>1. PICK r \in DOMAIN records : records[r].type = "its" /\ packets[i] = BodyBytes(r)
      BY <2>1
    <3> QED  BY <1>2, <3>1
  <2> QED  BY <1>3, <2>1, <2>2 DEF CapturedInOrder, BodyBytes
<1> QED  BY <1>6, <1>7, <1>8, <1>9, <1>10 DEF StreamInv

(* The USB task takes the oldest record (main.c:161-170).                   *)
LEMMA ReceiveStream ==
  ASSUME Typed, StreamInv, UsbReceive PROVE StreamInv'
<1> DEFINE r == Head(usb_queue)
<1>1. /\ UNCHANGED <<records, connected, wire, reading, queueTty, parser, packets>>
      /\ out = <<>> /\ usb_queue # <<>> /\ usb_queue' = Tail(usb_queue)
  BY DEF UsbReceive, otmVars
<1>2. /\ Tail(usb_queue) \in Seq(Nat) /\ Len(Tail(usb_queue)) = Len(usb_queue) - 1
      /\ \A i \in 1..Len(Tail(usb_queue)) : Tail(usb_queue)[i] = usb_queue[i + 1]
      /\ Len(usb_queue) \in Nat /\ Len(usb_queue) > 0
      /\ DOMAIN usb_queue = 1..Len(usb_queue) /\ Head(usb_queue) = usb_queue[1]
  BY <1>1, HeadTailProperties, NotEmpty DEF Typed
<1>3. DOMAIN usb_queue' = 1..(Len(usb_queue) - 1)
  BY <1>1, <1>2, LenProperties
<1>4. \A i \in DOMAIN usb_queue' : i + 1 \in DOMAIN usb_queue /\ usb_queue'[i] = usb_queue[i + 1]
  BY <1>1, <1>2, <1>3
<1>5. r \in DOMAIN records /\ r \in Nat
  <2>1. 1 \in DOMAIN usb_queue
    BY <1>2
  <2>2. usb_queue[1] \in Nat
    BY <1>2, <2>1, ElementOfSeq DEF Typed
  <2> QED  BY <1>2, <2>1, <2>2 DEF Typed
<1>6. \A i \in DOMAIN usb_queue' : r < usb_queue'[i]
  <2> SUFFICES ASSUME NEW i \in DOMAIN usb_queue' PROVE r < usb_queue'[i]
    OBVIOUS
  <2>1. 1 \in DOMAIN usb_queue /\ i + 1 \in DOMAIN usb_queue /\ 1 < i + 1
    BY <1>2, <1>3, <1>4
  <2>2. usb_queue[1] < usb_queue[i + 1]
    BY <2>1 DEF StreamInv, QueueBehind
  <2> QED  BY <1>2, <1>4, <2>2
<1>7. \A j \in DOMAIN InFlight : InFlight[j].rec < r
  <2>1. 1 \in DOMAIN usb_queue
    BY <1>2
  <2> QED  BY <1>2, <2>1 DEF StreamInv, QueueBehind
<1>8. \A i \in DOMAIN packets : packets[i][1].rec < r
  <2>1. 1 \in DOMAIN usb_queue
    BY <1>2
  <2> QED  BY <1>2, <2>1 DEF StreamInv, PacketsBefore
<1>9. \A i, j \in DOMAIN usb_queue' : i < j => usb_queue'[i] < usb_queue'[j]
  <2> SUFFICES ASSUME NEW i \in DOMAIN usb_queue', NEW j \in DOMAIN usb_queue', i < j
               PROVE  usb_queue'[i] < usb_queue'[j]
    OBVIOUS
  <2>1. i + 1 < j + 1
    BY <1>2, <1>3
  <2> QED  BY <1>4, <2>1 DEF StreamInv, QueueBehind
<1> HIDE DEF r
<1>10. CapturedInOrder'
  BY <1>1 DEF StreamInv, CapturedInOrder, BodyBytes
<1>11. \A i \in DOMAIN packets, j \in DOMAIN usb_queue' : packets[i][1].rec < usb_queue'[j]
  BY <1>4 DEF StreamInv, PacketsBefore
<1>12. Gap' = Gap
  BY <1>1 DEF Gap
<1>13. CASE ~connected
  <2>1. InFlight' = InFlight /\ out' = out
    BY <1>1, <1>13 DEF UsbReceive, InFlight
  <2>2. \A i \in DOMAIN usb_queue', j \in DOMAIN InFlight : InFlight[j].rec < usb_queue'[i]
    BY <1>4 DEF StreamInv, QueueBehind
  <2>3. QueueBehind'
    BY <1>9, <2>1, <2>2 DEF QueueBehind
  <2>4. PacketsBefore'
    BY <1>1, <1>11, <2>1 DEF StreamInv, PacketsBefore
  <2>5. Chain(InFlight, Gap)'
    BY <1>1, <1>12, <2>1, ChainStays DEF StreamInv, LineWhole
  <2>6. LineWhole'
    BY <1>1, <2>1, <2>5 DEF StreamInv, LineWhole, Ends, RecordLen
  <2>7. ParserFits'
    <3>1. ASSUME queueTty # <<>> \/ reading, parser.at = "magic"
          PROVE  Searches(parser.window, InFlight)' /\ WindowBefore(parser.window)'
      <4>1. Searches(parser.window, InFlight) /\ WindowBefore(parser.window)
        BY <3>1 DEF StreamInv, ParserFits
      <4> QED  BY <1>1, <1>4, <2>1, <4>1, SearchStays, WindowStays
    <3> QED  BY <1>1, <2>1, <3>1 DEF StreamInv, ParserFits, Heads, Reads, BodyBytes
  <2> QED  BY <1>10, <2>3, <2>4, <2>6, <2>7 DEF StreamInv
<1>14. CASE connected
  <2> DEFINE s == InFlight
             t == s \o RecordBytes(r)
  <2>1. out' = RecordBytes(r)
    BY <1>14 DEF UsbReceive, r
  <2>2. /\ s \in Seq(AnyByte) /\ Chain(s, Gap) /\ Gap \in Nat
        /\ Len(s) = Len(queueTty) + Len(wire) /\ Len(queueTty) \in Nat /\ Len(wire) \in Nat
        /\ DOMAIN s = 1..Len(s) /\ (s # <<>> <=> Len(s) > 0)
        /\ (wire \o out # <<>> <=> Len(wire) > 0)
        /\ (queueTty # <<>> <=> Len(queueTty) > 0)
    <3>1. Len(out) = 0
      BY <1>1, EmptySeq
    <3>2. Chain(s, Gap)
      BY DEF StreamInv, LineWhole
    <3>3. /\ s \in Seq(AnyByte) /\ Gap \in Nat /\ DOMAIN s = 1..Len(s)
          /\ Len(s) = Len(queueTty) + Len(wire) + Len(out)
          /\ Len(queueTty) \in Nat /\ Len(wire) \in Nat /\ Len(out) \in Nat
          /\ (s # <<>> <=> Len(s) > 0) /\ (queueTty # <<>> <=> Len(queueTty) > 0)
          /\ (wire \o out # <<>> <=> Len(wire) + Len(out) > 0)
      BY FlightType
    <3> QED  BY <3>1, <3>2, <3>3
  <2>3. s = <<>> \/ Ends(s[Len(s)]) \/ Gap = Len(s)
    <3>1. CASE reading \/ wire \o out # <<>>
      BY <3>1 DEF StreamInv, LineWhole
    <3>2. CASE ~(reading \/ wire \o out # <<>>)
      <4>1. Len(wire) = 0
        BY <2>2, <3>2
      <4> QED  BY <2>2, <3>2, <4>1 DEF Gap
    <3> QED  BY <3>1, <3>2
  <2>4. \A i \in DOMAIN s : s[i].rec < r
    BY <1>7
  <2> HIDE DEF s
  <2>5. /\ t \in Seq(AnyByte) /\ Chain(t, Gap) /\ t # <<>>
        /\ t[1] = (IF s = <<>> THEN Byte("aa", r, 1) ELSE s[1])
        /\ Ends(t[Len(t)])
        /\ \A i \in DOMAIN t : t[i].rec = r \/ (i \in DOMAIN s /\ t[i] = s[i])
    BY <1>5, <2>2, <2>3, <2>4, ChainAppend
  <2> HIDE DEF t
  <2>6. InFlight' = t
    <3>1. queueTty \in Seq(AnyByte) /\ wire \in Seq(AnyByte) /\ RecordBytes(r) \in Seq(AnyByte)
      BY <1>5, RecordBytesAre DEF Typed, Bytes
    <3>2. wire \o <<>> = wire
      BY <3>1, ConcatEmptySeq
    <3>3. s = queueTty \o wire
      BY <1>1, <3>2 DEF InFlight, s
    <3>4. (queueTty \o wire) \o RecordBytes(r) = queueTty \o (wire \o RecordBytes(r))
      BY <3>1, ConcatAssociative
    <3> QED  BY <1>1, <2>1, <3>3, <3>4 DEF InFlight, t
  <2>7. LineWhole'
    <3>1. Chain(InFlight, Gap)'
      BY <1>1, <1>12, <2>5, <2>6, ChainStays
    <3> QED  BY <1>1, <2>5, <2>6, <3>1 DEF LineWhole, Ends, RecordLen
  <2>8. QueueBehind'
    <3>1. ASSUME NEW i \in DOMAIN usb_queue', NEW j \in DOMAIN t PROVE t[j].rec < usb_queue'[i]
      <4>1. CASE t[j].rec = r
        BY <1>6, <4>1
      <4>2. CASE j \in DOMAIN s /\ t[j] = s[j]
        BY <1>4, <4>2 DEF StreamInv, QueueBehind, s
      <4> QED  BY <2>5, <4>1, <4>2
    <3> QED  BY <1>9, <2>6, <3>1 DEF QueueBehind
  <2>9. PacketsBefore'
    <3>1. ASSUME NEW i \in DOMAIN packets, NEW j \in DOMAIN t
          PROVE  packets[i][1].rec < t[j].rec
      BY <1>8, <2>5 DEF StreamInv, PacketsBefore, s
    <3> QED  BY <1>1, <1>11, <2>6, <3>1 DEF StreamInv, PacketsBefore
  <2>10. ASSUME queueTty # <<>> \/ reading, parser.at = "magic"
         PROVE  Searches(parser.window, InFlight)' /\ WindowBefore(parser.window)'
    <3> DEFINE w == parser.window
    <3>1. Searches(w, s) /\ WindowBefore(w)
      BY <2>10 DEF StreamInv, ParserFits, s
    <3>2. WindowBefore(parser.window)'
      BY <1>1, <1>4, <3>1, WindowStays
    <3>3. CASE s # <<>>
      <4>1. Searches(w, t)
        BY <2>5, <3>1, <3>3, SearchNext
      <4> QED  BY <1>1, <2>6, <3>2, <4>1, SearchStays
    <3>4. CASE s = <<>>
      <4>1. t[1].rec = r /\ t[1].at = 1 /\ t # <<>>
        BY <2>5, <3>4 DEF Byte
      <4>2. w # <<>> => w[Len(w)].rec < r
        <5>1. w \in Seq(AnyByte) /\ 1 \in DOMAIN usb_queue
          BY <1>2, <2>10 DEF Typed, ParserType
        <5>2. w # <<>> => Len(w) \in DOMAIN w
          BY <5>1, NotEmpty
        <5> QED  BY <1>2, <3>1, <5>1, <5>2 DEF WindowBefore, r
      <4>3. w # <<>> => Follows(w[Len(w)], t[1])
        BY <3>1, <3>4, <4>1, <4>2 DEF Searches, Follows
      <4>4. Searches(w, t)
        BY <3>1, <4>1, <4>3 DEF Searches
      <4> QED  BY <1>1, <2>6, <3>2, <4>4, SearchStays
    <3> QED  BY <3>3, <3>4
  <2>11. ParserFits'
    <3>1. CASE s # <<>>
      <4>1. t[1] = InFlight[1] /\ InFlight # <<>>
        BY <2>5, <3>1 DEF s
      <4> QED  BY <1>1, <2>5, <2>6, <2>10, <4>1 DEF StreamInv, ParserFits, Heads, Reads, BodyBytes
    <3>2. CASE s = <<>>
      <4>1. queueTty = <<>> /\ InFlight = <<>>
        BY <2>2, <3>2 DEF s
      <4>2. reading => parser.at \notin {"header", "body"}
        BY <4>1 DEF StreamInv, ParserFits
      <4> QED  BY <1>1, <2>6, <2>10, <4>1, <4>2 DEF ParserFits
    <3> QED  BY <3>1, <3>2
  <2> QED  BY <1>10, <2>7, <2>8, <2>9, <2>11 DEF StreamInv
<1> QED  BY <1>13, <1>14 DEF Typed

(* Sequence t is s without the n elements behind the first k.               *)
Without(t, s, k, n) ==
  /\ Len(t) = Len(s) - n
  /\ \A i \in 1..Len(t) : t[i] = IF i <= k THEN s[i] ELSE s[i + n]

(* The joined sequence when the first n in its middle part are gone.        *)
LEMMA DropMiddle ==
  ASSUME NEW S, NEW q \in Seq(S), NEW w \in Seq(S), NEW o \in Seq(S)
  PROVE  \A v \in Seq(S), n \in 0..Len(w) : Without(v, w, 0, n)
           => /\ q \o (v \o o) \in Seq(S)
              /\ Without(q \o (v \o o), q \o (w \o o), Len(q), n)
<1> DEFINE s == q \o (w \o o)
           a == Len(q)
           b == Len(w)
           c == Len(o)
<1>1. a \in Nat /\ b \in Nat /\ c \in Nat
  BY LenProperties
<1>2. \A v \in Seq(S) :
        /\ q \o (v \o o) \in Seq(S) /\ Len(q \o (v \o o)) = Len(q) + Len(v) + Len(o)
        /\ \A i \in 1..(Len(q) + Len(v) + Len(o)) : (q \o (v \o o))[i] =
             IF i <= Len(q) THEN q[i]
             ELSE IF i <= Len(q) + Len(v) THEN v[i - Len(q)] ELSE o[i - Len(q) - Len(v)]
  BY JoinProperties
<1>3. /\ Len(s) = a + b + c
      /\ \A i \in 1..(a + b + c) : s[i] =
           IF i <= a THEN q[i] ELSE IF i <= a + b THEN w[i - a] ELSE o[i - a - b]
  BY JoinProperties
<1> SUFFICES ASSUME NEW v \in Seq(S), NEW n \in 0..b, Without(v, w, 0, n)
             PROVE  q \o (v \o o) \in Seq(S) /\ Without(q \o (v \o o), s, a, n)
  OBVIOUS
<1> DEFINE t == q \o (v \o o)
           d == Len(v)
<1>4. /\ t \in Seq(S) /\ Len(t) = a + d + c
      /\ \A i \in 1..(a + d + c) : t[i] =
           IF i <= a THEN q[i] ELSE IF i <= a + d THEN v[i - a] ELSE o[i - a - d]
  BY <1>2
<1>5. d = b - n /\ d \in Nat /\ n \in Nat /\ n <= b /\ \A i \in 1..d : v[i] = w[i + n]
  <2>1. d = b - n /\ d \in Nat /\ n \in Nat /\ n <= b
    BY <1>1, LenProperties DEF Without
  <2>2. ASSUME NEW i \in 1..d PROVE v[i] = w[i + n]
    <3>1. ~(i <= 0)
      BY <2>1
    <3> QED  BY <2>2, <3>1 DEF Without
  <2> QED  BY <2>1, <2>2
<1> HIDE DEF t, s, a, b, c, d
<1>6. ASSUME NEW i \in 1..(a + d + c) PROVE t[i] = IF i <= a THEN s[i] ELSE s[i + n]
  <2>1. CASE i <= a
    <3>1. i \in 1..(a + b + c)
      BY <1>1, <2>1
    <3> QED  BY <1>3, <1>4, <2>1, <3>1
  <2>2. CASE i > a /\ i <= a + d
    <3>1. /\ i - a \in 1..d /\ i + n \in 1..(a + b + c) /\ ~(i <= a) /\ ~(i + n <= a)
          /\ i + n <= a + b /\ i + n - a = i - a + n
      BY <1>1, <1>5, <2>2
    <3>2. t[i] = v[i - a]
      BY <1>4, <2>2, <3>1
    <3> DEFINE k == i + n
    <3>3. k \in 1..(a + b + c) /\ ~(k <= a) /\ k <= a + b
      BY <3>1
    <3> HIDE DEF k
    <3>4. s[k] = w[k - a]
      BY <1>3, <3>3
    <3>5. v[i - a] = w[i - a + n]
      BY <1>5, <3>1
    <3>6. k - a = i - a + n
      BY <1>1, <1>5, <3>1 DEF k
    <3>7. t[i] = s[k]
      BY <3>2, <3>4, <3>5, <3>6
    <3> QED  BY <3>1, <3>7 DEF k
  <2>3. CASE i > a + d
    <3>1. /\ i + n \in 1..(a + b + c) /\ ~(i <= a) /\ ~(i + n <= a) /\ ~(i <= a + d)
          /\ ~(i + n <= a + b) /\ i + n - a - b = i - a - d
      BY <1>1, <1>5, <2>3
    <3>2. t[i] = o[i - a - d]
      BY <1>4, <3>1
    <3> DEFINE k == i + n
    <3>3. k \in 1..(a + b + c) /\ ~(k <= a) /\ ~(k <= a + b)
      BY <3>1
    <3> HIDE DEF k
    <3>4. s[k] = o[k - a - b]
      BY <1>3, <3>3
    <3>5. k - a - b = i - a - d
      BY <1>1, <1>5, <3>1 DEF k
    <3>6. t[i] = s[k]
      BY <3>2, <3>4, <3>5
    <3> QED  BY <3>1, <3>6 DEF k
  <2> QED  BY <1>1, <1>5, <2>1, <2>2, <2>3
<1>7. Len(t) = Len(s) - n
  BY <1>1, <1>3, <1>4, <1>5
<1>8. \A i \in 1..Len(t) : t[i] = IF i <= a THEN s[i] ELSE s[i + n]
  BY <1>4, <1>6
<1> QED  BY <1>4, <1>7, <1>8 DEF Without, t, s, a

(* The cable takes the oldest bytes of the line with it; what the host has  *)
(* read is still there (reader.cpp:75-91).                                  *)
LEMMA UnplugStream ==
  ASSUME Typed, Typed', StreamInv, Unplug PROVE StreamInv'
<1> DEFINE s == InFlight
           k == Len(queueTty)
<1>1. /\ UNCHANGED <<records, usb_queue, out, queueTty, parser, packets>>
      /\ reading' = FALSE
  BY DEF Unplug, espVars
<1>2. PICK n \in 0..Len(wire) : wire' = SubSeq(wire, n + 1, Len(wire))
  BY DEF Unplug
<1>3. /\ s \in Seq(AnyByte) /\ DOMAIN s = 1..Len(s) /\ Gap \in {0, k}
      /\ k \in Nat /\ Len(wire) \in Nat /\ Len(out) \in Nat
      /\ Len(s) = k + Len(wire) + Len(out)
      /\ (s # <<>> <=> Len(s) > 0) /\ (queueTty # <<>> <=> k > 0)
      /\ (wire \o out # <<>> <=> Len(wire) + Len(out) > 0)
  BY FlightType DEF Gap
<1>4. /\ wire' \in Seq(AnyByte) /\ Len(wire') = Len(wire) - n
      /\ \A i \in 1..(Len(wire) - n) : wire'[i] = wire[i + n]
  BY <1>2, BytesProperties DEF Typed, Bytes
<1> DEFINE t == queueTty \o (wire' \o out)
<1>5. /\ t \in Seq(AnyByte) /\ Len(t) = Len(s) - n
      /\ \A i \in 1..Len(t) : t[i] = IF i <= k THEN s[i] ELSE s[i + n]
  <2>1. queueTty \in Seq(AnyByte) /\ wire \in Seq(AnyByte) /\ out \in Seq(AnyByte)
    BY DEF Typed, Bytes
  <2>2. \A v \in Seq(AnyByte), m \in 0..Len(wire) : Without(v, wire, 0, m)
          => /\ queueTty \o (v \o out) \in Seq(AnyByte)
             /\ Without(queueTty \o (v \o out), queueTty \o (wire \o out), Len(queueTty), m)
    BY <2>1, DropMiddle
  <2>3. Without(wire', wire, 0, n)
    <3>1. \A i \in 1..(Len(wire) - n) : ~(i <= 0)
      BY <1>3
    <3> QED  BY <1>4, <3>1 DEF Without
  <2>4. t \in Seq(AnyByte) /\ Without(t, s, k, n)
    BY <1>4, <2>2, <2>3 DEF InFlight
  <2> HIDE DEF s, t, k
  <2> QED  BY <2>4 DEF Without
<1>6. InFlight' = t /\ Gap' = k
  BY <1>1 DEF InFlight, Gap
<1>7. (wire' \o out # <<>> <=> Len(wire') + Len(out) > 0)
  <2>1. out \in Seq(AnyByte)
    BY DEF Typed, Bytes
  <2>2. \A v \in Seq(AnyByte) : v \o out # <<>> <=> Len(v) + Len(out) > 0
    <3> SUFFICES ASSUME NEW v \in Seq(AnyByte)
                 PROVE  v \o out # <<>> <=> Len(v) + Len(out) > 0
      OBVIOUS
    <3>1. v \o out \in Seq(AnyByte) /\ Len(v \o out) = Len(v) + Len(out)
      BY <2>1, ConcatProperties
    <3> QED  BY <3>1, NotEmpty
  <2> QED  BY <1>4, <2>2
<1>8. DOMAIN t = 1..Len(t) /\ (t # <<>> <=> Len(t) > 0)
  BY <1>5, NotEmpty
<1> HIDE DEF s, t, k
<1>9. /\ Len(t) = Len(s) - n /\ k <= Len(t) /\ n \in Nat /\ n <= Len(wire)
      /\ Len(t) \in Nat /\ Len(s) \in Nat /\ Len(t) = k + Len(wire') + Len(out)
  BY <1>3, <1>4, <1>5
<1>10. ASSUME NEW i \in 1..Len(t) PROVE t[i] = IF i <= k THEN s[i] ELSE s[i + n]
  BY <1>5
<1>11. Chain(t, k)
  <2>1. Chain(s, Gap)
    BY DEF StreamInv, LineWhole, s
  <2> QED  BY <1>3, <1>5, <1>9, <1>10, <2>1, ChainGap
<1>12. LineWhole'
  <2>1. Chain(InFlight, Gap)'
    BY <1>1, <1>6, <1>11, ChainStays
  <2>2. ASSUME t # <<>>, wire' \o out # <<>> PROVE Ends(t[Len(t)])
    <3>0. Len(wire') \in Nat /\ Len(wire') + Len(out) > 0
      BY <1>4, <1>7, <2>2, LenProperties
    <3>1. Len(t) \in 1..Len(t) /\ ~(Len(t) <= k) /\ Len(t) + n = Len(s) /\ Len(s) > 0
      BY <1>3, <1>9, <3>0
    <3>2. wire \o out # <<>>
      BY <1>3, <1>4, <1>9, <3>0
    <3>3. t[Len(t)] = s[Len(s)]
      BY <1>10, <3>1
    <3>4. s # <<>>
      BY <1>3, <3>1
    <3> QED  BY <3>2, <3>3, <3>4 DEF StreamInv, LineWhole, s
  <2> QED  BY <1>1, <1>6, <2>1, <2>2 DEF LineWhole, Ends, RecordLen
<1>13. \A j \in DOMAIN t : \E i \in DOMAIN s : t[j] = s[i]
  <2> SUFFICES ASSUME NEW j \in DOMAIN t PROVE \E i \in DOMAIN s : t[j] = s[i]
    OBVIOUS
  <2>1. j \in 1..Len(t) /\ j \in 1..Len(s) /\ j + n \in 1..Len(s)
    BY <1>8, <1>9
  <2> QED  BY <1>3, <1>10, <2>1
<1>14. QueueBehind' /\ PacketsBefore' /\ CapturedInOrder'
  BY <1>1, <1>6, <1>13, Fewer DEF StreamInv, s
<1>15. ParserFits'
  <2>1. ASSUME queueTty # <<>> PROVE t # <<>> /\ s # <<>> /\ t[1] = s[1]
    <3>1. 1 \in 1..Len(t) /\ 1 <= k /\ Len(s) > 0 /\ Len(t) > 0
      BY <1>3, <1>9, <2>1
    <3> QED  BY <1>3, <1>8, <1>10, <3>1
  <2>2. ASSUME queueTty # <<>>, parser.at = "magic"
        PROVE  Searches(parser.window, InFlight)' /\ WindowBefore(parser.window)'
    <3>1. Searches(parser.window, s) /\ WindowBefore(parser.window)
      BY <2>2 DEF StreamInv, ParserFits, s
    <3>2. Searches(parser.window, t)
      BY <2>1, <2>2, <3>1, SearchNext
    <3> QED  BY <1>1, <1>6, <3>1, <3>2, SearchStays, WindowStays
  <2> QED  BY <1>1, <1>6, <2>1, <2>2 DEF StreamInv, ParserFits, Heads, Reads, BodyBytes, s
<1> QED  BY <1>12, <1>14, <1>15 DEF StreamInv

(* The program is started: what it reads begins anywhere (reader.cpp:7-75). *)
LEMMA StartStream ==
  ASSUME Typed, Typed', StreamInv, Start, ~misled' PROVE StreamInv'
<1> DEFINE s == InFlight
           k == Len(queueTty)
<1>1. /\ UNCHANGED <<records, usb_queue, out, packets>> /\ ~reading /\ reading' = TRUE
      /\ queueTty' = <<>> /\ parser' = Skipping
  BY DEF Start, espVars
<1>2. PICK n \in 0..Len(wire) : wire' = SubSeq(wire, n + 1, Len(wire))
  BY DEF Start
<1>3. /\ s \in Seq(AnyByte) /\ DOMAIN s = 1..Len(s) /\ Gap = k
      /\ k \in Nat /\ Len(wire) \in Nat /\ Len(out) \in Nat
      /\ Len(s) = k + Len(wire) + Len(out)
      /\ \A i \in 1..Len(s) : s[i] =
           IF i <= k THEN queueTty[i]
           ELSE IF i <= k + Len(wire) THEN wire[i - k] ELSE out[i - k - Len(wire)]
      /\ (s # <<>> <=> Len(s) > 0)
      /\ (wire \o out # <<>> <=> Len(wire) + Len(out) > 0)
  BY <1>1, FlightType DEF Gap
<1>4. /\ wire' \in Seq(AnyByte) /\ Len(wire') = Len(wire) - n
      /\ \A i \in 1..(Len(wire) - n) : wire'[i] = wire[i + n]
  BY <1>2, BytesProperties DEF Typed, Bytes
<1> DEFINE t == wire' \o out
<1>5. /\ t \in Seq(AnyByte) /\ Len(t) = Len(wire') + Len(out)
      /\ \A i \in 1..(Len(wire') + Len(out)) : t[i] =
           IF i <= Len(wire') THEN wire'[i] ELSE out[i - Len(wire')]
  BY <1>4, ConcatProperties DEF Typed, Bytes
<1>6. InFlight' = t /\ Gap' = 0
  <2>1. <<>> \o t = t
    BY <1>5, ConcatEmptySeq
  <2> QED  BY <1>1, <2>1 DEF InFlight, Gap
<1>7. DOMAIN t = 1..Len(t) /\ (t # <<>> <=> Len(t) > 0)
  BY <1>5, NotEmpty
<1> DEFINE m == k + n
<1> HIDE DEF s, t, k
<1>8. m \in Nat /\ Len(t) = Len(s) - m /\ Len(t) \in Nat /\ Len(s) \in Nat /\ k <= m /\ n \in Nat
  BY <1>3, <1>4, <1>5
<1>9. ASSUME NEW i \in 1..Len(t) PROVE t[i] = s[i + m]
  <2>0. i + m \in 1..Len(s) /\ i + m > k
    BY <1>3, <1>8
  <2>1. CASE i <= Len(wire')
    <3>0. i \in Nat /\ i >= 1 /\ k \in Nat /\ m = k + n /\ n \in Nat
      BY <1>3, <1>8
    <3>1. i \in 1..(Len(wire) - n) /\ i + m <= k + Len(wire) /\ i + m - k = i + n
      <4>1. i + m - k = i + n
        BY <3>0
      <4>2. i \in 1..(Len(wire) - n) /\ i + m <= k + Len(wire)
        BY <1>3, <1>4, <2>1, <3>0
      <4> QED  BY <4>1, <4>2
    <3>2. t[i] = wire'[i]
      BY <1>3, <1>4, <1>5, <1>8, <2>1
    <3> DEFINE q == i + m
    <3>3. q = i + m /\ q \in 1..Len(s) /\ ~(q <= k) /\ q <= k + Len(wire) /\ q - k = i + n
      BY <1>3, <2>0, <3>0, <3>1
    <3> HIDE DEF q
    <3>4. s[q] = wire[q - k]
      BY <1>3, <3>3
    <3>5. s[q] = wire[i + n]
      BY <3>3, <3>4
    <3>6. wire'[i] = wire[i + n]
      BY <1>4, <3>1
    <3> QED  BY <3>2, <3>3, <3>5, <3>6
  <2>2. CASE i > Len(wire')
    <3>1. ~(i + m <= k + Len(wire)) /\ ~(i + m <= k) /\ i + m - k - Len(wire) = i - Len(wire')
      <4>1. Len(wire') = Len(wire) - n /\ Len(wire) \in Nat /\ k \in Nat /\ m = k + n /\ n \in Nat
        BY <1>3, <1>4, <1>8 DEF m
      <4>2. i \in Nat
        BY <1>8
      <4> QED  BY <2>2, <4>1, <4>2
    <3>2. t[i] = out[i - Len(wire')]
      BY <1>3, <1>4, <1>5, <1>8, <2>2
    <3>3. s[i + m] = out[i + m - k - Len(wire)]
      BY <1>3, <1>8, <2>0, <3>1
    <3>4. out[i + m - k - Len(wire)] = out[i - Len(wire')]
      BY <3>1
    <3> QED  BY <3>2, <3>3, <3>4
  <2>3. i \in Nat /\ Len(wire') \in Nat
    BY <1>4, <1>8, LenProperties
  <2> QED  BY <2>1, <2>2, <2>3
<1> HIDE DEF m
<1>10. LineWhole'
  <2>1. Chain(s, k)
    BY <1>3 DEF StreamInv, LineWhole, s
  <2>2. Chain(t, 0)
    BY <1>3, <1>5, <1>8, <1>9, <2>1, ChainSuffix
  <2>3. Chain(InFlight, Gap)'
    BY <1>1, <1>6, <2>2, ChainStays
  <2>4. ASSUME t # <<>> PROVE Ends(t[Len(t)])
    <3>1. Len(t) \in 1..Len(t) /\ Len(t) + m = Len(s) /\ Len(s) > 0
      BY <1>7, <1>8, <2>4
    <3>2. wire \o out # <<>>
      BY <1>3, <1>4, <1>5, <1>7, <2>4
    <3>3. t[Len(t)] = s[Len(s)]
      BY <1>9, <3>1
    <3>4. s # <<>>
      BY <1>3, <3>1
    <3> QED  BY <3>2, <3>3, <3>4 DEF StreamInv, LineWhole, s
  <2> QED  BY <1>1, <1>6, <2>3, <2>4 DEF LineWhole, Ends, RecordLen
<1>11. \A j \in DOMAIN t : \E i \in DOMAIN s : t[j] = s[i]
  <2> SUFFICES ASSUME NEW j \in DOMAIN t PROVE \E i \in DOMAIN s : t[j] = s[i]
    OBVIOUS
  <2>1. j \in 1..Len(t) /\ j + m \in 1..Len(s)
    BY <1>7, <1>8
  <2> QED  BY <1>3, <1>9, <2>1
<1>12. QueueBehind' /\ PacketsBefore' /\ CapturedInOrder'
  BY <1>1, <1>6, <1>11, Fewer DEF StreamInv, s
<1>13. ParserFits'
  <2>1. t # <<>> => t[1].at = 1 \/ ~Ambiguous(t[1].rec)
    <3>1. ~(ComesIn(t) /\ Ambiguous(t[1].rec))
      BY DEF Start, t
    <3>2. t # <<>> => t[1].at = 1 \/ t[1].at > 1
      <4> SUFFICES ASSUME t # <<>> PROVE t[1].at = 1 \/ t[1].at > 1
        OBVIOUS
      <4>1. 1 \in DOMAIN t /\ t[1] \in AnyByte
        BY <1>5, <1>7, <1>8, ElementOfSeq
      <4>2. Genuine(t[1])
        BY <1>11, <4>1, FlightType DEF s
      <4>3. t[1].at \in 1..RecordLen(t[1].rec) /\ t[1].at \in Nat
        BY <4>1, <4>2 DEF Genuine, AnyByte
      <4> QED  BY <4>3
    <3> QED  BY <3>1, <3>2 DEF ComesIn
  <2> QED  BY <1>1, <1>6, <2>1, SearchBegins
<1> QED  BY <1>10, <1>12, <1>13 DEF StreamInv

(* What the parser thread takes is the next byte; what it finds after that  *)
(* follows it.                                                              *)
LEMMA TakeByte ==
  ASSUME Typed, StreamInv, Parse
  PROVE  /\ InFlight # <<>> /\ Head(queueTty) = InFlight[1]
         /\ InFlight[1] \in AnyByte /\ Genuine(InFlight[1])
         /\ \A j \in DOMAIN InFlight' :
              /\ \E k \in DOMAIN InFlight : InFlight'[j] = InFlight[k]
              /\ Genuine(InFlight'[j]) /\ InFlight'[j] \in AnyByte
              /\ Earlier(InFlight[1], InFlight'[j])
         /\ InFlight' # <<>> => 1 \in DOMAIN InFlight'
         /\ LineWhole'
         /\ queueTty' # <<>> \/ reading =>
              /\ InFlight' # <<>> => Follows(InFlight[1], InFlight'[1])
              /\ InFlight' # <<>> \/ Ends(InFlight[1])
<1> DEFINE s == InFlight
           t == InFlight'
           k == Len(queueTty)
<1>1. /\ UNCHANGED <<records, wire, out, reading>>
      /\ queueTty # <<>> /\ queueTty' = Tail(queueTty)
  BY DEF Parse, espVars
<1>2. queueTty \in Seq(AnyByte) /\ wire \o out \in Seq(AnyByte) /\ Len(wire \o out) \in Nat
  BY ConcatProperties, LenProperties DEF Typed, Bytes
<1>3. /\ Tail(queueTty) \in Seq(AnyByte) /\ Len(Tail(queueTty)) = k - 1
      /\ \A i \in 1..Len(Tail(queueTty)) : Tail(queueTty)[i] = queueTty[i + 1]
      /\ k \in Nat /\ k > 0 /\ Head(queueTty) = queueTty[1]
      /\ (Tail(queueTty) # <<>> <=> k - 1 > 0)
  <2>1. /\ Tail(queueTty) \in Seq(AnyByte) /\ Len(Tail(queueTty)) = k - 1
        /\ \A i \in 1..Len(Tail(queueTty)) : Tail(queueTty)[i] = queueTty[i + 1]
    BY <1>1, <1>2, HeadTailProperties
  <2>2. k \in Nat /\ k > 0 /\ Head(queueTty) = queueTty[1]
    BY <1>1, <1>2, NotEmpty
  <2>3. Tail(queueTty) # <<>> <=> Len(Tail(queueTty)) > 0
    BY <2>1, NotEmpty
  <2> QED  BY <2>1, <2>2, <2>3
<1>4. /\ s \in Seq(AnyByte) /\ DOMAIN s = 1..Len(s) /\ Gap \in Nat
      /\ \A i \in DOMAIN s : s[i] \in AnyByte /\ Genuine(s[i])
  BY FlightType
<1> DEFINE u == wire \o out
           m == Len(u)
<1>5. /\ Len(s) = k + m
      /\ \A i \in 1..(k + m) : s[i] = IF i <= k THEN queueTty[i] ELSE u[i - k]
  <2>1. s = queueTty \o u
    BY DEF InFlight
  <2> HIDE DEF s, u
  <2> QED  BY <1>2, <2>1, ConcatProperties DEF u
<1>6. t = Tail(queueTty) \o u
  BY <1>1 DEF InFlight
<1>7. /\ Len(t) = k - 1 + m /\ t \in Seq(AnyByte)
      /\ \A i \in 1..(k - 1 + m) : t[i] = IF i <= k - 1 THEN Tail(queueTty)[i] ELSE u[i - (k - 1)]
  <2> DEFINE q == Tail(queueTty)
  <2>1. q \in Seq(AnyByte) /\ u \in Seq(AnyByte)
    BY <1>2, <1>3
  <2> HIDE DEF q, u
  <2>2. /\ q \o u \in Seq(AnyByte) /\ Len(q \o u) = Len(q) + Len(u)
        /\ \A i \in 1..(Len(q) + Len(u)) : (q \o u)[i] = IF i <= Len(q) THEN q[i] ELSE u[i - Len(q)]
    BY <2>1, ConcatProperties
  <2>3. t = q \o u /\ Len(q) = k - 1
    BY <1>3, <1>6 DEF q
  <2> HIDE DEF t, k
  <2>4. /\ t \in Seq(AnyByte) /\ Len(t) = Len(q) + m
        /\ \A i \in 1..(Len(q) + m) : t[i] = IF i <= Len(q) THEN q[i] ELSE u[i - Len(q)]
    BY <2>2, <2>3
  <2> QED  BY <2>3, <2>4 DEF q
<1>8. m \in Nat /\ DOMAIN t = 1..Len(t) /\ (t # <<>> <=> Len(t) > 0) /\ (s # <<>> <=> Len(s) > 0)
  BY <1>2, <1>4, <1>7, NotEmpty
<1> HIDE DEF s, t, u, m, k
<1>9. Len(t) = Len(s) - 1 /\ Len(s) \in Nat /\ Len(t) \in Nat /\ Len(s) >= k
  BY <1>3, <1>5, <1>7, <1>8
<1>10. ASSUME NEW i \in 1..Len(t) PROVE t[i] = s[i + 1] /\ i + 1 \in DOMAIN s
  <2>1. i + 1 \in 1..(k + m) /\ i + 1 \in DOMAIN s
    BY <1>3, <1>4, <1>5, <1>7, <1>8
  <2>2. CASE i <= k - 1
    <3>1. i + 1 <= k /\ i \in 1..(k - 1)
      BY <1>3, <1>9, <2>2
    <3>2. t[i] = queueTty[i + 1]
      BY <1>3, <1>7, <2>2, <3>1
    <3>3. s[i + 1] = queueTty[i + 1]
      BY <1>5, <2>1, <3>1
    <3> QED  BY <2>1, <3>2, <3>3
  <2>3. CASE i > k - 1
    <3>1. ~(i + 1 <= k) /\ i - (k - 1) = i + 1 - k /\ ~(i <= k - 1)
      BY <1>3, <1>9, <2>3
    <3>2. t[i] = u[i - (k - 1)]
      BY <1>7, <3>1
    <3> DEFINE l == i + 1
    <3>3. l \in 1..(k + m) /\ ~(l <= k) /\ l - k = i - (k - 1)
      BY <1>3, <1>9, <2>1, <3>1
    <3> HIDE DEF l
    <3>4. s[l] = u[l - k]
      BY <1>5, <3>3
    <3>5. t[i] = s[l]
      BY <3>2, <3>3, <3>4
    <3> QED  BY <2>1, <3>5 DEF l
  <2> QED  BY <1>3, <1>9, <2>2, <2>3
<1>11. 1 \in DOMAIN s /\ s # <<>> /\ s[1] = Head(queueTty)
  <2>1. 1 \in 1..(k + m) /\ 1 <= k
    BY <1>3, <1>8
  <2> QED  BY <1>3, <1>4, <1>5, <1>8, <2>1
<1>12. Chain(s, Gap)
  BY DEF StreamInv, LineWhole, s
<1>13. ASSUME NEW j \in DOMAIN t
       PROVE  /\ \E i \in DOMAIN s : t[j] = s[i]
              /\ Genuine(t[j]) /\ t[j] \in AnyByte /\ Earlier(s[1], t[j])
  <2>1. t[j] = s[j + 1] /\ j + 1 \in DOMAIN s /\ 1 < j + 1
    BY <1>8, <1>9, <1>10
  <2> QED  BY <1>4, <1>11, <1>12, <2>1 DEF Chain
<1>14. Gap' = IF reading THEN 0 ELSE k - 1
  BY <1>1, <1>3 DEF Gap
<1>15. Gap = IF reading THEN 0 ELSE k
  BY DEF Gap, k
<1>16. Chain(InFlight, Gap)'
  <2> DEFINE g == IF reading THEN 0 ELSE k - 1
  <2>1. g \in Nat /\ (g = Gap - 1 \/ Gap <= 1)
    BY <1>3, <1>15
  <2> HIDE DEF g
  <2>2. Chain(t, g)
    BY <1>4, <1>7, <1>9, <1>10, <1>12, <2>1, ChainSuffix
  <2> QED  BY <1>1, <1>14, <2>2, ChainStays DEF g, t
<1>17. ASSUME t # <<>>, reading \/ u # <<>> PROVE Ends(t[Len(t)])
  <2>1. Len(t) \in 1..Len(t) /\ Len(t) + 1 = Len(s)
    BY <1>8, <1>9, <1>17
  <2>2. t[Len(t)] = s[Len(s)]
    BY <1>10, <2>1
  <2>3. Ends(s[Len(s)])
    BY <1>11, <1>17 DEF StreamInv, LineWhole, s, u
  <2> QED  BY <2>2, <2>3
<1>18. LineWhole'
  BY <1>1, <1>16, <1>17 DEF LineWhole, Ends, RecordLen, t, u
<1>19. ASSUME Tail(queueTty) # <<>> \/ reading, t # <<>> PROVE Follows(s[1], t[1])
  <2>1. 1 \in 1..Len(t) /\ 1 \in 1..(Len(s) - 1)
    BY <1>8, <1>9, <1>19
  <2>2. 1 # Gap
    BY <1>3, <1>15, <1>19
  <2>3. Follows(s[1], s[1 + 1])
    BY <1>12, <2>1, <2>2 DEF Chain
  <2> QED  BY <1>10, <2>1, <2>3
<1>20. ASSUME Tail(queueTty) # <<>> \/ reading, t = <<>> PROVE Ends(s[1])
  <2>1. Len(s) = 1 /\ reading
    BY <1>3, <1>8, <1>9, <1>11, <1>20
  <2>2. Ends(s[Len(s)])
    BY <1>11, <2>1 DEF StreamInv, LineWhole, s
  <2> QED  BY <2>1, <2>2
<1>21. t # <<>> => 1 \in DOMAIN t
  BY <1>8, <1>9
<1> QED  BY <1>1, <1>4, <1>11, <1>13, <1>18, <1>19, <1>20, <1>21 DEF s, t

(* Four bytes behind each other that are those of the magic number.         *)
LEMMA MagicAt ==
  ASSUME NEW z \in Seq(ByteValue), NEW i \in 1..(Len(z) - 3),
         z[i] = "aa", z[i + 1] = "55", z[i + 2] = "55", z[i + 3] = "aa"
  PROVE  HasMagic(z)
<1> DEFINE u == SubSeq(z, i, i + 3)
<1>1. Len(z) \in Nat /\ i \in Int /\ i + 3 \in Int /\ i + 3 <= Len(z) /\ i >= 1
  BY LenProperties
<1>2. \A k \in i..(i + 3) : z[k] \in ByteValue
  <2> SUFFICES ASSUME NEW k \in i..(i + 3) PROVE z[k] \in ByteValue
    OBVIOUS
  <2>1. k \in 1..Len(z)
    BY <1>1
  <2> QED  BY <2>1, ElementOfSeq
<1>3. /\ u \in Seq(ByteValue) /\ Len(u) = (IF i <= i + 3 THEN i + 3 - i + 1 ELSE 0)
      /\ \A k \in 1..(i + 3 - i + 1) : u[k] = z[i + k - 1]
  BY <1>1, <1>2, SubSeqProperties
<1> HIDE DEF u
<1>4. i + 3 - i + 1 = 4 /\ i <= i + 3 /\ i + 1 - 1 = i /\ i + 2 - 1 = i + 1
      /\ i + 3 - 1 = i + 2 /\ i + 4 - 1 = i + 3
  BY <1>1
<1>5. Len(u) = 4 /\ u[1] = z[i] /\ u[2] = z[i + 1] /\ u[3] = z[i + 2] /\ u[4] = z[i + 3]
  <2>1. \A k \in 1..4 : u[k] = z[i + k - 1]
    BY <1>3, <1>4
  <2> QED  BY <1>3, <1>4, <2>1
<1>6. \A k \in 1..Len(u) : u[k] = MagicNumber[k]
  BY <1>5, Layout
<1>7. u = MagicNumber
  BY <1>3, <1>5, <1>6, Layout, SeqEqual
<1> QED  BY <1>7 DEF HasMagic, u

(* The time stamp and body of a record and the first byte of the next.      *)
LEMMA TailOfRecord ==
  ASSUME Typed, NEW r \in DOMAIN records
  PROVE  LET z == records[r].stamp \o records[r].body \o <<MagicNumber[1]>>
         IN /\ z \in Seq(ByteValue) /\ Len(z) = RecordLen(r) - 4 /\ RecordLen(r) \in Nat
            /\ \A k \in 1..(RecordLen(r) - 5) : z[k] = ValueAt(r, k + 5)
            /\ z[RecordLen(r) - 4] = "aa"
<1> DEFINE t == records[r].stamp
           b == records[r].body
           o == <<MagicNumber[1]>>
           n == Len(b)
           z == t \o b \o o
<1>1. /\ t \in Seq(ByteValue) /\ Len(t) = StampLen /\ b \in Seq(ByteValue) /\ n \in Nat
      /\ RecordLen(r) = HeadEnd + n
  <2>1. /\ t \in Seq(ByteValue) /\ Len(t) = StampLen /\ b \in Seq(ByteValue)
    BY BodyType
  <2> QED  BY <2>1, LenProperties DEF RecordLen
<1>2. o \in Seq(ByteValue) /\ Len(o) = 1 /\ o[1] = "aa"
  BY DEF MagicNumber, ByteValue
<1>3. n = Len(b) /\ z = t \o b \o o
  OBVIOUS
<1>4. \A k : ValueAt(r, k) = IF k <= 4 THEN MagicNumber[k] ELSE IF k = 5 THEN "hdr"
        ELSE IF k <= HeadEnd THEN t[k - 5] ELSE b[k - HeadEnd]
  BY DEF ValueAt
<1> HIDE DEF t, b, o, n, z
<1>5. /\ z \in Seq(ByteValue) /\ Len(z) = StampLen + n + 1
      /\ \A k \in 1..(StampLen + n + 1) : z[k] =
           IF k <= StampLen THEN t[k] ELSE IF k <= StampLen + n THEN b[k - StampLen]
           ELSE o[k - StampLen - n]
  <2>0. t \in Seq(ByteValue) /\ b \in Seq(ByteValue) /\ o \in Seq(ByteValue)
    BY <1>1, <1>2
  <2>1. /\ t \o b \o o \in Seq(ByteValue) /\ Len(t \o b \o o) = Len(t) + Len(b) + Len(o)
        /\ \A k \in 1..(Len(t) + Len(b) + Len(o)) : (t \o b \o o)[k] =
             IF k <= Len(t) THEN t[k] ELSE IF k <= Len(t) + Len(b) THEN b[k - Len(t)]
             ELSE o[k - Len(t) - Len(b)]
    BY <2>0, ThreeParts
  <2> QED  BY <1>1, <1>2, <1>3, <2>1
<1>6. RecordLen(r) - 5 = StampLen + n /\ RecordLen(r) - 4 = StampLen + n + 1
      /\ RecordLen(r) \in Nat /\ StampLen \in Nat /\ HeadEnd = 5 + StampLen
  BY <1>1, Layout
<1>7. ASSUME NEW k \in 1..(StampLen + n) PROVE z[k] = ValueAt(r, k + 5)
  <2>0. k \in Nat /\ k >= 1 /\ k \in 1..(StampLen + n + 1)
    BY <1>1, <1>6
  <2> DEFINE q == k + 5
  <2>q. q = k + 5 /\ q \in Nat /\ ~(q <= 4) /\ ~(q = 5)
    BY <2>0
  <2>v. ValueAt(r, q) = IF q <= HeadEnd THEN t[q - 5] ELSE b[q - HeadEnd]
    BY <1>4, <2>q
  <2> HIDE DEF q
  <2>1. CASE k <= StampLen
    <3>1. q <= HeadEnd /\ q - 5 = k
      BY <1>6, <2>0, <2>1, <2>q
    <3>2. ValueAt(r, q) = t[k]
      BY <2>v, <3>1
    <3>3. z[k] = t[k]
      BY <1>5, <2>0, <2>1
    <3> QED  BY <2>q, <3>2, <3>3
  <2>2. CASE ~(k <= StampLen)
    <3>1. ~(q <= HeadEnd) /\ q - HeadEnd = k - StampLen /\ k <= StampLen + n
      BY <1>1, <1>6, <2>0, <2>2, <2>q
    <3>2. ValueAt(r, q) = b[k - StampLen]
      BY <2>v, <3>1
    <3>3. z[k] = b[k - StampLen]
      BY <1>5, <2>0, <2>2, <3>1
    <3> QED  BY <2>q, <3>2, <3>3
  <2> QED  BY <2>1, <2>2
<1>8. z[StampLen + n + 1] = "aa"
  <2> DEFINE q == StampLen + n + 1
  <2>1. /\ q = StampLen + n + 1 /\ q \in 1..(StampLen + n + 1)
        /\ ~(q <= StampLen) /\ ~(q <= StampLen + n) /\ q - StampLen - n = 1
    BY <1>1, <1>6
  <2> HIDE DEF q
  <2>2. z[q] = o[q - StampLen - n]
    BY <1>5, <2>1
  <2> QED  BY <1>2, <2>1, <2>2
<1> QED  BY <1>5, <1>6, <1>7, <1>8 DEF z, t, b, o

(* Four bytes on the line that are those of the magic number are that of a  *)
(* record, where they do not begin in the time stamp or body of an ambiguous*)
(* one.                                                                     *)
LEMMA OnlyMagic ==
  ASSUME Typed, NEW c1 \in AnyByte, NEW c2 \in AnyByte, NEW c3 \in AnyByte, NEW c4 \in AnyByte,
         Genuine(c1), Genuine(c2), Genuine(c3), Genuine(c4),
         Follows(c1, c2), Follows(c2, c3), Follows(c3, c4),
         c1.value = "aa", c2.value = "55", c3.value = "55", c4.value = "aa",
         c1.at <= 3 \/ ~Ambiguous(c1.rec)
  PROVE  c4.at = 4
<1> DEFINE r == c1.rec
           n == c1.at
           l == RecordLen(r)
<1>1. r \in DOMAIN records /\ n \in 1..l /\ n \in Nat /\ l \in Nat /\ l >= 5
  <2>1. r \in DOMAIN records /\ n \in 1..l /\ n \in Nat
    BY DEF Genuine, AnyByte
  <2>2. l \in Nat /\ l >= HeadEnd
    BY <2>1, RecordBytesAre
  <2> QED  BY <2>1, <2>2, Layout
<1>2. \A c : Genuine(c) => c.value = ValueAt(c.rec, c.at)
  BY DEF Genuine
<1>3. /\ ValueAt(r, 1) = "aa" /\ ValueAt(r, 2) = "55" /\ ValueAt(r, 3) = "55"
      /\ ValueAt(r, 5) = "hdr"
      /\ \A q : ValueAt(q, 1) = "aa"
  BY Layout DEF ValueAt
<1>4. c2.rec = r /\ c2.at = n + 1
  <2>1. c2.at # 1
    BY <1>2, <1>3
  <2> QED  BY <2>1 DEF Follows
<1>5. c3.rec = r /\ c3.at = n + 2
  <2>1. c3.at # 1
    BY <1>2, <1>3
  <2>2. c3.rec = c2.rec /\ c3.at = c2.at + 1
    BY <2>1 DEF Follows
  <2> QED  BY <1>1, <1>4, <2>2
<1>6. \/ c4.rec = r /\ c4.at = n + 3
      \/ n + 2 = l
  <2>1. \/ c4.rec = c3.rec /\ c4.at = c3.at + 1
        \/ Ends(c3)
    BY DEF Follows
  <2> QED  BY <1>1, <1>5, <2>1 DEF Ends
<1>7. n # 2 /\ n # 3 /\ n # 5 /\ n # 4
  <2>1. n = 4 => c2.at = 5
    BY <1>4
  <2> QED  BY <1>2, <1>3, <1>4, <2>1
<1>8. CASE n = 1
  BY <1>1, <1>6, <1>8
<1>9. CASE n > 5
  <2> DEFINE z == records[r].stamp \o records[r].body \o <<MagicNumber[1]>>
  <2>1. /\ z \in Seq(ByteValue) /\ Len(z) = l - 4
        /\ \A k \in 1..(l - 5) : z[k] = ValueAt(r, k + 5)
        /\ z[l - 4] = "aa"
    BY <1>1, TailOfRecord
  <2>2. ~HasMagic(z)
    BY <1>1, <1>9 DEF Ambiguous
  <2> HIDE DEF z
  <2>3. c3.at \in 1..l
    BY <1>5 DEF Genuine
  <2> DEFINE i == n - 5
  <2>4. /\ i \in 1..(l - 5) /\ i + 1 \in 1..(l - 5) /\ i + 2 \in 1..(l - 5)
        /\ i + 5 = n /\ i + 1 + 5 = n + 1 /\ i + 2 + 5 = n + 2 /\ i + 3 + 5 = n + 3
        /\ i + 3 \in 1..(l - 4)
    BY <1>1, <1>5, <1>9, <2>3
  <2> HIDE DEF i
  <2>5. z[i] = "aa" /\ z[i + 1] = "55" /\ z[i + 2] = "55"
    <3>1. /\ z[i] = ValueAt(r, i + 5) /\ z[i + 1] = ValueAt(r, i + 1 + 5)
          /\ z[i + 2] = ValueAt(r, i + 2 + 5)
      BY <2>1, <2>4
    <3>2. /\ ValueAt(r, n) = "aa" /\ ValueAt(r, n + 1) = "55" /\ ValueAt(r, n + 2) = "55"
      BY <1>2, <1>4, <1>5
    <3> QED  BY <2>4, <3>1, <3>2
  <2>6. z[i + 3] = "aa"
    <3>1. CASE n + 2 = l
      <4>1. i + 3 = l - 4
        BY <1>1, <2>4, <3>1
      <4> QED  BY <2>1, <4>1
    <3>2. CASE c4.rec = r /\ c4.at = n + 3
      <4>1. c4.at \in 1..l
        BY <3>2 DEF Genuine
      <4>2. i + 3 \in 1..(l - 5)
        BY <1>1, <2>4, <3>2, <4>1
      <4>3. z[i + 3] = ValueAt(r, i + 3 + 5)
        BY <2>1, <4>2
      <4>4. ValueAt(r, n + 3) = "aa"
        BY <1>2, <3>2
      <4> QED  BY <2>4, <4>3, <4>4
    <3> QED  BY <1>6, <3>1, <3>2
  <2>7. i \in 1..(Len(z) - 3)
    BY <1>1, <2>1, <2>4
  <2>8. HasMagic(z)
    BY <2>1, <2>5, <2>6, <2>7, MagicAt
  <2> QED  BY <2>2, <2>8
<1> QED  BY <1>1, <1>7, <1>8, <1>9

(* The next byte in the window of the parser that searches.                 *)
LEMMA WindowTakes ==
  ASSUME Typed, NEW w, Bytes(w), NEW b \in AnyByte, Genuine(b),
         NEW s, s # <<>>, s[1] = b, Searches(w, s)
  PROVE  LET v == Append(w, b)
             n == Len(w)
         IN /\ n \in Nat /\ v \in Seq(AnyByte) /\ Len(v) = n + 1 /\ DOMAIN v = 1..(n + 1)
            /\ v[n + 1] = b
            /\ \A i \in 1..(n + 1) : v[i] \in AnyByte /\ Genuine(v[i])
            /\ \A i \in 1..n : Follows(v[i], v[i + 1])
            /\ \A i \in 1..n : v[i].at <= 3 \/ ~Ambiguous(v[i].rec)
<1> DEFINE v == Append(w, b)
           n == Len(w)
<1>1. w \in Seq(AnyByte) /\ n \in Nat /\ DOMAIN w = 1..n /\ (w # <<>> <=> n > 0)
  BY NotEmpty DEF Bytes
<1>2. /\ v \in Seq(AnyByte) /\ Len(v) = n + 1 /\ \A i \in 1..n : v[i] = w[i]
      /\ v[n + 1] = b
  BY <1>1, AppendProperties
<1>3. DOMAIN v = 1..(n + 1)
  BY <1>2, LenProperties
<1> HIDE DEF v
<1>4. /\ \A i \in 1..(n - 1) : Follows(w[i], w[i + 1])
      /\ n > 0 => Follows(w[n], b)
      /\ \A i \in 1..n : w[i].at <= 3 \/ ~Ambiguous(w[i].rec)
      /\ \A i \in 1..n : Genuine(w[i]) /\ w[i] \in AnyByte
  <2>1. \A i \in 1..n : Genuine(w[i]) /\ w[i] \in AnyByte
    BY <1>1, ElementOfSeq DEF Bytes
  <2> QED  BY <1>1, <2>1 DEF Searches
<1> HIDE DEF n
<1>5. \A i \in 1..(n + 1) : (i \in 1..n /\ v[i] = w[i]) \/ (i = n + 1 /\ v[i] = b)
  BY <1>1, <1>2
<1>6. \A i \in 1..(n + 1) : v[i] \in AnyByte /\ Genuine(v[i])
  BY <1>4, <1>5
<1>7. ASSUME NEW i \in 1..n PROVE Follows(v[i], v[i + 1])
  <2>1. CASE i < n
    <3>1. i \in 1..(n - 1) /\ i + 1 \in 1..n
      BY <1>1, <2>1
    <3> QED  BY <1>2, <1>4, <3>1
  <2>2. CASE i = n
    BY <1>1, <1>2, <1>4, <2>2
  <2> QED  BY <1>1, <2>1, <2>2
<1>8. \A i \in 1..n : v[i].at <= 3 \/ ~Ambiguous(v[i].rec)
  BY <1>2, <1>4
<1> QED  BY <1>1, <1>2, <1>3, <1>6, <1>7, <1>8 DEF v, n

(* The values in a window are the magic number when there are four of them  *)
(* and each is the one of its place.                                        *)
LEMMA Matches ==
  ASSUME NEW n \in Nat, NEW v, DOMAIN v = 1..(n + 1)
  PROVE  Values(v) = MagicNumber <=>
           /\ n = 3 /\ v[1].value = "aa" /\ v[2].value = "55"
           /\ v[3].value = "55" /\ v[4].value = "aa"
<1> DEFINE u == Values(v)
<1>1. DOMAIN u = 1..(n + 1) /\ \A i \in 1..(n + 1) : u[i] = v[i].value
  BY DEF Values
<1>2. u = [i \in 1..(n + 1) |-> v[i].value]
  BY DEF Values
<1> HIDE DEF u
<1>3. DOMAIN MagicNumber = 1..4 /\ MagicNumber = [i \in 1..4 |-> MagicNumber[i]]
  <2>1. MagicNumber \in Seq(ByteValue) /\ Len(MagicNumber) = 4
    BY Layout
  <2> QED  BY <2>1, LenProperties, SeqDef
<1>4. ASSUME u = MagicNumber
      PROVE  /\ n = 3 /\ v[1].value = "aa" /\ v[2].value = "55"
             /\ v[3].value = "55" /\ v[4].value = "aa"
  <2>1. 1..(n + 1) = 1..4
    BY <1>1, <1>3, <1>4
  <2>2. n = 3
    <3>1. n + 1 \in 1..(n + 1) /\ 4 \in 1..4
      OBVIOUS
    <3>2. n + 1 \in 1..4 /\ 4 \in 1..(n + 1)
      BY <2>1, <3>1
    <3> QED  BY <3>2
  <2> QED  BY <1>1, <1>4, <2>2, Layout
<1>5. ASSUME n = 3, v[1].value = "aa", v[2].value = "55", v[3].value = "55", v[4].value = "aa"
      PROVE  u = MagicNumber
  <2>1. \A i \in 1..4 : v[i].value = MagicNumber[i]
    <3>1. \A i \in 1..4 : i = 1 \/ i = 2 \/ i = 3 \/ i = 4
      OBVIOUS
    <3> QED  BY <1>5, <3>1, Layout
  <2>2. n + 1 = 4
    BY <1>5
  <2> QED  BY <1>2, <1>3, <2>1, <2>2
<1> QED  BY <1>4, <1>5 DEF u

(* A match is the magic number of a record, read to its end.                *)
LEMMA MatchEnds ==
  ASSUME Typed, NEW w, Bytes(w), NEW b \in AnyByte, Genuine(b),
         NEW s, s # <<>>, s[1] = b, Searches(w, s), Values(Append(w, b)) = MagicNumber
  PROVE  b.at = 4
<1> DEFINE v == Append(w, b)
           n == Len(w)
<1>1. /\ n \in Nat /\ DOMAIN v = 1..(n + 1) /\ v[n + 1] = b
      /\ \A i \in 1..(n + 1) : v[i] \in AnyByte /\ Genuine(v[i])
      /\ \A i \in 1..n : Follows(v[i], v[i + 1])
      /\ \A i \in 1..n : v[i].at <= 3 \/ ~Ambiguous(v[i].rec)
  BY WindowTakes
<1>2. Values(v) = MagicNumber
  OBVIOUS
<1> HIDE DEF v, n
<1>3. /\ n = 3 /\ v[1].value = "aa" /\ v[2].value = "55"
      /\ v[3].value = "55" /\ v[4].value = "aa"
  BY <1>1, <1>2, Matches
<1>4. v[4] = b
  <2>1. n + 1 = 4
    BY <1>3
  <2> QED  BY <1>1, <2>1
<1>5. /\ \A i \in 1..4 : v[i] \in AnyByte /\ Genuine(v[i])
      /\ Follows(v[1], v[2]) /\ Follows(v[2], v[3]) /\ Follows(v[3], v[4])
  <2>1. /\ Follows(v[1], v[1 + 1]) /\ Follows(v[2], v[2 + 1]) /\ Follows(v[3], v[3 + 1])
        /\ n + 1 = 4
    BY <1>1, <1>3
  <2> QED  BY <1>1, <2>1
<1>6. v[1].at <= 3 \/ ~Ambiguous(v[1].rec)
  BY <1>1, <1>3
<1>7. \A c1, c2, c3, c4 \in AnyByte :
        /\ Genuine(c1) /\ Genuine(c2) /\ Genuine(c3) /\ Genuine(c4)
        /\ Follows(c1, c2) /\ Follows(c2, c3) /\ Follows(c3, c4)
        /\ c1.value = "aa" /\ c2.value = "55" /\ c3.value = "55" /\ c4.value = "aa"
        /\ (c1.at <= 3 \/ ~Ambiguous(c1.rec))
        => c4.at = 4
  BY OnlyMagic
<1> QED  BY <1>3, <1>4, <1>5, <1>6, <1>7

(* Without a match the byte moves into the window.                          *)
LEMMA NoMatchMoves ==
  ASSUME Typed, NEW w, Bytes(w), Len(w) < 4, NEW b \in AnyByte, Genuine(b),
         NEW s, s # <<>>, s[1] = b, Searches(w, s), Values(Append(w, b)) # MagicNumber,
         NEW t, t # <<>> => Follows(b, t[1]), t # <<>> \/ Ends(b)
  PROVE  Searches(IF Len(Append(w, b)) = 4 THEN Tail(Append(w, b)) ELSE Append(w, b), t)
<1> DEFINE v == Append(w, b)
           n == Len(w)
<1>1. /\ n \in Nat /\ v \in Seq(AnyByte) /\ Len(v) = n + 1 /\ DOMAIN v = 1..(n + 1)
      /\ v[n + 1] = b
      /\ \A i \in 1..(n + 1) : v[i] \in AnyByte /\ Genuine(v[i])
      /\ \A i \in 1..n : Follows(v[i], v[i + 1])
      /\ \A i \in 1..n : v[i].at <= 3 \/ ~Ambiguous(v[i].rec)
  BY WindowTakes
<1>2. n <= 3
  BY <1>1
<1>3. Values(v) # MagicNumber
  OBVIOUS
<1>4. b.at = 1 \/ ~Ambiguous(b.rec) \/ (b.at <= 4 /\ n >= b.at - 1)
  BY DEF Searches
<1> DEFINE u == Tail(v)
<1>5. /\ u \in Seq(AnyByte) /\ Len(u) = n
      /\ \A i \in 1..n : u[i] = v[i + 1]
  <2>1. v # <<>>
    BY <1>1, NotEmpty
  <2>2. /\ u \in Seq(AnyByte) /\ Len(u) = Len(v) - 1
        /\ \A i \in 1..Len(u) : u[i] = v[i + 1]
    BY <1>1, <2>1, HeadTailProperties
  <2> HIDE DEF u, v, n
  <2>3. Len(u) = n
    BY <1>1, <2>2
  <2> QED  BY <2>2, <2>3
<1> HIDE DEF v, n, u
<1>6. DOMAIN u = 1..n /\ (u # <<>> <=> n > 0)
  BY <1>5, NotEmpty
<1>7. b \in AnyByte /\ b.rec \in DOMAIN records /\ b.at \in Nat /\ b.at >= 1
  BY DEF Genuine, AnyByte
<1>8. ASSUME b.at = 4, n >= 3, Ambiguous(b.rec) PROVE FALSE
  <2>1. n = 3 /\ n + 1 = 4 /\ v[4] = b
    BY <1>1, <1>2, <1>8
  <2>2. Follows(v[1], v[1 + 1]) /\ Follows(v[2], v[2 + 1]) /\ Follows(v[3], v[3 + 1])
    BY <1>1, <2>1
  <2>3. Follows(v[1], v[2]) /\ Follows(v[2], v[3]) /\ Follows(v[3], b)
    BY <2>1, <2>2
  <2>4. /\ v[1].at \in Nat /\ v[2].at \in Nat /\ v[3].at \in Nat
    <3>1. v[1] \in AnyByte /\ v[2] \in AnyByte /\ v[3] \in AnyByte
      BY <1>1, <2>1
    <3> QED  BY <3>1 DEF AnyByte
  <2>5. v[3].rec = b.rec /\ v[3].at = 3
    BY <1>8, <2>3, <2>4 DEF Follows
  <2>6. v[2].rec = b.rec /\ v[2].at = 2
    BY <2>3, <2>4, <2>5 DEF Follows
  <2>7. v[1].rec = b.rec /\ v[1].at = 1
    BY <2>3, <2>4, <2>6 DEF Follows
  <2>8. /\ v[1].value = ValueAt(b.rec, 1) /\ v[2].value = ValueAt(b.rec, 2)
        /\ v[3].value = ValueAt(b.rec, 3) /\ b.value = ValueAt(b.rec, 4)
    <3>1. Genuine(v[1]) /\ Genuine(v[2]) /\ Genuine(v[3])
      BY <1>1, <2>1
    <3> QED  BY <1>8, <2>5, <2>6, <2>7, <3>1 DEF Genuine
  <2>9. /\ v[1].value = "aa" /\ v[2].value = "55" /\ v[3].value = "55" /\ v[4].value = "aa"
    BY <2>1, <2>8, Layout DEF ValueAt
  <2> QED  BY <1>1, <1>3, <2>1, <2>9, Matches
<1>9. b.at <= 3 \/ ~Ambiguous(b.rec)
  BY <1>4, <1>7, <1>8
<1>10. \A i \in 1..(n + 1) : v[i].at <= 3 \/ ~Ambiguous(v[i].rec)
  BY <1>1, <1>9
<1>11. ASSUME NEW m \in Nat, m >= 3 \/ m = n + 1, t # <<>>
       PROVE  t[1].at = 1 \/ ~Ambiguous(t[1].rec) \/ (t[1].at <= 4 /\ m >= t[1].at - 1)
  <2>1. CASE t[1].at = 1
    BY <2>1
  <2>2. CASE t[1].rec = b.rec /\ t[1].at = b.at + 1
    <3>1. CASE ~Ambiguous(b.rec)
      BY <2>2, <3>1
    <3>2. CASE Ambiguous(b.rec)
      <4>1. b.at <= 3 /\ (b.at = 1 \/ n >= b.at - 1)
        BY <1>4, <1>9, <3>2
      <4>2. t[1].at - 1 = b.at /\ t[1].at <= 4
        BY <1>7, <2>2, <4>1
      <4>3. m >= b.at
        BY <1>1, <1>7, <1>11, <4>1
      <4> QED  BY <4>2, <4>3
    <3> QED  BY <3>1, <3>2
  <2> QED  BY <1>11, <2>1, <2>2 DEF Follows
<1>12. CASE Len(v) = 4
  <2>1. n = 3
    <3>1. n + 1 = 4
      BY <1>1, <1>12
    <3> QED  BY <1>1, <3>1
  <2>2. \A i \in 1..(n - 1) : Follows(u[i], u[i + 1])
    <3> SUFFICES ASSUME NEW i \in 1..(n - 1) PROVE Follows(u[i], u[i + 1])
      OBVIOUS
    <3>1. i \in 1..n /\ i + 1 \in 1..n
      BY <1>1
    <3>2. u[i] = v[i + 1] /\ u[i + 1] = v[i + 1 + 1] /\ Follows(v[i + 1], v[i + 1 + 1])
      BY <1>1, <1>5, <3>1
    <3> QED  BY <3>2
  <2>3. u[n] = b
    BY <1>1, <1>5, <2>1
  <2>4. \A i \in 1..n : u[i].at <= 3 \/ ~Ambiguous(u[i].rec)
    <3> SUFFICES ASSUME NEW i \in 1..n PROVE u[i].at <= 3 \/ ~Ambiguous(u[i].rec)
      OBVIOUS
    <3>1. i + 1 \in 1..(n + 1)
      BY <1>1
    <3> QED  BY <1>5, <1>10, <3>1
  <2>5. t # <<>> => t[1].at = 1 \/ ~Ambiguous(t[1].rec) \/ (t[1].at <= 4 /\ n >= t[1].at - 1)
    BY <1>1, <1>11, <2>1
  <2>6. Searches(u, t)
    BY <1>5, <1>6, <2>2, <2>3, <2>4, <2>5 DEF Searches
  <2> QED  BY <1>12, <2>6 DEF u, v
<1>13. CASE Len(v) # 4
  <2>1. Len(v) - 1 = n
    BY <1>1
  <2>2. t # <<>> => \/ t[1].at = 1 \/ ~Ambiguous(t[1].rec)
                   \/ (t[1].at <= 4 /\ Len(v) >= t[1].at - 1)
    BY <1>1, <1>11
  <2>3. v[Len(v)] = b
    BY <1>1
  <2>4. Searches(v, t)
    BY <1>1, <1>10, <2>1, <2>2, <2>3 DEF Searches
  <2> QED  BY <1>13, <2>4 DEF v
<1> QED  BY <1>12, <1>13 DEF v

(* The parser in front of a record finds its magic (parser.cpp).            *)
LEMMA SkipStream ==
  ASSUME Typed, StreamInv, Parse, SkipMagic(Head(queueTty)), UNCHANGED packets
  PROVE  StreamInv'
<1> DEFINE b == InFlight[1]
           s == InFlight
           t == InFlight'
           w == parser.window
           v == Append(w, b)
<1>1. UNCHANGED <<records, usb_queue, reading>> /\ queueTty # <<>>
  BY DEF Parse, espVars
<1>2. /\ InFlight # <<>> /\ Head(queueTty) = b /\ b \in AnyByte /\ Genuine(b)
      /\ \A j \in DOMAIN InFlight' :
           /\ \E k \in DOMAIN InFlight : InFlight'[j] = InFlight[k]
           /\ Genuine(InFlight'[j]) /\ InFlight'[j] \in AnyByte
      /\ InFlight' # <<>> => 1 \in DOMAIN InFlight'
      /\ LineWhole'
      /\ queueTty' # <<>> \/ reading =>
           /\ InFlight' # <<>> => Follows(b, InFlight'[1])
           /\ InFlight' # <<>> \/ Ends(b)
  BY TakeByte
<1>3. QueueBehind' /\ PacketsBefore' /\ CapturedInOrder'
  BY <1>1, <1>2, Fewer DEF StreamInv
<1>4. parser.at = "magic"
  BY DEF SkipMagic
<1>5. Searches(w, s) /\ WindowBefore(w) /\ Bytes(w) /\ Len(w) < 4
  BY <1>1, <1>4 DEF StreamInv, ParserFits, Typed, ParserType
<1>6. s # <<>> /\ s[1] = b
  BY <1>2
<1>7. ASSUME queueTty' # <<>> \/ reading PROVE ParserFits'
  <2>1. (t # <<>> => Follows(b, t[1])) /\ (t # <<>> \/ Ends(b))
    BY <1>2, <1>7
  <2>2. CASE Values(v) = MagicNumber
    <3>1. parser' = [at |-> "header", head |-> <<>>]
      BY <1>2, <2>2 DEF SkipMagic
    <3>2. b.at = 4
      BY <1>2, <1>5, <1>6, <2>2, MatchEnds
    <3>3. ~Ends(b)
      <4>1. RecordLen(b.rec) \in Nat /\ RecordLen(b.rec) >= 5
        BY <1>2, RecordBytesAre, Layout DEF Genuine
      <4> QED  BY <3>2, <4>1 DEF Ends
    <3>4. t # <<>> /\ t[1].at = 5
      BY <2>1, <3>2, <3>3 DEF Follows
    <3>5. Len(<<>>) = 0
      BY EmptySeq
    <3> QED  BY <3>1, <3>4, <3>5 DEF ParserFits, Heads
  <2>3. CASE Values(v) # MagicNumber
    <3> DEFINE x == IF Len(v) = 4 THEN Tail(v) ELSE v
    <3>1. parser' = [Skipping EXCEPT !.window = x]
      BY <1>2, <2>3 DEF SkipMagic
    <3>2. parser'.at = "magic" /\ parser'.window = x
      BY <3>1 DEF Skipping
    <3>3. Searches(x, t)
      BY <1>2, <1>5, <1>6, <2>1, <2>3, NoMatchMoves
    <3>4. WindowBefore(x)
      <4>1. /\ Len(w) \in Nat /\ v \in Seq(AnyByte) /\ Len(v) = Len(w) + 1
            /\ DOMAIN v = 1..(Len(w) + 1) /\ v[Len(w) + 1] = b
        BY <1>2, <1>5, <1>6, WindowTakes
      <4>2. w \in Seq(AnyByte) /\ DOMAIN w = 1..Len(w)
        BY <1>5, LenProperties DEF Bytes
      <4>3. \A i \in 1..Len(w) : v[i] = w[i]
        BY <1>2, <4>2, AppendProperties
      <4>4. \A j \in DOMAIN usb_queue : b.rec < usb_queue[j]
        <5>1. 1 \in DOMAIN InFlight
          BY <1>2, FlightType
        <5> QED  BY <5>1 DEF StreamInv, QueueBehind
      <4>5. \A i \in DOMAIN v : (i \in DOMAIN w /\ v[i] = w[i]) \/ v[i] = b
        BY <4>1, <4>2, <4>3
      <4>6. WindowBefore(v)
        BY <1>5, <4>4, <4>5 DEF WindowBefore
      <4> HIDE DEF v
      <4>7. \A i \in DOMAIN Tail(v) : i + 1 \in DOMAIN v /\ Tail(v)[i] = v[i + 1]
        <5>1. v # <<>>
          BY <4>1, NotEmpty
        <5>2. /\ Tail(v) \in Seq(AnyByte) /\ Len(Tail(v)) = Len(v) - 1
              /\ \A i \in 1..Len(Tail(v)) : Tail(v)[i] = v[i + 1]
          BY <4>1, <5>1, HeadTailProperties
        <5>3. DOMAIN Tail(v) = 1..Len(Tail(v))
          BY <5>2, LenProperties
        <5> QED  BY <4>1, <5>2, <5>3
      <4>8. WindowBefore(Tail(v))
        BY <4>6, <4>7 DEF WindowBefore
      <4> QED  BY <4>6, <4>8
    <3> HIDE DEF x
    <3>5. Searches(parser.window, InFlight)'
      BY <1>1, <3>2, <3>3, SearchStays
    <3>6. WindowBefore(parser.window)'
      BY <1>1, <3>2, <3>4, WindowStays
    <3> QED  BY <3>2, <3>5, <3>6 DEF ParserFits
  <2> QED  BY <2>2, <2>3
<1>8. ParserFits'
  BY <1>1, <1>7 DEF ParserFits
<1> QED  BY <1>2, <1>3, <1>8 DEF StreamInv

(* Behind the magic number the parser reads the header of the record.       *)
LEMMA HeaderStream ==
  ASSUME Typed, StreamInv, Parse, ReadHeader(Head(queueTty))
  PROVE  StreamInv'
<1> DEFINE b == InFlight[1]
           r == b.rec
           c == InFlight'[1]
<1>1. UNCHANGED <<records, usb_queue, reading>> /\ queueTty # <<>> /\ parser.at = "header"
  BY DEF Parse, espVars, ReadHeader
<1>2. /\ InFlight # <<>> /\ Head(queueTty) = b /\ b \in AnyByte /\ Genuine(b)
      /\ \A j \in DOMAIN InFlight' :
           /\ \E k \in DOMAIN InFlight : InFlight'[j] = InFlight[k]
           /\ Genuine(InFlight'[j]) /\ InFlight'[j] \in AnyByte
      /\ InFlight' # <<>> => 1 \in DOMAIN InFlight'
      /\ LineWhole'
      /\ queueTty' # <<>> \/ reading =>
           /\ InFlight' # <<>> => Follows(b, c)
           /\ InFlight' # <<>> \/ Ends(b)
  BY TakeByte
<1>3. Heads(b) /\ Bytes(parser.head) /\ Len(parser.head) < HeaderLen
  BY <1>1 DEF StreamInv, ParserFits, Typed, ParserType
<1> DEFINE n == Len(parser.head)
           head == Append(parser.head, b)
<1>4. /\ n \in Nat /\ n < HeaderLen /\ b.at = 5 + n /\ r \in DOMAIN records
      /\ parser.head \in Seq(AnyByte) /\ (parser.head # <<>> <=> n > 0)
  BY <1>2, <1>3, NotEmpty DEF Heads, Genuine, Bytes
<1>5. /\ head \in Seq(AnyByte) /\ Len(head) = n + 1
      /\ head # <<>> /\ head[1].value = "hdr" /\ head[1].rec = r
  <2>1. /\ head \in Seq(AnyByte) /\ Len(head) = n + 1
        /\ \A i \in 1..n : head[i] = parser.head[i]
        /\ head[n + 1] = b
    BY <1>2, <1>4, AppendProperties
  <2>2. head # <<>>
    <3> HIDE DEF head, n
    <3>1. Len(head) > 0
      BY <1>4, <2>1
    <3> QED  BY <2>1, <3>1, NotEmpty
  <2>3. CASE n = 0
    <3>1. head[1] = b /\ b.at = 5
      BY <1>4, <2>1, <2>3
    <3>2. b.value = "hdr"
      BY <1>2, <3>1 DEF Genuine, ValueAt
    <3> QED  BY <2>1, <2>2, <3>1, <3>2
  <2>4. CASE n > 0
    <3>1. head[1] = parser.head[1]
      BY <1>4, <2>1, <2>4
    <3>2. parser.head[1].value = "hdr" /\ parser.head[1].rec = r
      BY <1>3, <1>4, <2>4 DEF Heads
    <3> QED  BY <2>1, <2>2, <3>1, <3>2
  <2> QED  BY <1>4, <2>3, <2>4
<1> HIDE DEF b
<1> DEFINE type == records[r].type
           size == Len(records[r].body)
<1>6. /\ size \in 0..MaxBodySize /\ type \in Types /\ MaxBodySize \in Nat
      /\ type = "its" => size > 0
  <2>1. /\ records[r].body \in Seq(ByteValue) /\ size \in 0..MaxBodySize
        /\ type \in Types /\ (type = "its" => records[r].body \in Bodies)
    BY <1>4, BodyType
  <2>2. records[r].body # <<>> => size > 0
    BY <2>1, NotEmpty
  <2> QED  BY <2>1, <2>2, StreamAssumption
<1>7. Headers(head) = {[type |-> type, size |-> size]}
  BY <1>5 DEF Headers
<1>8. RecordLen(r) = HeadEnd + size
  BY DEF RecordLen
<1>9. ASSUME NEW k \in Nat, b.at = k, k < RecordLen(r), queueTty' # <<>> \/ reading
      PROVE  InFlight' # <<>> /\ c.rec = r /\ c.at = k + 1
  <2>1. ~Ends(b)
    BY <1>9 DEF Ends, r
  <2> QED  BY <1>2, <1>9, <2>1 DEF Follows, r
<1>10. /\ b.at = HeadEnd /\ size = 0 /\ (queueTty' # <<>> \/ reading) /\ InFlight' # <<>>
         => c.at = 1
  <2> SUFFICES ASSUME b.at = HeadEnd, size = 0, queueTty' # <<>> \/ reading, InFlight' # <<>>
               PROVE  c.at = 1
    OBVIOUS
  <2>1. Follows(b, c) /\ Genuine(c) /\ RecordLen(r) = HeadEnd
    BY <1>2, <1>8, Layout
  <2>2. c.rec = r => c.at \in 1..HeadEnd
    BY <2>1 DEF Genuine
  <2> QED  BY <2>1, <2>2, Layout DEF Follows, r
<1> HIDE DEF r, c, type, size, head
<1>11. \/ /\ n + 1 < HeaderLen /\ parser' = [parser EXCEPT !.head = head] /\ UNCHANGED packets
       \/ n + 1 = HeaderLen /\ size = 0 /\ parser' = Skipping /\ UNCHANGED packets
       \/ /\ n + 1 = HeaderLen /\ size > 0 /\ UNCHANGED packets
          /\ parser' = [at |-> "body", type |-> type, size |-> size, body |-> <<>>]
  <2>1. CASE /\ Len(head) < HeaderLen
             /\ parser' = [parser EXCEPT !.head = head] /\ UNCHANGED packets
    BY <1>5, <2>1
  <2>2. ASSUME NEW h \in Headers(head), Len(head) = HeaderLen,
          \/ h.size > MaxBodySize /\ parser' = Skipping /\ UNCHANGED packets
          \/ h.size = 0 /\ parser' = Skipping /\ Deliver(h.type, <<>>)
          \/ /\ h.size \in 1..MaxBodySize
             /\ parser' = [at |-> "body", type |-> h.type, size |-> h.size, body |-> <<>>]
             /\ UNCHANGED packets
        PROVE \/ size = 0 /\ parser' = Skipping /\ UNCHANGED packets
              \/ /\ size > 0 /\ UNCHANGED packets
                 /\ parser' = [at |-> "body", type |-> type, size |-> size, body |-> <<>>]
    <3>1. h.size = size /\ h.type = type
      BY <1>7
    <3>2. CASE size = 0
      <4>1. type # "its"
        BY <1>6, <3>2
      <4> QED  BY <1>6, <2>2, <3>1, <3>2, <4>1 DEF Deliver
    <3>3. CASE size # 0
      BY <1>6, <2>2, <3>1, <3>3
    <3> QED  BY <3>2, <3>3
  <2>3. \/ /\ Len(head) < HeaderLen
           /\ parser' = [parser EXCEPT !.head = head] /\ UNCHANGED packets
        \/ /\ Len(head) = HeaderLen
           /\ \E h \in Headers(head) :
                \/ h.size > MaxBodySize /\ parser' = Skipping /\ UNCHANGED packets
                \/ h.size = 0 /\ parser' = Skipping /\ Deliver(h.type, <<>>)
                \/ /\ h.size \in 1..MaxBodySize
                   /\ parser' = [at |-> "body", type |-> h.type, size |-> h.size, body |-> <<>>]
                   /\ UNCHANGED packets
    BY <1>2 DEF ReadHeader, head
  <2> QED  BY <1>5, <2>1, <2>2, <2>3
<1>12. QueueBehind' /\ PacketsBefore' /\ CapturedInOrder'
  <2>1. UNCHANGED packets
    BY <1>11
  <2> QED  BY <1>1, <1>2, <2>1, Fewer DEF StreamInv
<1>13. ParserFits'
  <2>1. CASE n + 1 < HeaderLen /\ parser' = [parser EXCEPT !.head = head]
    <3>1. parser'.at = "header" /\ parser'.head = head
      BY <1>1, <2>1 DEF Typed, ParserType
    <3>2. 5 + n < RecordLen(r) /\ 5 + n \in Nat
      BY <1>4, <1>6, <1>8, <2>1, Layout
    <3>3. ASSUME queueTty' # <<>> \/ reading
          PROVE  InFlight' # <<>> /\ c.rec = r /\ c.at = 5 + Len(head)
      <4>1. InFlight' # <<>> /\ c.rec = r /\ c.at = 5 + n + 1
        BY <1>4, <1>9, <3>2, <3>3
      <4> QED  BY <1>4, <1>5, <4>1
    <3> QED  BY <1>1, <1>5, <3>1, <3>3 DEF ParserFits, Heads, c
  <2>2. CASE n + 1 = HeaderLen /\ size = 0 /\ parser' = Skipping
    <3>1. b.at = HeadEnd
      BY <1>4, <2>2, Layout
    <3>2. (queueTty' # <<>> \/ reading) /\ InFlight' # <<>> => c.at = 1
      BY <1>10, <2>2, <3>1
    <3> QED  BY <1>1, <2>2, <3>2, SearchBegins DEF c
  <2>3. CASE /\ n + 1 = HeaderLen /\ size > 0
             /\ parser' = [at |-> "body", type |-> type, size |-> size, body |-> <<>>]
    <3>1. b.at = HeadEnd /\ HeadEnd \in Nat /\ HeadEnd < RecordLen(r)
      BY <1>4, <1>6, <1>8, <2>3, Layout
    <3>2. ASSUME queueTty' # <<>> \/ reading
          PROVE  InFlight' # <<>> /\ c.rec = r /\ c.at = HeadEnd + 1
      BY <1>9, <3>1, <3>2
    <3>3. parser'.body = <<>> /\ Len(<<>>) = 0 /\ DOMAIN <<>> = {}
      BY <2>3, EmptySeq
    <3>4. HeadEnd + 1 + 0 = HeadEnd + 1
      BY <3>1
    <3> QED  BY <1>1, <2>3, <3>2, <3>3, <3>4 DEF ParserFits, Reads, type, size, c
  <2> QED  BY <1>11, <2>1, <2>2, <2>3
<1> QED  BY <1>2, <1>12, <1>13 DEF StreamInv

(* It reads the body as announced, and hands on that of an ITS record.      *)
LEMMA BodyStream ==
  ASSUME Typed, StreamInv, Parse, ReadBody(Head(queueTty))
  PROVE  StreamInv'
<1> DEFINE b == InFlight[1]
           r == b.rec
           c == InFlight'[1]
           n == Len(parser.body)
           body == Append(parser.body, b)
<1>1. UNCHANGED <<records, usb_queue, reading>> /\ queueTty # <<>> /\ parser.at = "body"
  BY DEF Parse, espVars, ReadBody
<1>2. /\ InFlight # <<>> /\ Head(queueTty) = b /\ b \in AnyByte /\ Genuine(b)
      /\ \A j \in DOMAIN InFlight' :
           /\ \E k \in DOMAIN InFlight : InFlight'[j] = InFlight[k]
           /\ Genuine(InFlight'[j]) /\ InFlight'[j] \in AnyByte
           /\ Earlier(b, InFlight'[j])
      /\ InFlight' # <<>> => 1 \in DOMAIN InFlight'
      /\ LineWhole'
      /\ queueTty' # <<>> \/ reading =>
           /\ InFlight' # <<>> => Follows(b, c)
           /\ InFlight' # <<>> \/ Ends(b)
  BY TakeByte
<1>3. /\ parser \in [at : {"body"}, type : AnyType, size : 1..MaxBodySize, body : Seq(AnyByte)]
      /\ parser.body \in Seq(AnyByte) /\ n \in Nat /\ parser.size \in Nat /\ n < parser.size
  <2>1. /\ parser \in [at : {"body"}, type : AnyType, size : 1..MaxBodySize, body : Seq(AnyByte)]
        /\ n < parser.size
    BY <1>1 DEF Typed, ParserType
  <2> QED  BY <2>1, LenProperties
<1>4. Reads(b)
  BY <1>1 DEF StreamInv, ParserFits
<1> DEFINE size == Len(records[r].body)
<1>5. /\ r \in DOMAIN records /\ r \in Nat /\ b.at = HeadEnd + 1 + n /\ parser.size = size
      /\ parser.type = records[r].type /\ size \in Nat
      /\ \A i \in DOMAIN parser.body : parser.body[i] = BodyBytes(r)[i]
      /\ b.value = ValueAt(r, b.at) /\ RecordLen(r) = HeadEnd + size
      /\ DOMAIN records[r].body = 1..size
  <2>1. r \in DOMAIN records /\ b.value = ValueAt(r, b.at)
    BY <1>2 DEF Genuine
  <2>2. records[r].body \in Seq(ByteValue) /\ r \in Nat
    BY <2>1, BodyType
  <2>3. size \in Nat /\ DOMAIN records[r].body = 1..size
    BY <2>2, LenProperties
  <2> QED  BY <1>4, <2>1, <2>2, <2>3 DEF Reads, RecordLen
<1>6. /\ body \in Seq(AnyByte) /\ Len(body) = n + 1 /\ DOMAIN body = 1..(n + 1)
      /\ \A i \in 1..n : body[i] = parser.body[i]
      /\ body[n + 1] = b
      /\ DOMAIN parser.body = 1..n
  <2>1. parser.body \in Seq(AnyByte) /\ b \in AnyByte
    BY <1>2, <1>3
  <2> HIDE DEF b
  <2>2. /\ body \in Seq(AnyByte) /\ Len(body) = n + 1
        /\ \A i \in 1..n : body[i] = parser.body[i]
        /\ body[n + 1] = b
    BY <2>1, AppendProperties
  <2>3. DOMAIN body = 1..(n + 1) /\ DOMAIN parser.body = 1..n
    BY <2>1, <2>2, LenProperties
  <2> QED  BY <2>2, <2>3
<1>7. b = Byte(records[r].body[n + 1], r, n + 1 + HeadEnd)
  <2>1. b = [value |-> b.value, rec |-> b.rec, at |-> b.at]
    BY <1>2 DEF AnyByte
  <2>2. /\ ~(b.at <= 4) /\ ~(b.at = 5) /\ ~(b.at <= HeadEnd) /\ b.at - HeadEnd = n + 1
        /\ b.at = n + 1 + HeadEnd
    BY <1>3, <1>5, Layout
  <2>3. b.value = records[r].body[n + 1]
    BY <1>5, <2>2 DEF ValueAt
  <2> QED  BY <2>1, <2>2, <2>3 DEF Byte
<1>8. n + 1 \in DOMAIN records[r].body
  BY <1>3, <1>5
<1>9. BodyBytes(r)[n + 1] = b
  BY <1>7, <1>8 DEF BodyBytes
<1>10. \A i \in DOMAIN body : body[i] = BodyBytes(r)[i]
  BY <1>3, <1>5, <1>6, <1>9
<1> HIDE DEF b, r, c, n, body, size
<1>11. CASE n + 1 = parser.size
  <2>1. parser' = Skipping /\ Deliver(parser.type, body)
    BY <1>2, <1>11 DEF ReadBody, n, body
  <2>2. ParserFits'
    <3>1. Ends(b) /\ RecordLen(r) \in Nat
      <4>1. HeadEnd \in Nat
        BY Layout
      <4>2. b.at = RecordLen(r) /\ RecordLen(r) \in Nat
        BY <1>3, <1>5, <1>11, <4>1
      <4> QED  BY <4>2 DEF Ends, r
    <3>2. ASSUME queueTty' # <<>> \/ reading, InFlight' # <<>> PROVE c.at = 1
      <4>1. Follows(b, c) /\ Genuine(c)
        BY <1>2, <3>2 DEF c
      <4>2. c.rec = r => c.at \in 1..RecordLen(r)
        BY <4>1 DEF Genuine
      <4> QED  BY <3>1, <4>1, <4>2 DEF Follows, Ends, r
    <3> QED  BY <1>1, <2>1, <3>2, SearchBegins DEF c
  <2>3. CASE parser.type # "its"
    <3>1. UNCHANGED packets
      BY <2>1, <2>3 DEF Deliver
    <3> QED  BY <1>1, <1>2, <2>2, <3>1, Fewer DEF StreamInv
  <2>4. CASE parser.type = "its"
    <3>1. packets' = Append(packets, body)
      BY <2>1, <2>4 DEF Deliver
    <3>2. body = BodyBytes(r)
      <4>1. DOMAIN body = 1..size
        BY <1>5, <1>6, <1>11
      <4>2. BodyBytes(r) = [i \in DOMAIN body |-> BodyBytes(r)[i]]
        BY <1>5, <4>1 DEF BodyBytes
      <4>3. body = [i \in 1..Len(body) |-> body[i]]
        BY <1>6, SeqDef
      <4> QED  BY <1>6, <1>10, <4>2, <4>3
    <3>3. body[1].rec = r /\ body # <<>>
      <4>1. 1 \in 1..size /\ 1 \in DOMAIN body
        BY <1>3, <1>5, <1>6, <1>11
      <4>2. body[1] = Byte(records[r].body[1], r, 1 + HeadEnd)
        BY <1>5, <3>2, <4>1 DEF BodyBytes
      <4>3. Len(body) > 0
        BY <1>3, <1>6
      <4>4. body # <<>>
        BY <1>6, <4>3, NotEmpty
      <4> QED  BY <4>2, <4>4 DEF Byte
    <3>4. /\ Len(packets) \in Nat /\ DOMAIN packets = 1..Len(packets)
          /\ DOMAIN packets' = 1..(Len(packets) + 1)
          /\ \A i \in 1..Len(packets) : packets'[i] = packets[i]
          /\ packets'[Len(packets) + 1] = body
      <4>1. packets \in Seq(Seq(AnyByte)) /\ body \in Seq(AnyByte)
        BY <1>6 DEF Typed
      <4>2. /\ packets' \in Seq(Seq(AnyByte)) /\ Len(packets') = Len(packets) + 1
            /\ \A i \in 1..Len(packets) : packets'[i] = packets[i]
            /\ packets'[Len(packets) + 1] = body
        BY <3>1, <4>1, AppendProperties
      <4> QED  BY <4>1, <4>2, LenProperties
    <3>5. \A i \in DOMAIN packets' : \/ i \in DOMAIN packets /\ packets'[i] = packets[i]
                                     \/ i = Len(packets) + 1 /\ packets'[i] = body
      BY <3>4
    <3>6. ASSUME NEW j \in DOMAIN InFlight' PROVE r < InFlight'[j].rec
      <4>1. Earlier(b, InFlight'[j]) /\ Genuine(InFlight'[j]) /\ InFlight'[j] \in AnyByte
        BY <1>2, <3>6
      <4>0. HeadEnd \in Nat
        BY Layout
      <4>2. b.at = RecordLen(r)
        BY <1>3, <1>5, <1>11, <4>0
      <4>3. InFlight'[j].at \in 1..RecordLen(InFlight'[j].rec) /\ InFlight'[j].rec \in Nat
        BY <4>1 DEF Genuine, AnyByte
      <4>4. RecordLen(r) \in Nat
        BY <1>5, <4>0
      <4> QED  BY <1>5, <4>1, <4>2, <4>3, <4>4 DEF Earlier, r
    <3>7. /\ \A i \in DOMAIN InFlight : InFlight[i] = b => \A j \in DOMAIN usb_queue : r < usb_queue[j]
          /\ \A i \in DOMAIN packets : packets[i][1].rec < r
      <4>1. 1 \in DOMAIN InFlight
        BY <1>2, FlightType
      <4> QED  BY <4>1 DEF StreamInv, QueueBehind, PacketsBefore, b, r
    <3>8. \A j \in DOMAIN usb_queue : r < usb_queue[j]
      <4>1. 1 \in DOMAIN InFlight
        BY <1>2, FlightType
      <4> QED  BY <3>7, <4>1 DEF b
    <3>9. QueueBehind'
      BY <1>1, <1>2 DEF StreamInv, QueueBehind
    <3>10. PacketsBefore'
      <4> SUFFICES ASSUME NEW i \in DOMAIN packets'
                   PROVE  /\ packets'[i] # <<>>
                          /\ \A j \in DOMAIN InFlight' : packets'[i][1].rec < InFlight'[j].rec
                          /\ \A j \in DOMAIN usb_queue : packets'[i][1].rec < usb_queue[j]
                          /\ packets'[i][1].rec \in DOMAIN records
        BY <1>1 DEF PacketsBefore
      <4>1. CASE i \in DOMAIN packets /\ packets'[i] = packets[i]
        BY <1>2, <4>1 DEF StreamInv, PacketsBefore
      <4>2. CASE packets'[i] = body
        BY <1>5, <3>3, <3>6, <3>8, <4>2
      <4> QED  BY <3>5, <4>1, <4>2
    <3>11. CapturedInOrder'
      <4>1. ASSUME NEW i \in DOMAIN packets'
            PROVE  \E q \in DOMAIN records : records[q].type = "its" /\ packets'[i] = BodyBytes(q)
        <5>1. CASE i \in DOMAIN packets /\ packets'[i] = packets[i]
          BY <5>1 DEF StreamInv, CapturedInOrder
        <5>2. CASE packets'[i] = body
          BY <1>5, <2>4, <3>2, <5>2
        <5> QED  BY <3>5, <5>1, <5>2
      <4>2. ASSUME NEW i \in DOMAIN packets', NEW j \in DOMAIN packets', i < j
            PROVE  packets'[i][1].rec < packets'[j][1].rec
        <5>1. i \in DOMAIN packets /\ packets'[i] = packets[i]
          BY <3>4, <4>2
        <5>2. CASE j \in DOMAIN packets /\ packets'[j] = packets[j]
          BY <4>2, <5>1, <5>2 DEF StreamInv, CapturedInOrder
        <5>3. CASE packets'[j] = body
          BY <3>3, <3>7, <5>1, <5>3
        <5> QED  BY <3>5, <5>2, <5>3
      <4> QED  BY <1>1, <4>1, <4>2 DEF CapturedInOrder, BodyBytes
    <3> QED  BY <1>2, <2>2, <3>9, <3>10, <3>11 DEF StreamInv
  <2> QED  BY <2>3, <2>4
<1>12. CASE n + 1 # parser.size
  <2>1. parser' = [parser EXCEPT !.body = body] /\ UNCHANGED packets
    BY <1>2, <1>12 DEF ReadBody, n, body
  <2>2. /\ parser'.at = "body" /\ parser'.type = parser.type /\ parser'.size = parser.size
        /\ parser'.body = body
    BY <1>3, <2>1
  <2>3. QueueBehind' /\ PacketsBefore' /\ CapturedInOrder'
    BY <1>1, <1>2, <2>1, Fewer DEF StreamInv
  <2>4. ASSUME queueTty' # <<>> \/ reading
        PROVE  InFlight' # <<>> /\ c.rec = r /\ c.at = HeadEnd + 1 + Len(body)
    <3>0. HeadEnd \in Nat
      BY Layout
    <3>1. b.at < RecordLen(r) /\ b.at \in Nat
      BY <1>3, <1>5, <1>12, <3>0
    <3>2. ~Ends(b)
      BY <1>5, <3>1 DEF Ends, r
    <3>3. InFlight' # <<>> /\ Follows(b, c)
      BY <1>2, <2>4, <3>2 DEF c
    <3>4. c.rec = r /\ c.at = b.at + 1
      BY <3>2, <3>3 DEF Follows, r
    <3>5. b.at + 1 = HeadEnd + 1 + Len(body)
      BY <1>3, <1>5, <1>6, <3>0
    <3> QED  BY <3>3, <3>4, <3>5
  <2>5. ParserFits'
    <3>1. /\ parser'.type = records[r].type /\ parser'.size = Len(records[r].body)
          /\ \A i \in DOMAIN parser'.body : parser'.body[i] = BodyBytes(r)[i]
      BY <1>5, <1>10, <2>2 DEF size
    <3> QED  BY <1>1, <2>2, <2>4, <3>1 DEF ParserFits, Reads, BodyBytes, c
  <2> QED  BY <1>2, <2>3, <2>5 DEF StreamInv
<1> QED  BY <1>11, <1>12

(* As long as QueueTty drops nothing and the host comes in where it can tell *)
(* the records apart, every step keeps the invariant.                       *)
LEMMA NextStream ==
  ASSUME IInv, [Next]_vars, ~dropped', ~misled' PROVE StreamInv'
<1>1. Typed /\ Typed'
  BY NextTyped DEF IInv
<1>2. ~dropped /\ StreamInv
  <2>1. (dropped => dropped') /\ (misled => misled')
    <3>1. CASE Start
      BY <3>1 DEF Start
    <3>2. CASE Read
      BY <3>2 DEF Read
    <3>3. CASE ~Start /\ ~Read
      <4>1. dropped' = dropped /\ misled' = misled
        BY <3>3 DEF Next, log_data, UsbReceive, UsbWrite, Unplug, Plug, Parse, vars, otmVars
      <4> QED  BY <4>1
    <3> QED  BY <3>1, <3>2, <3>3
  <2> QED  BY <2>1 DEF IInv
<1>3. ASSUME NEW b \in Bodies, log_data("its", b) PROVE StreamInv'
  BY <1>1, <1>2, <1>3, LogDataStream DEF Types
<1>4. CASE log_data("time", <<>>)
  BY <1>1, <1>2, <1>4, LogDataStream DEF Types
<1>5. CASE UsbReceive
  BY <1>1, <1>2, <1>5, ReceiveStream
<1>6. CASE UsbWrite \/ Read \/ Plug
  BY <1>1, <1>2, <1>6, MovesStream
<1>7. CASE Unplug
  BY <1>1, <1>2, <1>7, UnplugStream
<1>8. CASE Start
  BY <1>1, <1>2, <1>8, StartStream
<1>9. CASE Parse
  <2>1. \/ SkipMagic(Head(queueTty)) /\ UNCHANGED packets
        \/ ReadHeader(Head(queueTty))
        \/ ReadBody(Head(queueTty))
    BY <1>9 DEF Parse
  <2> QED  BY <1>1, <1>2, <1>9, <2>1, SkipStream, HeaderStream, BodyStream
<1>10. CASE UNCHANGED vars
  <2>1. /\ UNCHANGED <<records, usb_queue, packets, parser, wire, out, queueTty, reading>>
        /\ InFlight' = InFlight /\ Gap' = Gap
    BY <1>10 DEF vars, espVars, otmVars, InFlight, Gap
  <2> QED  BY <1>2, <2>1, OnlyMoves
<1> QED  BY <1>3, <1>4, <1>5, <1>6, <1>7, <1>8, <1>9, <1>10 DEF Next

(* Nothing is on the way when the program starts.                           *)
LEMMA InitStream == ASSUME Init PROVE StreamInv
<1>1. InFlight = <<>> /\ Gap = 0 /\ wire \o out = <<>>
  <2>1. <<>> \o <<>> = <<>>
    OBVIOUS
  <2> QED  BY <2>1, EmptySeq DEF Init, InFlight, Gap
<1>2. Len(<<>>) = 0 /\ DOMAIN <<>> = {}
  BY EmptySeq
<1>3. LineWhole
  BY <1>1, <1>2 DEF LineWhole, Chain
<1>4. QueueBehind /\ PacketsBefore /\ CapturedInOrder
  BY <1>1, <1>2 DEF Init, QueueBehind, PacketsBefore, CapturedInOrder
<1>5. ParserFits
  BY DEF Init, ParserFits, Skipping
<1> QED  BY <1>3, <1>4, <1>5 DEF StreamInv

(* What is on the way, in USB task, line and QueueTty, is a chain of bytes   *)
(* of the records captured, broken where the cable was pulled only, and the *)
(* parser takes the next one for what it is, magic number, header or body,  *)
(* as long as QueueTty has dropped nothing and the host has not come in     *)
(* inside an ambiguous record (usb_transmitter_task, parser.cpp).           *)
THEOREM StreamInvariant == Spec => []IInv
<1>1. Init => IInv
  BY InitTyped, InitStream DEF IInv
<1>2. IInv /\ [Next]_vars => IInv'
  <2> SUFFICES ASSUME IInv, [Next]_vars PROVE IInv'
    OBVIOUS
  <2>1. Typed'
    BY NextTyped DEF IInv
  <2>2. ~dropped' /\ ~misled' => StreamInv'
    BY NextStream
  <2> QED  BY <2>1, <2>2 DEF IInv
<1> QED  BY <1>1, <1>2, PTL DEF Spec

(* For queues of every size, payloads and time stamps of every content and  *)
(* any number of records and unplugged cables: what is handed on are        *)
(* captured ITS records, whole and in order, as long as QueueTty has        *)
(* dropped nothing and the host has not come in inside an ambiguous record  *)
(* (skip_magic).                                                            *)
THEOREM Captured == Spec => []PacketsWereCaptured
<1>1. IInv => PacketsWereCaptured
  BY DEF IInv, StreamInv, PacketsWereCaptured
<1> QED  BY <1>1, StreamInvariant, PTL
=============================================================================

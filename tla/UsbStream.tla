----------------------------- MODULE UsbStream -----------------------------
(***************************************************************************)
(* The stream from the firmware's USB task (main.c) through the serial     *)
(* line, the reader thread and the byte queue to the parser thread of      *)
(* esp32-c5-its-otm.  A record is the magic number, a header and its body; *)
(* of the header the first byte stands for type, reserved byte and size,   *)
(* the others are those of the time stamp.  Of the values of a byte those  *)
(* of the magic number are told apart.  A byte remembers the record it is  *)
(* of and its place there, which only the properties and a header look at. *)
(***************************************************************************)
EXTENDS Naturals, SequencesExt

CONSTANTS
  Bodies,      \* payloads of ITS records, sequences of byte values
  Stamps,      \* time stamps, sequences of StampLen byte values
  StampLen,    \* bytes of a time stamp
  QUEUE_SIZE,  \* of usb_queue
  Size,        \* of QueueTty
  RingSize,    \* bytes between the USB task and the reader
  MaxBodySize, \* the parser takes no longer body (2000 in the code)
  MaxUnplugs,  \* bound: how often the cable is pulled
  MaxRecords   \* bound: records logged

ByteValue == {"aa", "55", "x"}
ASSUME StreamAssumption ==
  /\ {StampLen, QUEUE_SIZE, Size, RingSize, MaxBodySize, MaxUnplugs, MaxRecords} \subseteq Nat
  /\ \A s \in Stamps : s \in Seq(ByteValue) /\ Len(s) = StampLen
  /\ \A b \in Bodies : b \in Seq(ByteValue) /\ b # <<>> /\ Len(b) <= MaxBodySize

VARIABLES
  records,            \* all records logged, with their bytes
  connected, unplugs, \* usb_serial_jtag_is_connected
  usb_queue,          \* numbers of records
  out,                \* what the USB task has still to write of its record
  wire,               \* written and not yet read by the host
  reading,            \* the reader thread runs
  queueTty,
  parser,             \* where the parser thread is
  packets,            \* what it has handed to QueueIts, ever
  dropped,            \* history: QueueTty has dropped a byte
  misled              \* history: the host came in inside an ambiguous record

espVars == <<records, usb_queue, out>>
otmVars == <<reading, queueTty, parser, packets, dropped, misled>>
vars == <<espVars, connected, unplugs, wire, otmVars>>

Types == {"its", "time"}
MagicNumber == <<"aa", "55", "55", "aa">>
HeaderLen == 1 + StampLen
HeadEnd == Len(MagicNumber) + HeaderLen
Byte(v, r, k) == [value |-> v, rec |-> r, at |-> k]
BodyBytes(r) ==
  [i \in DOMAIN records[r].body |-> Byte(records[r].body[i], r, i + HeadEnd)]
RecordBytes(r) ==
  LET v == MagicNumber \o <<"hdr">> \o records[r].stamp \o records[r].body
  IN [k \in DOMAIN v |-> Byte(v[k], r, k)]

(* The time stamp and body of an ambiguous record hold the magic number, or *)
(* make one with the first byte of the record that follows.                 *)
HasMagic(s) == \E i \in 1..(Len(s) - 3) : SubSeq(s, i, i + 3) = MagicNumber
Ambiguous(r) == HasMagic(records[r].stamp \o records[r].body \o <<MagicNumber[1]>>)

Skipping == [at |-> "magic", window |-> <<>>]

Init ==
  /\ records = <<>> /\ usb_queue = <<>> /\ out = <<>>
  /\ connected = TRUE /\ unplugs = 0
  /\ wire = <<>>
  /\ reading = FALSE /\ misled = FALSE
  /\ queueTty = <<>> /\ parser = Skipping /\ packets = <<>> /\ dropped = FALSE

-----------------------------------------------------------------------------
(* The firmware. *)

(* log_data: a record that finds no host or no room is not sent. *)
log_data(type, body) ==
  /\ Len(records) < MaxRecords
  /\ \E stamp \in Stamps :
       records' = Append(records, [type |-> type, stamp |-> stamp, body |-> body])
  /\ usb_queue' = IF connected /\ Len(usb_queue) < QUEUE_SIZE
                  THEN Append(usb_queue, Len(records')) ELSE usb_queue
  /\ UNCHANGED <<out, connected, unplugs, wire, otmVars>>

(* The USB task takes a record and writes magic, header and body, without   *)
(* looking at the connection again and however long the host takes.         *)
UsbReceive ==
  /\ out = <<>> /\ usb_queue # <<>>
  /\ usb_queue' = Tail(usb_queue)
  /\ out' = IF connected THEN RecordBytes(Head(usb_queue)) ELSE <<>>
  /\ UNCHANGED <<records, connected, unplugs, wire, otmVars>>

(* Slip: the connection is looked at before each write, a part left out. *)
UsbWrite_CheckEach ==
  /\ out # <<>>
  /\ IF connected
     THEN Len(wire) < RingSize /\ wire' = Append(wire, Head(out)) ELSE UNCHANGED wire
  /\ out' = Tail(out)
  /\ UNCHANGED <<records, usb_queue, connected, unplugs, otmVars>>
UsbWrite ==
  /\ out # <<>> /\ Len(wire) < RingSize
  /\ wire' = Append(wire, Head(out)) /\ out' = Tail(out)
  /\ UNCHANGED <<records, usb_queue, connected, unplugs, otmVars>>

-----------------------------------------------------------------------------
(* The cable.  Pulled, it takes with it what was on the way; the reader     *)
(* thread ends with a read error.                                           *)

Unplug ==
  /\ connected /\ unplugs < MaxUnplugs
  /\ connected' = FALSE /\ unplugs' = unplugs + 1
  /\ \E n \in 0..Len(wire) : wire' = SubSeq(wire, n + 1, Len(wire))
  /\ reading' = FALSE
  /\ UNCHANGED <<espVars, queueTty, parser, packets, dropped, misled>>

Plug ==
  /\ ~connected /\ connected' = TRUE
  /\ UNCHANGED <<espVars, unplugs, wire, otmVars>>

-----------------------------------------------------------------------------
(* esp32-c5-its-otm. *)

(* The program is started (again): initPort opens the line and flushes what *)
(* has come in so far, so that it may come in anywhere in a record.         *)
ComesIn(line) == line # <<>> /\ line[1].at > 1
Start ==
  /\ connected /\ ~reading /\ reading' = TRUE
  /\ \E n \in 0..Len(wire) : wire' = SubSeq(wire, n + 1, Len(wire))
  /\ queueTty' = <<>> /\ parser' = Skipping
  /\ LET line == wire' \o out
     IN misled' = (misled \/ (ComesIn(line) /\ Ambiguous(line[1].rec)))
  /\ UNCHANGED <<espVars, connected, unplugs, packets, dropped>>

(* Queue::push drops the oldest byte when there are more than Size. *)
(* Slip: the size is not looked at. *)
Push_Unbounded(q, b) == Append(q, b)
Push(q, b) == Append(IF Len(q) > Size THEN Tail(q) ELSE q, b)

Read ==
  /\ reading /\ wire # <<>>
  /\ wire' = Tail(wire) /\ queueTty' = Push(queueTty, Head(wire))
  /\ dropped' = (dropped \/ Len(queueTty') <= Len(queueTty))
  /\ UNCHANGED <<espVars, connected, unplugs, reading, parser, packets, misled>>

(* skip_magic shifts bytes through a window of the size of the magic.       *)
Values(s) == [i \in DOMAIN s |-> s[i].value]
(* Slip: a byte that breaks a match is not itself looked at.                *)
SkipMagic_NoRescan(b) ==
  LET w == Append(parser.window, b) IN
  /\ parser.at = "magic"
  /\ parser' = IF Values(w) = MagicNumber THEN [at |-> "header", head |-> <<>>]
               ELSE IF IsPrefix(Values(w), MagicNumber) THEN [Skipping EXCEPT !.window = w]
               ELSE Skipping
SkipMagic(b) ==
  LET w == Append(parser.window, b) IN
  /\ parser.at = "magic"
  /\ parser' = IF Values(w) = MagicNumber THEN [at |-> "header", head |-> <<>>]
               ELSE [Skipping EXCEPT !.window = IF Len(w) = 4 THEN Tail(w) ELSE w]

(* Bytes that are no header can say anything, but those of the magic number *)
(* are no type the parser knows.                                            *)
Headers(h) ==
  IF h[1].value = "hdr"
  THEN {[type |-> records[h[1].rec].type, size |-> Len(records[h[1].rec].body)]}
  ELSE [type : IF h[1].value = "x" THEN Types ELSE {"other"}, size : 0..(MaxBodySize + 1)]

Deliver(type, body) ==
  packets' = IF type = "its" THEN Append(packets, body) ELSE packets

ReadHeader(b) ==
  LET head == Append(parser.head, b) IN
  /\ parser.at = "header"
  /\ \/ /\ Len(head) < HeaderLen
        /\ parser' = [parser EXCEPT !.head = head] /\ UNCHANGED packets
     \/ /\ Len(head) = HeaderLen
        /\ \E h \in Headers(head) :
             \/ /\ h.size > MaxBodySize
                /\ parser' = Skipping /\ UNCHANGED packets
             \/ /\ h.size = 0
                /\ parser' = Skipping /\ Deliver(h.type, <<>>)
             \/ /\ h.size \in 1..MaxBodySize
                /\ parser' = [at |-> "body", type |-> h.type, size |-> h.size, body |-> <<>>]
                /\ UNCHANGED packets

ReadBody(b) ==
  /\ parser.at = "body"
  /\ IF Len(parser.body) + 1 = parser.size
     THEN parser' = Skipping /\ Deliver(parser.type, Append(parser.body, b))
     ELSE parser' = [parser EXCEPT !.body = Append(@, b)] /\ UNCHANGED packets

Parse ==
  /\ queueTty # <<>>
  /\ queueTty' = Tail(queueTty)
  /\ LET b == Head(queueTty) IN
       \/ SkipMagic(b) /\ UNCHANGED packets
       \/ ReadHeader(b)
       \/ ReadBody(b)
  /\ UNCHANGED <<espVars, connected, unplugs, wire, reading, dropped, misled>>

Next ==
  \/ \E b \in Bodies : log_data("its", b)
  \/ log_data("time", <<>>)
  \/ UsbReceive \/ UsbWrite
  \/ Unplug \/ Plug
  \/ Start \/ Read \/ Parse

Spec == Init /\ [][Next]_vars

(* The USB task runs when it can write, and so do the two threads.          *)
FairSpec ==
  /\ Spec
  /\ WF_vars(UsbReceive) /\ WF_vars(UsbWrite) /\ WF_vars(Read) /\ WF_vars(Parse)

-----------------------------------------------------------------------------
(* Properties. *)

ByteType ==
  [value : ByteValue \cup {"hdr"}, rec : 1..MaxRecords, at : 1..(MaxBodySize + HeadEnd)]
(* Every variable keeps its type, usb_queue, line and QueueTty their bounds *)
(* (Queue::push), and the parser reads no more than the body it announced.  *)
TypeOK ==
  /\ Len(records) <= MaxRecords /\ Len(usb_queue) <= QUEUE_SIZE
  /\ {connected, reading, dropped, misled} \subseteq BOOLEAN
  /\ \A q \in {out, wire, queueTty} : \A i \in DOMAIN q : q[i] \in ByteType
  /\ Len(wire) <= RingSize
  /\ Len(queueTty) <= Size + 1
  /\ parser.at \in {"magic", "header", "body"}
  /\ parser.at = "magic" => Len(parser.window) < 4
  /\ parser.at = "header" => Len(parser.head) < HeaderLen
  /\ parser.at = "body" => Len(parser.body) < parser.size

(* Packets are bodies of ITS records, whole, in the order of capture.       *)
CapturedInOrder ==
  /\ \A i \in DOMAIN packets :
       \E r \in DOMAIN records : records[r].type = "its" /\ packets[i] = BodyBytes(r)
  /\ \A i, j \in DOMAIN packets : i < j => packets[i][1].rec < packets[j][1].rec

(* Every packet handed on is the body of one ITS record, whole, and they    *)
(* come in the order they were captured, wherever in a record the host came *)
(* in and the cable was pulled, unless the byte queue drops a byte or the   *)
(* host comes in inside a record that holds the magic number, by itself or  *)
(* with the first byte of the next: that is found first (skip_magic).       *)
PacketsWereCaptured == ~dropped /\ ~misled => CapturedInOrder

(* After coming in in the middle of a record the parser finds the next one: *)
(* an ITS record written after that is handed on, unless the cable is       *)
(* pulled or the byte queue drops a byte first, or the record it came in    *)
(* inside is ambiguous.                                                     *)
Published(r) == r \in DOMAIN records /\ \E i \in DOMAIN packets : packets[i] = BodyBytes(r)
Resynchronises ==
  \A r \in 1..MaxRecords :
    (/\ r \in DOMAIN records /\ records[r].type = "its"
     /\ reading /\ Contains(usb_queue, r))
      ~> (Published(r) \/ ~reading \/ dropped \/ misled)
=============================================================================

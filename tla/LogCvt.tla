------------------------------- MODULE LogCvt -------------------------------
(***************************************************************************)
(* esp32-c5-its-log: log-cvt reads the logs named on its command line one  *)
(* after the other, finds the records in each and hands them to a writer   *)
(* for pcapng or BLF.  A log is a sequence of cells, one for each byte of  *)
(* the magic number of a USB log, of a time stamp and a body, and one for  *)
(* the other bytes of a header, type to size.  Of the values of a byte     *)
(* those of the magic number are told apart.  A cell remembers the record  *)
(* it is of, which only a header and the properties look at.               *)
(***************************************************************************)
EXTENDS Integers, Sequences, FiniteSets

CONSTANTS
  Writers,     \* writers considered: "none", "pcapng", "blf"
  Bodies,      \* payloads of ITS records, sequences of byte values
  Times,       \* time stamps of the records, in microseconds
  Stamp,       \* their bytes, and those of no time, StampLen each
  StampLen,    \* bytes of a time stamp
  Second,      \* microseconds of a second
  Nano,        \* nanoseconds of a microsecond
  Word,        \* values of a uint64_t
  GpsSize,     \* sizeof(Gps)
  EthAt, MacAt, MacLen, \* pseudo Ethernet layer: inserted at EthAt, copied from MacAt
  MaxRecords,  \* bound: records of a log
  MaxFiles     \* bound: log files on the command line

ByteValue == {"aa", "55", "x"}
ASSUME CvtAssumption ==
  /\ Writers \subseteq {"none", "pcapng", "blf"}
  /\ Times \subseteq Nat /\ {Second, Nano, Word} \subseteq Nat \ {0}
  /\ \A b \in Bodies : b \in Seq(ByteValue)
  /\ \A t \in Times \cup {0} : Stamp[t] \in Seq(ByteValue) /\ Len(Stamp[t]) = StampLen
  /\ {StampLen, GpsSize, EthAt, MacAt, MacLen, MaxRecords, MaxFiles} \subseteq Nat
  /\ GpsSize > 0 /\ MacAt + MacLen <= EthAt
(* 64 bits hold the nanoseconds between any two records, with their sign. *)
ASSUME SpanAssumption ==
  \A s, t \in Times :
    /\ (t - (s \div Second) * Second) * Nano < Word \div 2
    /\ (t - (s \div Second) * Second) * Nano >= (Word \div 2) - Word

VARIABLES
  type, isUsbLog,  \* the options; they never change
  pc, argc,        \* where main is, and how many log files are left
  records,         \* what was captured; the log is a part of it
  log, pos, eof,   \* FILE: its cells, the next one to read, feof
  count,           \* ContentCount
  objects,         \* what the writer has written to its file
  start,           \* measurementStartTime in the head of the BLF file
  timeFirst, timeMeasurementStartUs \* of BlfWriter

optVars == <<type, isUsbLog>>
fileVars == <<records, log, pos, eof>>
blfVars == <<start, timeFirst, timeMeasurementStartUs>>
vars == <<optVars, pc, argc, fileVars, count, objects, blfVars>>

Xs(n) == [i \in 1..n |-> "x"]
Record ==
  [type : {"its"}, time : Times, body : Bodies]
    \cup [type : {"gps"}, time : Times, body : {Xs(GpsSize)}]
    \cup [type : {"gps"}, time : {0}, body : {Xs(GpsSize - 1)}]
    \cup [type : {"time"}, time : {0}, body : {<<>>}]
    \cup [type : {"info", "version", "other"}, time : {0}, body : {Xs(1)}]
Types == {"its", "gps", "time", "info", "version", "other"}

Cell(v, r) == [value |-> v, rec |-> r]
MagicNumber == <<"aa", "55", "55", "aa">>
Magic(r) == IF isUsbLog THEN [i \in 1..4 |-> Cell(MagicNumber[i], r)] ELSE <<>>
StampAndBody(r) == Stamp[r.time] \o r.body
Cells(r, rest) ==
  Magic(r) \o <<Cell("hdr", r)>> \o [i \in DOMAIN rest |-> Cell(rest[i], r)]
Zero == [t \in Types |-> 0]

Init ==
  /\ type \in Writers /\ isUsbLog \in BOOLEAN
  /\ pc = "open" /\ argc = MaxFiles
  /\ records = <<>> /\ log = <<>> /\ pos = 1 /\ eof = FALSE
  /\ count = Zero /\ objects = <<>>
  /\ start = 0 /\ timeFirst = TRUE /\ timeMeasurementStartUs = 0

-----------------------------------------------------------------------------
(* What is on the disk.  The log is what was captured, its last record cut  *)
(* at any cell; a USB capture also begins at any cell of the first.         *)

Capture ==
  /\ pc = "open" /\ argc > 0 /\ Len(records) < MaxRecords
  /\ \E r \in Record :
       records' = Append(records, r) /\ log' = log \o Cells(Len(records'), StampAndBody(r))
  /\ UNCHANGED <<optVars, pc, argc, pos, eof, count, objects, blfVars>>

Of(r) == {i \in DOMAIN log : log[i].rec = r}
Cut ==
  \E a \in (IF isUsbLog /\ log # <<>> THEN Of(1) ELSE {1}) :
    \E n \in 0..Cardinality(Of(Len(records))) :
      log' = SubSeq(log, a, Len(log) - n)

-----------------------------------------------------------------------------
(* Reading. *)

(* The position behind the next magic number, 0 when there is none: bytes   *)
(* are shifted through a window of the size of the magic, whatever they are *)
(* of: the end of a body and the first byte of the next magic number match. *)
MagicEnds(p) ==
  {q \in (p + 4)..(Len(log) + 1) : \A i \in 1..4 : log[q - 5 + i].value = MagicNumber[i]}
(* Slip: the bytes of a match that fails are not looked at again. *)
skip_magic_NoRescan(p) ==
  LET ends == {q \in MagicEnds(p) : q - 5 < p \/ log[q - 5].value # "aa"}
  IN IF ends = {} THEN 0 ELSE CHOOSE q \in ends : \A e \in ends : q <= e
skip_magic(p) ==
  IF MagicEnds(p) = {} THEN 0 ELSE CHOOSE q \in MagicEnds(p) : \A e \in MagicEnds(p) : q <= e

(* The header at p.  Cells that are none can say anything, but those of the *)
(* magic number are no type log-cvt knows.                                  *)
Headers(p) ==
  IF log[p].value = "hdr"
  THEN LET r == records[log[p].rec] IN
         {[type |-> r.type, time |-> r.time, size |-> Len(r.body), rec |-> log[p].rec]}
  ELSE [type : IF log[p].value = "x" THEN Types ELSE {"other"}, time : Times,
        size : 0..2, rec : {0}]

BodyAt(p, n) == [i \in 1..n |-> log[p + i - 1].value]

-----------------------------------------------------------------------------
(* The writers: the object they add for a record, and what they remember.   *)

MeasurementStart(t) == IF timeFirst THEN (t \div Second) * Second ELSE timeMeasurementStartUs

(* BlfWriter::timeNs: the difference in uint64_t arithmetic. *)
timeNs(t) == (((t - MeasurementStart(t)) % Word) * Nano) % Word
TimeNoted(t) ==
  /\ timeMeasurementStartUs' = MeasurementStart(t)
  /\ start' = IF timeFirst THEN t \div Second ELSE start
  /\ timeFirst' = FALSE

AddEth(b) ==
  IF Len(b) <= EthAt THEN b
  ELSE SubSeq(b, 1, EthAt) \o SubSeq(b, MacAt + 1, MacAt + MacLen) \o SubSeq(b, EthAt + 1, Len(b))

Written(h, time, data) ==
  objects' = Append(objects, [rec |-> h.rec, type |-> h.type, time |-> time, data |-> data])

WriteIts(h, body) ==
  \/ type = "none" /\ UNCHANGED <<objects, blfVars>>
  \/ /\ type = "pcapng" /\ UNCHANGED blfVars
     /\ Written(h, <<h.time \div Second, h.time % Second>>, body)
  \/ /\ type = "blf" /\ TimeNoted(h.time)
     /\ Written(h, <<timeNs(h.time)>>, AddEth(body))

(* The position is in a packet or an object of a form of its own, the data  *)
(* of which stand for it here.                                              *)
WriteGps(h, body) ==
  \/ type = "none" /\ UNCHANGED <<objects, blfVars>>
  \/ type # "none" /\ Len(body) < GpsSize /\ UNCHANGED <<objects, blfVars>>
  \/ /\ type = "pcapng" /\ Len(body) >= GpsSize /\ UNCHANGED blfVars
     /\ Written(h, <<h.time \div Second, h.time % Second>>, body)
  \/ /\ type = "blf" /\ Len(body) >= GpsSize /\ TimeNoted(h.time)
     /\ Written(h, <<timeNs(h.time)>>, body)

GpsTaken(body) == type = "none" \/ Len(body) >= GpsSize

-----------------------------------------------------------------------------
(* main: open a log and a writer, convert record by record, close both.     *)

Counted(t) == count' = [count EXCEPT ![t] = @ + 1]
Ignored == UNCHANGED <<objects, blfVars>>

(* log_cvt with the header h at p, whose body is all there. *)
Convert(h, body) ==
  \/ h.type = "its" /\ WriteIts(h, body) /\ Counted("its")
  \/ /\ h.type = "gps" /\ WriteGps(h, body)
     /\ IF GpsTaken(body) THEN Counted("gps") ELSE UNCHANGED count
  \/ h.type \in {"time", "info", "version", "other"} /\ Counted(h.type) /\ Ignored

(* log_cvt with the header at p, 0 when no magic number was found: FALSE,   *)
(* which ends the loop, when header or body is cut or the type unknown.     *)
log_cvt(p) ==
  IF p = 0 \/ p + StampLen > Len(log)
  THEN eof' = TRUE /\ pc' = "close" /\ UNCHANGED <<pos, count>> /\ Ignored
  ELSE \E h \in Headers(p) :
         IF p + StampLen + h.size > Len(log)
         THEN eof' = TRUE /\ pc' = "close" /\ UNCHANGED <<pos, count>> /\ Ignored
         ELSE /\ Convert(h, BodyAt(p + StampLen + 1, h.size))
              /\ pos' = p + StampLen + 1 + h.size /\ UNCHANGED eof
              /\ pc' = IF h.type = "other" THEN "close" ELSE "loop"

Iterate ==
  /\ pc = "loop" /\ ~eof
  /\ log_cvt(IF isUsbLog THEN skip_magic(pos) ELSE pos)
  /\ UNCHANGED <<optVars, argc, records, log>>

(* BlfWriter::timeReset, of a new writer. *)
(* Slip: the writer is kept from file to file, and not reset. *)
NewWriter_Kept == start' = 0 /\ UNCHANGED <<timeFirst, timeMeasurementStartUs>>
NewWriter == start' = 0 /\ timeFirst' = TRUE /\ timeMeasurementStartUs' = 0

Open ==
  /\ pc = "open" /\ argc > 0
  /\ pc' = "loop" /\ Cut /\ NewWriter
  /\ UNCHANGED <<optVars, argc, records, pos, eof, count, objects>>

(* The log, or the BLF file, cannot be opened. *)
(* Slip: the same file is tried again. *)
OpenFails_Again ==
  /\ pc = "open" /\ argc > 0 /\ UNCHANGED argc
  /\ UNCHANGED blfVars \/ (type = "blf" /\ NewWriter)
  /\ records' = <<>> /\ log' = <<>>
  /\ UNCHANGED <<optVars, pc, pos, eof, count, objects>>
OpenFails ==
  /\ pc = "open" /\ argc > 0 /\ argc' = argc - 1
  /\ UNCHANGED blfVars \/ (type = "blf" /\ NewWriter)
  /\ records' = <<>> /\ log' = <<>>
  /\ UNCHANGED <<optVars, pc, pos, eof, count, objects>>

Close ==
  /\ pc = "close" /\ pc' = "open" /\ argc' = argc - 1
  /\ records' = <<>> /\ log' = <<>> /\ pos' = 1 /\ eof' = FALSE
  /\ count' = Zero /\ objects' = <<>>
  /\ UNCHANGED <<optVars, blfVars>>

Return ==
  /\ pc = "open" /\ argc = 0 /\ pc' = "done"
  /\ UNCHANGED <<optVars, argc, fileVars, count, objects, blfVars>>

main == Open \/ OpenFails \/ Iterate \/ Close \/ Return
Next == Capture \/ main
Spec == Init /\ [][Next]_vars

(* The program runs. *)
FairSpec == Spec /\ WF_vars(main)

-----------------------------------------------------------------------------
(* Properties. *)

Values == ByteValue \cup {"hdr"}
CellType == [value : Values, rec : Nat]
ObjectType ==
  [rec : Nat, type : {"its", "gps"}, time : Seq(Nat), data : Seq(Values)]
(* Every variable keeps its type, and the position stays in the log. *)
TypeOK ==
  /\ type \in Writers /\ isUsbLog \in BOOLEAN
  /\ pc \in {"open", "loop", "close", "done"} /\ argc \in 0..MaxFiles
  /\ pc \in {"loop", "close"} => argc > 0
  /\ records \in Seq(Record) /\ log \in Seq(CellType)
  /\ pos \in 1..(Len(log) + 1) /\ eof \in BOOLEAN
  /\ count \in [Types -> Nat] /\ objects \in Seq(ObjectType)
  /\ start \in Nat /\ timeFirst \in BOOLEAN /\ timeMeasurementStartUs \in Nat

(* The log is of the records captured, and an object is of one of them or   *)
(* of none.                                                                 *)
CellsKnown ==
  /\ \A i \in DOMAIN log : log[i].rec \in DOMAIN records
  /\ \A i \in DOMAIN objects : objects[i].rec # 0 => objects[i].rec \in DOMAIN records
(* What is counted is what is in the file, a GPS record too short left out. *)
CountsMatch == type # "none" => Len(objects) = count["its"] + count["gps"]
(* The head of the BLF file has the second all its times are relative to.   *)
StartKnown ==
  type = "blf" /\ pc \in {"loop", "close"} =>
    /\ timeFirst <=> objects = <<>>
    /\ ~timeFirst => /\ timeMeasurementStartUs = start * Second
                     /\ \E s \in Times : start = s \div Second
(* Nothing is left of the last file when the next one is opened.            *)
FreshAtOpen == pc = "open" => pos = 1 /\ objects = <<>> /\ count = Zero
(* All together, the inductive invariant (log_cvt, timeNs). *)
IInv == TypeOK /\ CellsKnown /\ CountsMatch /\ StartKnown /\ FreshAtOpen

(* What the capture promises of the log: the records it holds from magic to *)
(* the last byte, up to the first of unknown type.                          *)
Whole ==
  {r \in DOMAIN records :
     Cardinality({i \in DOMAIN log : log[i].rec = r}) = Len(Cells(r, StampAndBody(records[r])))}
Readable == {r \in Whole : \A u \in Whole : u < r => records[u].type # "other"}
Convertible(r) ==
  records[r].type = "its" \/ (records[r].type = "gps" /\ Len(records[r].body) = GpsSize)
(* A first record cut in front does not hold the magic number, for which    *)
(* skip_magic looks, by itself or with the first byte of the next.          *)
HasMagic(s) == \E i \in 1..(Len(s) - 3) : \A k \in 1..4 : s[i + k - 1] = MagicNumber[k]
CleanStart ==
  isUsbLog /\ log # <<>> /\ log[1].rec \notin Whole =>
    ~HasMagic(StampAndBody(records[log[1].rec]) \o <<MagicNumber[1]>>)

StripEth(b) ==
  IF type = "blf" /\ Len(b) > EthAt + MacLen
  THEN SubSeq(b, 1, EthAt) \o SubSeq(b, EthAt + MacLen + 1, Len(b)) ELSE b
Frame(o) == IF o.type = "its" THEN StripEth(o.data) ELSE o.data

(* A converted log has every ITS frame and position of the capture that is  *)
(* in the log whole, once and in order, up to the first record of unknown   *)
(* type; nothing else, and the counts printed are those of the file         *)
(* (log_cvt).  That is so whatever the payloads and time stamps hold, and   *)
(* wherever the log is cut, but in front in a record in which, or at the    *)
(* end of which, the search finds a magic number that is none.              *)
ConvertedInOrder ==
  /\ pc = "close" /\ CleanStart /\ type # "none" =>
       /\ \A i, j \in DOMAIN objects : i < j => objects[i].rec < objects[j].rec
       /\ {objects[i].rec : i \in DOMAIN objects} = {r \in Readable : Convertible(r)}
       /\ \A i \in DOMAIN objects : LET r == records[objects[i].rec] IN
            objects[i].type = r.type /\ Frame(objects[i]) = r.body
  /\ pc = "close" /\ CleanStart =>
       \A t \in {"its", "info", "version"} :
         count[t] = Cardinality({r \in Readable : records[r].type = t})

(* The times of a BLF file lead back to those of its records: start of the  *)
(* measurement plus time of the object, taken as signed, also for a record  *)
(* stamped before the first one, and for every file anew (timeNs).          *)
Signed(n) == IF n < Word \div 2 THEN n ELSE n - Word
TimesLeadBack ==
  type = "blf" => \A i \in DOMAIN objects :
    objects[i].rec # 0 =>
      start * Second * Nano + Signed(objects[i].time[1]) = records[objects[i].rec].time * Nano

(* log-cvt comes to its end: a log that is cut or cannot be opened does not *)
(* keep it from the files after it (main).                                  *)
Converts == <>(pc = "done")
=============================================================================

--------------------------- MODULE LogCvtProofs ---------------------------
(***************************************************************************)
(* What LogCvt promises for logs of every length: what is counted is what  *)
(* is written, the times of a BLF file lead back to those of its records,  *)
(* in arithmetic modulo any word that can hold their differences, and what *)
(* is in the log whole is converted, once, in order and as it was captured.*)
(***************************************************************************)
EXTENDS LogCvt, SequenceTheorems, FiniteSetTheorems, WellFoundedInduction, TLAPS

-----------------------------------------------------------------------------
(* Arithmetic modulo a word. *)

(* Division splits a number into quotient and remainder. *)
LEMMA DivMod ==
  ASSUME NEW a \in Int, NEW w \in Nat \ {0}
  PROVE  a \div w \in Int /\ a % w \in 0..(w - 1) /\ a = (a \div w) * w + (a % w)
  OBVIOUS

(* A multiple of w that is smaller than w is none. *)
LEMMA SmallMultiple ==
  ASSUME NEW w \in Nat \ {0}, NEW d \in Int, d * w < w, d * w > -w
  PROVE  d = 0
<1>1. d >= 1 => d * w >= w
  OBVIOUS
<1>2. d <= -1 => d * w <= -w
  OBVIOUS
<1> QED  BY <1>1, <1>2

(* The remainder is the only number in 0..w-1 that differs by a multiple.   *)
LEMMA ModUnique ==
  ASSUME NEW w \in Nat \ {0}, NEW q \in Int, NEW r \in 0..(w - 1)
  PROVE  (q * w + r) % w = r
<1> DEFINE a == q * w + r
           e == a \div w
           m == a % w
<1>1. a \in Int
  OBVIOUS
<1>2. e \in Int /\ m \in 0..(w - 1) /\ a = e * w + m
  BY <1>1, DivMod
<1>3. a = q * w + r
  OBVIOUS
<1> HIDE DEF a, e, m
<1>4. (q - e) * w = m - r
  BY <1>2, <1>3
<1>5. q - e = 0
  BY <1>2, <1>4, SmallMultiple
<1>6. q = e
  BY <1>2, <1>5
<1> QED  BY <1>2, <1>3, <1>6 DEF a, m

(* A difference taken modulo the word, times the nanoseconds of a           *)
(* microsecond modulo the word, read as signed, is the difference in        *)
(* nanoseconds (BlfWriter::timeNs).                                         *)
LEMMA SignedDifference ==
  ASSUME NEW x \in Int, x * Nano < Word \div 2, x * Nano >= (Word \div 2) - Word
  PROVE  /\ ((x % Word) * Nano) % Word \in Nat
         /\ Signed(((x % Word) * Nano) % Word) = x * Nano
<1> DEFINE k == x \div Word
           y == x * Nano
           q == -(k * Nano)
<1>1. Word \in Nat \ {0} /\ Nano \in Nat \ {0}
  BY CvtAssumption
<1>2. k \in Int /\ x % Word = x - k * Word
  BY <1>1, DivMod
<1>3. Word \div 2 \in 0..(Word - 1)
  BY <1>1
<1>4. q \in Int /\ y \in Int
  BY <1>1, <1>2
<1>5. (x % Word) * Nano = q * Word + y
  BY <1>1, <1>2
<1> HIDE DEF k, q, y
<1>6. y < Word \div 2 /\ y >= (Word \div 2) - Word
  BY DEF y
<1>7. CASE y >= 0
  <2>1. y \in 0..(Word - 1)
    BY <1>7, <1>6, <1>3, <1>4, <1>1
  <2>2. (q * Word + y) % Word = y
    BY <2>1, <1>1, <1>4, ModUnique
  <2> QED  BY <2>1, <2>2, <1>5, <1>6 DEF Signed, y
<1>8. CASE y < 0
  <2>1. y + Word \in 0..(Word - 1) /\ y + Word >= Word \div 2
    BY <1>8, <1>6, <1>3, <1>4, <1>1
  <2>2. q - 1 \in Int
    BY <1>4
  <2>3. ((q - 1) * Word + (y + Word)) % Word = y + Word
    BY <2>1, <2>2, <1>1, ModUnique
  <2>4. (q - 1) * Word + (y + Word) = q * Word + y
    BY <1>1, <1>4
  <2>5. ((x % Word) * Nano) % Word = y + Word
    BY <2>3, <2>4, <1>5
  <2> QED  BY <2>1, <2>5, <1>1, <1>4 DEF Signed, y
<1> QED  BY <1>7, <1>8, <1>4
-----------------------------------------------------------------------------
(* Cells and bodies. *)

(* The invariant of the runs and the times, in parts. *)
OptType == type \in Writers /\ isUsbLog \in BOOLEAN
CtlType ==
  /\ pc \in {"open", "loop", "close", "done"} /\ argc \in 0..MaxFiles
  /\ pc \in {"loop", "close"} => argc > 0
LogType == records \in Seq(Record) /\ log \in Seq(CellType)
PosType == pos \in 1..(Len(log) + 1) /\ eof \in BOOLEAN
CountType == count \in [Types -> Nat]
ObjType == objects \in Seq(ObjectType)
BlfType == start \in Nat /\ timeFirst \in BOOLEAN /\ timeMeasurementStartUs \in Nat
LogKnown == \A i \in DOMAIN log : log[i].rec \in DOMAIN records
ObjKnown == \A i \in DOMAIN objects : objects[i].rec # 0 => objects[i].rec \in DOMAIN records
Parts ==
  /\ OptType /\ CtlType /\ LogType /\ PosType /\ CountType /\ ObjType /\ BlfType
  /\ LogKnown /\ ObjKnown /\ CountsMatch /\ StartKnown /\ FreshAtOpen
  /\ TimesLeadBack

(* The parts are the invariant of the runs and the times. *)
LEMMA PartsAre == Parts <=> IInv /\ TimesLeadBack
  BY DEF Parts, IInv, TypeOK, CellsKnown, OptType, CtlType, LogType, PosType, CountType, ObjType,
         BlfType, LogKnown, ObjKnown

(* A record has a type, a body, and a time when it can be converted. *)
LEMMA RecordFacts ==
  ASSUME NEW r \in Record
  PROVE  /\ r.type \in Types /\ r.body \in Seq(ByteValue)
         /\ r.type = "its" => r.time \in Times
         /\ r.type = "gps" /\ Len(r.body) >= GpsSize => r.time \in Times
         /\ r.time \in Times \cup {0}
<1>1. ASSUME NEW n \in Nat PROVE Xs(n) \in Seq(ByteValue) /\ Len(Xs(n)) = n
  BY <1>1 DEF Xs, ByteValue
<1>2. GpsSize - 1 \in Nat /\ GpsSize \in Nat /\ 1 \in Nat
  BY CvtAssumption
<1>3. CASE r.type = "its"
  BY <1>3, CvtAssumption DEF Record, Types
<1>4. CASE r.type = "gps"
  BY <1>4, <1>1, <1>2 DEF Record, Types
<1>5. CASE r.type \notin {"its", "gps"}
  BY <1>5, <1>1, <1>2, EmptySeq DEF Record, Types
<1> QED  BY <1>3, <1>4, <1>5

(* The magic number (main.c). *)
LEMMA MagicFacts ==
  /\ MagicNumber \in Seq(ByteValue) /\ Len(MagicNumber) = 4
  /\ MagicNumber[1] = "aa" /\ MagicNumber[2] = "55"
  /\ MagicNumber[3] = "55" /\ MagicNumber[4] = "aa"
  /\ \A i \in 1..4 : MagicNumber[i] \in ByteValue
<1>1. /\ MagicNumber \in Seq(ByteValue) /\ Len(MagicNumber) = 4
      /\ MagicNumber[1] = "aa" /\ MagicNumber[2] = "55"
      /\ MagicNumber[3] = "55" /\ MagicNumber[4] = "aa"
  BY DEF MagicNumber, ByteValue
<1>2. \A i \in 1..4 : MagicNumber[i] \in ByteValue
  BY <1>1, ElementOfSeq
<1> QED  BY <1>1, <1>2

(* Behind the size in the header of a record come its time stamp and body.  *)
LEMMA StampFacts ==
  ASSUME NEW r \in Record
  PROVE  LET s == StampAndBody(r)
         IN /\ s \in Seq(ByteValue) /\ Len(s) = StampLen + Len(r.body)
            /\ StampLen \in Nat /\ Len(r.body) \in Nat /\ Len(s) \in Nat
            /\ r.body \in Seq(ByteValue)
            /\ \A j \in 1..Len(r.body) : s[StampLen + j] = r.body[j]
<1> DEFINE t == Stamp[r.time]
           b == r.body
           s == StampAndBody(r)
           n == Len(b)
<1>1. t \in Seq(ByteValue) /\ Len(t) = StampLen /\ b \in Seq(ByteValue) /\ StampLen \in Nat
  BY RecordFacts, CvtAssumption
<1>2. s = t \o b
  BY DEF StampAndBody
<1>n. n = Len(b) /\ n \in Nat
  BY <1>1, LenProperties
<1> HIDE DEF t, b, s, n
<1>3. /\ s \in Seq(ByteValue) /\ Len(s) = Len(t) + Len(b)
      /\ \A i \in 1..(Len(t) + Len(b)) : s[i] = IF i <= Len(t) THEN t[i] ELSE b[i - Len(t)]
  BY <1>1, <1>2, ConcatProperties
<1>4. ASSUME NEW j \in 1..n PROVE s[StampLen + j] = b[j]
  <2> DEFINE i == StampLen + j
  <2>1. i \in 1..(StampLen + n) /\ ~(i <= StampLen) /\ i - StampLen = j
    BY <1>1, <1>n
  <2> HIDE DEF i
  <2>2. s[i] = b[i - StampLen]
    BY <1>1, <1>3, <1>n, <2>1
  <2> QED  BY <2>1, <2>2 DEF i
<1>5. Len(s) = StampLen + n /\ Len(s) \in Nat
  BY <1>1, <1>3, <1>n
<1> QED  BY <1>1, <1>3, <1>4, <1>5, <1>n DEF s, b, n

(* The cells of a record are the record's. *)
LEMMA CellsFacts ==
  ASSUME OptType, NEW r \in Nat, NEW body \in Seq(ByteValue)
  PROVE  /\ Cells(r, body) \in Seq(CellType)
         /\ \A i \in DOMAIN Cells(r, body) : Cells(r, body)[i].rec = r
<1> DEFINE C == {c \in CellType : c.rec = r}
           b == [i \in DOMAIN body |-> Cell(body[i], r)]
<1>1. Magic(r) \in Seq(C)
  <2>1. CASE isUsbLog
    <3>1. \A i \in 1..4 : Cell(MagicNumber[i], r) \in C
      BY MagicFacts DEF Cell, CellType, Values
    <3>2. Magic(r) = [i \in 1..4 |-> Cell(MagicNumber[i], r)]
      BY <2>1 DEF Magic
    <3> HIDE DEF C
    <3> QED  BY <3>1, <3>2
  <2>2. CASE ~isUsbLog
    <3>1. Magic(r) = << >>
      BY <2>2 DEF Magic
    <3> HIDE DEF C
    <3> QED  BY <3>1, EmptySeq
  <2> QED  BY <2>1, <2>2 DEF OptType
<1>2. <<Cell("hdr", r)>> \in Seq(C)
  BY DEF Cell, CellType, Values
<1>3. b \in Seq(C)
  BY DEF Cell, CellType, Values
<1>4. Cells(r, body) = Magic(r) \o <<Cell("hdr", r)>> \o b
  BY DEF Cells
<1> HIDE DEF b, C
<1>5. Magic(r) \o <<Cell("hdr", r)>> \in Seq(C)
  BY <1>1, <1>2, ConcatProperties
<1>6. Cells(r, body) \in Seq(C)
  BY <1>3, <1>4, <1>5, ConcatProperties
<1>7. \A i \in DOMAIN Cells(r, body) : Cells(r, body)[i] \in C
  BY <1>6, LenProperties, ElementOfSeq
<1> QED  BY <1>6, <1>7, SeqMonotonic DEF C

(* A header that is read is of a type known, and when it is one of the log  *)
(* it says what its record is.                                              *)
LEMMA HeaderFacts ==
  ASSUME LogType, LogKnown, NEW p \in DOMAIN log, NEW h \in Headers(p)
  PROVE  /\ h.type \in Types /\ h.size \in Nat /\ h.rec \in Nat
         /\ h.rec # 0 => h.rec \in DOMAIN records /\ h.time = records[h.rec].time
         /\ h.type = "its" => h.time \in Times
         /\ h.type = "gps" /\ h.size >= GpsSize => h.time \in Times
<1>1. log[p] \in CellType /\ log[p].rec \in DOMAIN records
  BY ElementOfSeq, LenProperties DEF LogType, LogKnown
<1> DEFINE r == records[log[p].rec]
<1>2. r \in Record /\ log[p].rec \in Nat
  BY <1>1, ElementOfSeq, LenProperties DEF LogType, CellType
<1>3. CASE log[p].value = "hdr"
  <2>1. h = [type |-> r.type, time |-> r.time, size |-> Len(r.body), rec |-> log[p].rec]
    BY <1>3 DEF Headers
  <2>2. Len(r.body) \in Nat
    BY <1>2, RecordFacts, LenProperties
  <2> HIDE DEF r
  <2>3. /\ r.type \in Types
        /\ r.type = "its" => r.time \in Times
        /\ r.type = "gps" /\ Len(r.body) >= GpsSize => r.time \in Times
    BY <1>2, RecordFacts
  <2>4. h.rec = log[p].rec /\ h.time = r.time /\ h.type = r.type /\ h.size = Len(r.body)
    BY <2>1
  <2> QED  BY <1>1, <1>2, <2>2, <2>3, <2>4 DEF r
<1>4. CASE log[p].value # "hdr"
  <2>1. h \in [type : IF log[p].value = "x" THEN Types ELSE {"other"}, time : Times,
               size : 0..2, rec : {0}]
    BY <1>4 DEF Headers
  <2>2. h.type \in (IF log[p].value = "x" THEN Types ELSE {"other"}) /\ h.time \in Times
        /\ h.size \in 0..2 /\ h.rec = 0
    BY <2>1
  <2>3. h.type \in Types
    BY <2>2 DEF Types
  <2> QED  BY <2>2, <2>3
<1> QED  BY <1>3, <1>4

(* A body that is all there consists of the values of cells. *)
LEMMA BodyFacts ==
  ASSUME LogType, NEW p \in Nat, NEW n \in Nat, p >= 1, p + n <= Len(log) + 1
  PROVE  BodyAt(p, n) \in Seq(Values) /\ Len(BodyAt(p, n)) = n
<1>1. Len(log) \in Nat /\ DOMAIN log = 1..Len(log)
  BY LenProperties DEF LogType
<1>2. ASSUME NEW i \in 1..n PROVE log[p + i - 1].value \in Values
  <2>1. p + i - 1 \in 1..Len(log)
    BY <1>1, <1>2
  <2>2. log[p + i - 1] \in CellType
    BY <2>1, ElementOfSeq DEF LogType
  <2> QED  BY <2>2 DEF CellType
<1> QED  BY <1>2 DEF BodyAt

(* The pseudo Ethernet layer is copied from the body. *)
LEMMA AddEthType ==
  ASSUME NEW b \in Seq(Values)
  PROVE  AddEth(b) \in Seq(Values)
<1>1. EthAt \in Nat /\ MacAt \in Nat /\ MacLen \in Nat /\ MacAt + MacLen <= EthAt
  BY CvtAssumption
<1>2. Len(b) \in Nat
  BY LenProperties
<1>3. CASE Len(b) <= EthAt
  BY <1>3 DEF AddEth
<1>4. CASE Len(b) > EthAt
  <2>1. \A i \in 1..Len(b) : b[i] \in Values
    BY ElementOfSeq
  <2>2. SubSeq(b, 1, EthAt) \in Seq(Values)
    BY <1>1, <1>2, <1>4, <2>1, SubSeqProperties
  <2>3. SubSeq(b, MacAt + 1, MacAt + MacLen) \in Seq(Values)
    BY <1>1, <1>2, <1>4, <2>1, SubSeqProperties
  <2>4. SubSeq(b, EthAt + 1, Len(b)) \in Seq(Values)
    BY <1>1, <1>2, <1>4, <2>1, SubSeqProperties
  <2>5. SubSeq(b, 1, EthAt) \o SubSeq(b, MacAt + 1, MacAt + MacLen) \in Seq(Values)
    BY <2>2, <2>3, ConcatProperties
  <2> QED  BY <1>4, <1>1, <1>2, <2>5, <2>4, ConcatProperties DEF AddEth
<1> QED  BY <1>1, <1>2, <1>3, <1>4

-----------------------------------------------------------------------------
(* What converting a record does to the writer. *)

ObjectOf(t, o) ==
  /\ objects' = Append(objects, o) /\ o \in ObjectType
  /\ o.rec # 0 => o.rec \in DOMAIN records /\ records[o.rec].time = t
AddedPcap == type = "pcapng" /\ UNCHANGED blfVars /\ \E t, o : ObjectOf(t, o)
AddedBlf ==
  type = "blf" /\ \E t \in Times : \E o : TimeNoted(t) /\ ObjectOf(t, o) /\ o.time = <<timeNs(t)>>
Added == AddedPcap \/ AddedBlf

(* The start of the measurement and the time of an object are numbers. *)
LEMMA TimeType ==
  ASSUME BlfType, NEW t \in Times
  PROVE  t \in Nat /\ MeasurementStart(t) \in Nat /\ t \div Second \in Nat /\ t % Second \in Nat
         /\ timeNs(t) \in Nat
<1>1. Second \in Nat \ {0} /\ Nano \in Nat \ {0} /\ Word \in Nat \ {0} /\ t \in Nat
  BY CvtAssumption
<1>2. t \div Second \in Nat /\ t % Second \in Nat
  BY <1>1
<1>3. MeasurementStart(t) \in Nat
  BY <1>1, <1>2 DEF MeasurementStart, BlfType
<1>4. (t - MeasurementStart(t)) % Word \in Nat
  BY <1>1, <1>3, DivMod
<1> DEFINE y == ((t - MeasurementStart(t)) % Word) * Nano
<1>5. y \in Nat
  BY <1>1, <1>4
<1> HIDE DEF y
<1>6. y % Word \in Nat
  BY <1>5, <1>1, DivMod
<1>7. timeNs(t) \in Nat
  BY <1>6 DEF timeNs, y
<1> QED  BY <1>1, <1>2, <1>3, <1>7

(* An ITS record is written unless there is no writer. *)
LEMMA WriteItsAdds ==
  ASSUME OptType, BlfType, NEW h, NEW body \in Seq(Values), h.type = "its", h.rec \in Nat,
         h.time \in Times, WriteIts(h, body),
         h.rec # 0 => h.rec \in DOMAIN records /\ h.time = records[h.rec].time
  PROVE  \/ type = "none" /\ UNCHANGED <<objects, blfVars>>
         \/ Added
<1>1. CASE type = "none" /\ UNCHANGED <<objects, blfVars>>
  BY <1>1
<1>2. CASE /\ type = "pcapng" /\ UNCHANGED blfVars
           /\ Written(h, <<h.time \div Second, h.time % Second>>, body)
  <2>1. <<h.time \div Second, h.time % Second>> \in Seq(Nat)
    BY TimeType
  <2> DEFINE o == [rec |-> h.rec, type |-> "its", time |-> <<h.time \div Second, h.time % Second>>,
                   data |-> body]
  <2>2. ObjectOf(h.time, o)
    BY <1>2, <2>1 DEF ObjectOf, ObjectType, Written
  <2> QED  BY <1>2, <2>2 DEF Added, AddedPcap
<1>3. CASE /\ type = "blf" /\ TimeNoted(h.time)
           /\ Written(h, <<timeNs(h.time)>>, AddEth(body))
  <2>1. <<timeNs(h.time)>> \in Seq(Nat) /\ AddEth(body) \in Seq(Values)
    BY TimeType, AddEthType
  <2> DEFINE o == [rec |-> h.rec, type |-> "its", time |-> <<timeNs(h.time)>>,
                   data |-> AddEth(body)]
  <2>2. ObjectOf(h.time, o) /\ o.time = <<timeNs(h.time)>>
    BY <1>3, <2>1 DEF ObjectOf, ObjectType, Written
  <2> QED  BY <1>3, <2>2 DEF Added, AddedBlf
<1> QED  BY <1>1, <1>2, <1>3 DEF WriteIts

(* A GPS record is written unless it is short or there is no writer. *)
LEMMA WriteGpsAdds ==
  ASSUME OptType, BlfType, NEW h, NEW body \in Seq(Values), h.type = "gps", h.rec \in Nat,
         Len(body) >= GpsSize => h.time \in Times, WriteGps(h, body),
         h.rec # 0 => h.rec \in DOMAIN records /\ h.time = records[h.rec].time
  PROVE  \/ type = "none" /\ UNCHANGED <<objects, blfVars>>
         \/ type # "none" /\ ~GpsTaken(body) /\ UNCHANGED <<objects, blfVars>>
         \/ GpsTaken(body) /\ Added
<1>0. GpsSize \in Nat /\ Len(body) \in Nat
  BY CvtAssumption, LenProperties
<1>1. CASE type = "none" /\ UNCHANGED <<objects, blfVars>>
  BY <1>1
<1>2. CASE type # "none" /\ Len(body) < GpsSize /\ UNCHANGED <<objects, blfVars>>
  BY <1>0, <1>2 DEF GpsTaken
<1>3. CASE /\ type = "pcapng" /\ Len(body) >= GpsSize /\ UNCHANGED blfVars
           /\ Written(h, <<h.time \div Second, h.time % Second>>, body)
  <2>1. <<h.time \div Second, h.time % Second>> \in Seq(Nat)
    BY <1>3, TimeType
  <2> DEFINE o == [rec |-> h.rec, type |-> "gps", time |-> <<h.time \div Second, h.time % Second>>,
                   data |-> body]
  <2>2. ObjectOf(h.time, o)
    BY <1>3, <2>1 DEF ObjectOf, ObjectType, Written
  <2> QED  BY <1>3, <2>2 DEF Added, AddedPcap, GpsTaken
<1>4. CASE /\ type = "blf" /\ Len(body) >= GpsSize /\ TimeNoted(h.time)
           /\ Written(h, <<timeNs(h.time)>>, body)
  <2>1. <<timeNs(h.time)>> \in Seq(Nat)
    BY <1>4, TimeType
  <2> DEFINE o == [rec |-> h.rec, type |-> "gps", time |-> <<timeNs(h.time)>>, data |-> body]
  <2>2. ObjectOf(h.time, o) /\ o.time = <<timeNs(h.time)>>
    BY <1>4, <2>1 DEF ObjectOf, ObjectType, Written
  <2> QED  BY <1>4, <2>2 DEF Added, AddedBlf, GpsTaken
<1> QED  BY <1>1, <1>2, <1>3, <1>4 DEF WriteGps

(* One second of the measurement leads back to the time of the record,      *)
(* signed and modulo the word (timeNs).                                     *)
LEMMA TimeLeadsBack ==
  ASSUME BlfType, NEW t \in Times, NEW s \in Times,
         MeasurementStart(t) = (s \div Second) * Second
  PROVE  (s \div Second) * Second * Nano + Signed(timeNs(t)) = t * Nano
<1> DEFINE m == (s \div Second) * Second
           x == t - m
<1>1. Second \in Nat \ {0} /\ Nano \in Nat \ {0} /\ t \in Nat /\ s \in Nat
  BY CvtAssumption
<1>2. m \in Nat /\ x \in Int
  BY <1>1
<1>3. x * Nano < Word \div 2 /\ x * Nano >= (Word \div 2) - Word
  BY SpanAssumption
<1>4. timeNs(t) = ((x % Word) * Nano) % Word
  BY DEF timeNs
<1> HIDE DEF m, x
<1>5. Signed(timeNs(t)) = x * Nano
  BY <1>2, <1>3, <1>4, SignedDifference
<1>6. x = t - m
  BY DEF x
<1>7. m * Nano + x * Nano = t * Nano
  BY <1>1, <1>2, <1>6
<1> QED  BY <1>5, <1>7 DEF m

(* What a writer adds keeps the invariant: types, the second the times are  *)
(* relative to, and that they lead back.                                    *)
LEMMA AddedKeeps ==
  ASSUME Parts, pc = "loop", pc' \in {"loop", "close"}, UNCHANGED <<optVars, records>>, Added
  PROVE  ObjType' /\ ObjKnown' /\ BlfType' /\ StartKnown' /\ TimesLeadBack'
<1> USE DEF Parts
<1>0. PICK t, o :
        /\ ObjectOf(t, o)
        /\ \/ type = "pcapng" /\ UNCHANGED blfVars
           \/ type = "blf" /\ t \in Times /\ TimeNoted(t) /\ o.time = <<timeNs(t)>>
  BY DEF Added, AddedPcap, AddedBlf
<1>a. records' = records /\ type' = type /\ objects \in Seq(ObjectType)
  BY DEF optVars, ObjType
<1>b. o \in ObjectType /\ objects' = Append(objects, o)
      /\ (o.rec # 0 => o.rec \in DOMAIN records /\ records[o.rec].time = t)
  <2>1. ObjectOf(t, o)
    BY <1>0
  <2> QED  BY <2>1 DEF ObjectOf
<1>1. /\ objects' \in Seq(ObjectType) /\ Len(objects') = Len(objects) + 1
      /\ \A i \in 1..Len(objects) : objects'[i] = objects[i]
      /\ objects'[Len(objects) + 1] = o
  BY <1>a, <1>b, AppendProperties
<1>2. Len(objects) \in Nat /\ DOMAIN objects = 1..Len(objects)
      /\ DOMAIN objects' = 1..(Len(objects) + 1)
  <2>1. Len(objects) \in Nat /\ DOMAIN objects = 1..Len(objects)
    BY <1>a, LenProperties
  <2>2. DOMAIN objects' = 1..Len(objects')
    BY <1>1, LenProperties
  <2> QED  BY <2>1, <2>2, <1>1
<1>3. ObjType'
  BY <1>1 DEF ObjType
<1>4. ObjKnown'
  <2>1. ASSUME NEW i \in DOMAIN objects', objects'[i].rec # 0
        PROVE  objects'[i].rec \in DOMAIN records
    <3>1. CASE i = Len(objects) + 1
      BY <3>1, <2>1, <1>1, <1>b
    <3>2. CASE i # Len(objects) + 1
      BY <3>2, <2>1, <1>1, <1>2 DEF ObjKnown
    <3> QED  BY <3>1, <3>2
  <2> QED  BY <2>1, <1>a DEF ObjKnown
<1>5. objects' # <<>>
  BY <1>1, <1>2
<1>6. CASE type = "pcapng" /\ UNCHANGED blfVars
  BY <1>3, <1>4, <1>6 DEF BlfType, StartKnown, TimesLeadBack, blfVars, optVars
<1>7. CASE type = "blf" /\ t \in Times /\ TimeNoted(t) /\ o.time = <<timeNs(t)>>
  <2>1. BlfType'
    BY <1>7, TimeType DEF BlfType, TimeNoted
  <2>2. PICK s \in Times : /\ start' = s \div Second
                           /\ timeMeasurementStartUs' = (s \div Second) * Second
    <3>1. CASE timeFirst
      BY <3>1, <1>7 DEF TimeNoted, MeasurementStart
    <3>2. CASE ~timeFirst
      BY <3>2, <1>7 DEF TimeNoted, MeasurementStart, StartKnown
    <3> QED  BY <3>1, <3>2
  <2>3. StartKnown'
    BY <1>5, <1>7, <2>2 DEF StartKnown, TimeNoted, BlfType
  <2>4. ASSUME NEW i \in DOMAIN objects', objects'[i].rec # 0
        PROVE  start' * Second * Nano + Signed(objects'[i].time[1])
                 = records[objects'[i].rec].time * Nano
    <3>1. CASE i = Len(objects) + 1
      <4>1. MeasurementStart(t) = (s \div Second) * Second
        BY <2>2, <1>7 DEF TimeNoted
      <4>2. (s \div Second) * Second * Nano + Signed(timeNs(t)) = t * Nano
        BY <4>1, <1>7, TimeLeadsBack
      <4>3. objects'[i] = o /\ o.time[1] = timeNs(t) /\ records[o.rec].time = t
        BY <3>1, <1>b, <1>1, <1>7, <2>4
      <4> QED  BY <4>2, <4>3, <2>2
    <3>2. CASE i # Len(objects) + 1
      <4>1. i \in DOMAIN objects /\ objects'[i] = objects[i]
        BY <3>2, <1>1, <1>2
      <4>2. objects # <<>>
        BY <4>1, <1>2
      <4>3. start' = start
        BY <4>2, <1>7 DEF StartKnown, TimeNoted, BlfType
      <4>4. start * Second * Nano + Signed(objects[i].time[1]) = records[objects[i].rec].time * Nano
        BY <4>1, <2>4, <1>7 DEF TimesLeadBack
      <4> QED  BY <4>1, <4>3, <4>4
    <3> QED  BY <3>1, <3>2
  <2>5. TimesLeadBack'
    BY <2>4, <1>a DEF TimesLeadBack
  <2> QED  BY <1>3, <1>4, <2>1, <2>3, <2>5
<1> QED  BY <1>0, <1>6, <1>7

(* Without an object nothing changes. *)
LEMMA IgnoredKeeps ==
  ASSUME Parts, pc = "loop", pc' \in {"loop", "close"}, UNCHANGED <<optVars, records>>, Ignored
  PROVE  ObjType' /\ ObjKnown' /\ BlfType' /\ StartKnown' /\ TimesLeadBack'
  BY DEF Parts, Ignored, optVars, blfVars, ObjType, ObjKnown, BlfType, StartKnown, TimesLeadBack

(* Counting adds one to one type. *)
LEMMA CountedAdds ==
  ASSUME CountType, NEW t \in Types, Counted(t)
  PROVE  /\ CountType'
         /\ \A u \in Types : count'[u] = IF u = t THEN count[u] + 1 ELSE count[u]
  BY DEF CountType, Counted

(* A record is counted when it is written and not otherwise, and what is    *)
(* written keeps the rest of the invariant.                                 *)
LEMMA ConvertKeeps ==
  ASSUME Parts, pc = "loop", pc' \in {"loop", "close"}, UNCHANGED <<optVars, records>>,
         NEW p \in DOMAIN log, NEW h \in Headers(p), p + StampLen + h.size <= Len(log),
         Convert(h, BodyAt(p + StampLen + 1, h.size))
  PROVE  /\ ObjType' /\ ObjKnown' /\ BlfType' /\ StartKnown' /\ TimesLeadBack'
         /\ CountType' /\ CountsMatch'
<1> DEFINE body == BodyAt(p + StampLen + 1, h.size)
           Kept == ObjType' /\ ObjKnown' /\ BlfType' /\ StartKnown' /\ TimesLeadBack'
<1>1. OptType /\ LogType /\ LogKnown /\ BlfType /\ CountType /\ CountsMatch /\ ObjType
  BY DEF Parts
<1>2. /\ h.type \in Types /\ h.size \in Nat /\ h.rec \in Nat
      /\ h.rec # 0 => h.rec \in DOMAIN records /\ h.time = records[h.rec].time
      /\ h.type = "its" => h.time \in Times
      /\ h.type = "gps" /\ h.size >= GpsSize => h.time \in Times
  BY <1>1, HeaderFacts
<1>3. body \in Seq(Values) /\ Len(body) = h.size
  <2>1. p \in Nat /\ p >= 1 /\ Len(log) \in Nat /\ StampLen \in Nat
    BY <1>1, LenProperties, CvtAssumption DEF LogType
  <2> DEFINE q == p + StampLen + 1
             n == h.size
             l == Len(log)
  <2>2. q \in Nat /\ q >= 1 /\ q + n <= l + 1 /\ n \in Nat
    <3>1. n \in Nat /\ l \in Nat /\ p + StampLen + n <= l
      BY <2>1, <1>2
    <3> HIDE DEF n, l
    <3> QED  BY <2>1, <3>1
  <2> HIDE DEF q, n
  <2>3. BodyAt(q, n) \in Seq(Values) /\ Len(BodyAt(q, n)) = n
    BY <2>2, <1>1, BodyFacts
  <2> QED  BY <2>3 DEF q, n
<1>4. type' = type /\ "its" \in Types /\ "gps" \in Types
  BY DEF optVars, Types
<1>5. ASSUME type = "none", CountType', Ignored PROVE Kept /\ CountType' /\ CountsMatch'
  BY <1>5, <1>4, IgnoredKeeps DEF CountsMatch
<1>6. ASSUME Added, h.type \in {"its", "gps"}, Counted(h.type)
      PROVE  Kept /\ CountType' /\ CountsMatch'
  <2>1. Kept
    BY <1>6, AddedKeeps
  <2>2. CountType' /\ \A u \in Types : count'[u] = IF u = h.type THEN count[u] + 1 ELSE count[u]
    BY <1>1, <1>2, <1>6, CountedAdds
  <2>3. PICK t, o : ObjectOf(t, o)
    BY <1>6 DEF Added, AddedPcap, AddedBlf
  <2>4. Len(objects') = Len(objects) + 1
    BY <2>3, <1>1, AppendProperties DEF ObjectOf, ObjType
  <2>5. type # "none" /\ count["its"] \in Nat /\ count["gps"] \in Nat
    BY <1>6, <1>1, <1>4 DEF Added, AddedPcap, AddedBlf, CountType
  <2>6. count'["its"] + count'["gps"] = count["its"] + count["gps"] + 1
    BY <2>2, <2>5, <1>4, <1>6
  <2> QED  BY <2>1, <2>2, <2>4, <2>5, <2>6, <1>1 DEF CountsMatch
<1>7. CASE h.type = "its" /\ WriteIts(h, body) /\ Counted("its")
  <2>1. (type = "none" /\ Ignored) \/ Added
    BY <1>7, <1>1, <1>2, <1>3, WriteItsAdds DEF Ignored
  <2>2. CountType'
    BY <1>7, <1>1, <1>4, CountedAdds
  <2> QED  BY <2>1, <2>2, <1>5, <1>6, <1>7
<1>8. CASE /\ h.type = "gps" /\ WriteGps(h, body)
           /\ IF GpsTaken(body) THEN Counted("gps") ELSE UNCHANGED count
  <2>1. \/ type = "none" /\ Ignored
        \/ type # "none" /\ ~GpsTaken(body) /\ Ignored
        \/ GpsTaken(body) /\ Added
    BY <1>8, <1>1, <1>2, <1>3, WriteGpsAdds DEF Ignored
  <2>2. CountType'
    <3>1. CASE GpsTaken(body)
      BY <3>1, <1>8, <1>1, <1>4, CountedAdds
    <3>2. CASE ~GpsTaken(body)
      BY <3>2, <1>8, <1>1 DEF CountType
    <3> QED  BY <3>1, <3>2
  <2>3. ASSUME ~GpsTaken(body), Ignored PROVE Kept /\ CountsMatch'
    <3>1. UNCHANGED <<count, objects>>
      BY <2>3, <1>8 DEF Ignored
    <3> QED  BY <3>1, <2>3, <1>1, <1>4, IgnoredKeeps DEF CountsMatch
  <2> QED  BY <2>1, <2>2, <2>3, <1>5, <1>6, <1>8
<1>9. CASE h.type \in {"time", "info", "version", "other"} /\ Counted(h.type) /\ Ignored
  <2>1. CountType' /\ \A u \in Types : count'[u] = IF u = h.type THEN count[u] + 1 ELSE count[u]
    BY <1>1, <1>2, <1>9, CountedAdds
  <2>2. count'["its"] = count["its"] /\ count'["gps"] = count["gps"]
    BY <2>1, <1>9, <1>4
  <2>3. CountsMatch'
    BY <2>2, <1>9, <1>1, <1>4 DEF CountsMatch, Ignored
  <2> QED  BY <2>1, <2>3, <1>9, IgnoredKeeps
<1> QED  BY <1>7, <1>8, <1>9 DEF Convert

-----------------------------------------------------------------------------
(* The position behind the next magic number. *)

(* A set of natural numbers that is not empty has a least one. *)
LEMMA LeastNat ==
  ASSUME NEW S \in SUBSET Nat, S # {}
  PROVE  \E n \in S : \A m \in S : n <= m
<1> DEFINE R == {p \in Nat \X Nat : p[1] < p[2]}
<1>1. OpToRel(<, Nat) = R
  BY DEF OpToRel
<1>2. IsWellFoundedOn(R, Nat)
  BY <1>1, NatLessThanWellFounded
<1>3. PICK n \in S : \A m \in S : ~(<<m, n>> \in R)
  BY <1>2, WFMin
<1>4. ASSUME NEW m \in S PROVE n <= m
  <2>1. m \in Nat /\ n \in Nat /\ ~(<<m, n>> \in R)
    BY <1>3
  <2>2. ~(m < n)
    BY <2>1
  <2> QED  BY <2>1, <2>2
<1> QED  BY <1>4

(* skip_magic returns a position behind two cells of the log, or none. *)
LEMMA SkipMagicType ==
  ASSUME LogType, NEW p \in Nat
  PROVE  skip_magic(p) \in Nat
<1>1. Len(log) \in Nat
  BY LenProperties DEF LogType
<1>2. MagicEnds(p) \in SUBSET Nat
  BY <1>1 DEF MagicEnds
<1>3. CASE MagicEnds(p) = {}
  BY <1>3 DEF skip_magic
<1>4. CASE MagicEnds(p) # {}
  <2>1. \E q \in MagicEnds(p) : \A e \in MagicEnds(p) : q <= e
    BY <1>2, <1>4, LeastNat
  <2>2. skip_magic(p) \in MagicEnds(p)
    BY <1>4, <2>1 DEF skip_magic
  <2> QED  BY <1>2, <2>2
<1> QED  BY <1>3, <1>4

-----------------------------------------------------------------------------
(* The steps of the program. *)

(* At the start nothing is read and nothing written. *)
LEMMA InitParts == Init => Parts
<1> SUFFICES ASSUME Init PROVE Parts
  OBVIOUS
<1>1. MaxFiles \in Nat
  BY CvtAssumption
<1>2. <<>> \in Seq(Record) /\ <<>> \in Seq(CellType) /\ <<>> \in Seq(ObjectType) /\ Len(<<>>) = 0
  BY EmptySeq
<1>3. OptType /\ CtlType /\ LogType /\ PosType /\ ObjType /\ BlfType
  <2>1. OptType /\ BlfType
    BY DEF Init, OptType, BlfType
  <2>2. CtlType
    BY <1>1 DEF Init, CtlType
  <2>3. LogType /\ ObjType
    BY <1>2 DEF Init, LogType, ObjType
  <2>4. PosType
    <3>1. pos = 1 /\ Len(log) = 0 /\ eof \in BOOLEAN
      BY <1>2 DEF Init
    <3>2. pos \in 1..(Len(log) + 1)
      BY <3>1
    <3> QED  BY <3>1, <3>2 DEF PosType
  <2> QED  BY <2>1, <2>2, <2>3, <2>4
<1>4. CountType /\ count["its"] = 0 /\ count["gps"] = 0
  BY DEF Init, CountType, Zero, Types
<1>5. LogKnown /\ ObjKnown /\ TimesLeadBack
  BY DEF Init, LogKnown, ObjKnown, TimesLeadBack
<1>6. CountsMatch /\ StartKnown /\ FreshAtOpen
  BY <1>2, <1>4 DEF Init, CountsMatch, StartKnown, FreshAtOpen
<1> QED  BY <1>3, <1>4, <1>5, <1>6 DEF Parts

(* Capturing a record makes the log longer, and nothing else. *)
LEMMA CaptureParts == Parts /\ Capture => Parts'
<1> SUFFICES ASSUME Parts, Capture PROVE Parts'
  OBVIOUS
<1>1. PICK r \in Record :
        records' = Append(records, r) /\ log' = log \o Cells(Len(records'), StampAndBody(r))
  BY DEF Capture
<1>2. OptType /\ LogType /\ LogKnown /\ PosType /\ ObjKnown /\ FreshAtOpen
  BY DEF Parts
<1>3. UNCHANGED <<optVars, pc, argc, pos, eof, count, objects, blfVars>> /\ pc = "open"
  BY DEF Capture
<1>4. /\ records' \in Seq(Record) /\ Len(records') = Len(records) + 1 /\ Len(records) \in Nat
  BY <1>1, <1>2, AppendProperties, LenProperties DEF LogType
<1>5. DOMAIN records = 1..Len(records) /\ DOMAIN records' = 1..(Len(records) + 1)
  BY <1>2, <1>4, LenProperties DEF LogType
<1> DEFINE c == Cells(Len(records'), StampAndBody(r))
<1>6. c \in Seq(CellType) /\ \A i \in DOMAIN c : c[i].rec = Len(records) + 1
  <2>1. StampAndBody(r) \in Seq(ByteValue) /\ Len(records') \in Nat
    BY <1>4, StampFacts
  <2> QED  BY <2>1, <1>2, <1>4, CellsFacts
<1>7. log \in Seq(CellType) /\ log' = log \o c
  BY <1>1, <1>2 DEF LogType
<1> HIDE DEF c
<1>8. /\ log' \in Seq(CellType) /\ Len(log') = Len(log) + Len(c)
      /\ \A i \in 1..(Len(log) + Len(c)) :
           log'[i] = IF i <= Len(log) THEN log[i] ELSE c[i - Len(log)]
  BY <1>6, <1>7, ConcatProperties
<1>9. /\ Len(log) \in Nat /\ Len(c) \in Nat /\ DOMAIN log = 1..Len(log) /\ DOMAIN c = 1..Len(c)
      /\ DOMAIN log' = 1..(Len(log) + Len(c))
  BY <1>6, <1>7, <1>8, LenProperties
<1>10. LogType' /\ PosType'
  BY <1>2, <1>3, <1>4, <1>8, <1>9 DEF LogType, PosType
<1>11. LogKnown'
  <2>1. ASSUME NEW i \in DOMAIN log' PROVE log'[i].rec \in DOMAIN records'
    <3>1. CASE i <= Len(log)
      BY <3>1, <2>1, <1>2, <1>5, <1>8, <1>9, <1>4 DEF LogKnown
    <3>2. CASE i > Len(log)
      <4>1. i - Len(log) \in DOMAIN c /\ log'[i] = c[i - Len(log)]
        BY <3>2, <2>1, <1>8, <1>9
      <4> QED  BY <4>1, <1>6, <1>5, <1>4
    <3> QED  BY <3>1, <3>2, <2>1, <1>9
  <2> QED  BY <2>1 DEF LogKnown
<1>12. objects = <<>> /\ objects' = objects
  BY <1>2, <1>3 DEF FreshAtOpen
<1>13. ObjKnown' /\ TimesLeadBack'
  BY <1>12, <1>3 DEF ObjKnown, TimesLeadBack
<1>14. OptType' /\ CtlType' /\ CountType' /\ ObjType' /\ BlfType'
  BY <1>3 DEF Parts, OptType, CtlType, CountType, ObjType, BlfType, optVars, blfVars
<1>15. CountsMatch' /\ StartKnown' /\ FreshAtOpen'
  BY <1>3 DEF Parts, CountsMatch, StartKnown, FreshAtOpen, optVars, blfVars
<1> QED  BY <1>10, <1>11, <1>13, <1>14, <1>15 DEF Parts

(* A part of a log is a log. *)
LEMMA PartOfLog ==
  ASSUME LogType, LogKnown, NEW a \in Nat \ {0}, NEW m \in Int, m <= Len(log)
  PROVE  /\ SubSeq(log, a, m) \in Seq(CellType)
         /\ \A i \in DOMAIN SubSeq(log, a, m) : SubSeq(log, a, m)[i].rec \in DOMAIN records
<1>1. Len(log) \in Nat /\ DOMAIN log = 1..Len(log) /\ \A i \in 1..Len(log) : log[i] \in CellType
  BY LenProperties, ElementOfSeq DEF LogType
<1>2. \A i \in a..m : log[i] \in CellType
  BY <1>1
<1>3. /\ SubSeq(log, a, m) \in Seq(CellType)
      /\ Len(SubSeq(log, a, m)) = IF a <= m THEN m - a + 1 ELSE 0
      /\ \A i \in 1..(m - a + 1) : SubSeq(log, a, m)[i] = log[a + i - 1]
  BY <1>2, SubSeqProperties
<1>4. DOMAIN SubSeq(log, a, m) = 1..Len(SubSeq(log, a, m))
  BY <1>3, LenProperties
<1>5. ASSUME NEW i \in DOMAIN SubSeq(log, a, m)
      PROVE  SubSeq(log, a, m)[i].rec \in DOMAIN records
  <2>1. i \in 1..(m - a + 1) /\ a + i - 1 \in DOMAIN log
    BY <1>1, <1>3, <1>4
  <2> QED  BY <2>1, <1>3 DEF LogKnown
<1> QED  BY <1>3, <1>5

(* A log that is opened is a part of the capture, for a writer that is new. *)
LEMMA OpenParts == Parts /\ Open => Parts'
<1> SUFFICES ASSUME Parts, Open PROVE Parts'
  OBVIOUS
<1>1. OptType /\ LogType /\ LogKnown /\ PosType /\ FreshAtOpen
  BY DEF Parts
<1>2. /\ UNCHANGED <<optVars, argc, records, pos, eof, count, objects>>
      /\ pc = "open" /\ pc' = "loop" /\ argc > 0 /\ Cut /\ NewWriter
  BY DEF Open
<1>3. pos = 1 /\ objects = <<>>
  BY <1>1, <1>2 DEF FreshAtOpen
<1>4. PICK a \in (IF isUsbLog /\ log # <<>> THEN Of(1) ELSE {1}) :
        \E n \in 0..Cardinality(Of(Len(records))) : log' = SubSeq(log, a, Len(log) - n)
  BY <1>2 DEF Cut
<1>5. PICK n \in 0..Cardinality(Of(Len(records))) : log' = SubSeq(log, a, Len(log) - n)
  BY <1>4
<1>6. Len(log) \in Nat /\ DOMAIN log = 1..Len(log)
  BY <1>1, LenProperties DEF LogType
<1>7. a \in Nat \ {0} /\ Len(log) - n \in Int /\ Len(log) - n <= Len(log)
  BY <1>4, <1>5, <1>6 DEF Of
<1>8. log' \in Seq(CellType) /\ \A i \in DOMAIN log' : log'[i].rec \in DOMAIN records
  BY <1>1, <1>5, <1>7, PartOfLog
<1>9. LogType' /\ LogKnown'
  BY <1>1, <1>2, <1>8 DEF LogType, LogKnown
<1>10. PosType'
  <2>1. Len(log') \in Nat
    BY <1>8, LenProperties
  <2>2. pos' = 1 /\ eof' \in BOOLEAN
    BY <1>1, <1>2, <1>3 DEF PosType
  <2> QED  BY <2>1, <2>2 DEF PosType
<1>11. OptType' /\ CtlType' /\ CountType' /\ ObjType'
  BY <1>2 DEF Parts, OptType, CtlType, CountType, ObjType, optVars
<1>12. BlfType' /\ StartKnown'
  BY <1>2, <1>3 DEF NewWriter, BlfType, StartKnown
<1>13. ObjKnown' /\ TimesLeadBack'
  BY <1>2, <1>3 DEF ObjKnown, TimesLeadBack
<1>14. CountsMatch' /\ FreshAtOpen'
  BY <1>2 DEF Parts, CountsMatch, FreshAtOpen, optVars
<1> QED  BY <1>9, <1>10, <1>11, <1>12, <1>13, <1>14 DEF Parts

(* Without a log there is nothing to keep. *)
LEMMA EmptyLogParts ==
  ASSUME records' = <<>>, log' = <<>>, pos' = 1, eof' \in BOOLEAN
  PROVE  LogType' /\ LogKnown' /\ PosType'
<1>1. <<>> \in Seq(Record) /\ <<>> \in Seq(CellType) /\ Len(<<>>) = 0
  BY EmptySeq
<1>2. Len(log') = 0
  BY <1>1
<1> QED  BY <1>1, <1>2 DEF LogType, LogKnown, PosType

(* A log that cannot be opened leaves everything as it was. *)
LEMMA OpenFailsParts == Parts /\ OpenFails => Parts'
<1> SUFFICES ASSUME Parts, OpenFails PROVE Parts'
  OBVIOUS
<1>1. /\ UNCHANGED <<optVars, pc, pos, eof, count, objects>> /\ argc' = argc - 1
      /\ pc = "open" /\ argc > 0 /\ records' = <<>> /\ log' = <<>>
      /\ UNCHANGED blfVars \/ (type = "blf" /\ NewWriter)
  BY DEF OpenFails
<1>2. pos = 1 /\ objects = <<>> /\ eof \in BOOLEAN
  BY <1>1 DEF Parts, FreshAtOpen, PosType
<1>3. LogType' /\ LogKnown' /\ PosType'
  BY <1>1, <1>2, EmptyLogParts
<1>4. OptType' /\ CountType' /\ ObjType'
  BY <1>1 DEF Parts, OptType, CountType, ObjType, optVars
<1>5. CtlType'
  <2>1. MaxFiles \in Nat
    BY CvtAssumption
  <2> QED  BY <2>1, <1>1 DEF Parts, CtlType
<1>6. BlfType' /\ StartKnown'
  <2>1. StartKnown'
    BY <1>1 DEF StartKnown
  <2>2. CASE UNCHANGED blfVars
    BY <2>1, <2>2 DEF Parts, BlfType, blfVars
  <2>3. CASE NewWriter
    BY <2>1, <2>3 DEF NewWriter, BlfType
  <2> QED  BY <1>1, <2>2, <2>3
<1>7. ObjKnown' /\ TimesLeadBack'
  BY <1>1, <1>2 DEF ObjKnown, TimesLeadBack
<1>8. CountsMatch' /\ FreshAtOpen'
  BY <1>1 DEF Parts, CountsMatch, FreshAtOpen, optVars
<1> QED  BY <1>3, <1>4, <1>5, <1>6, <1>7, <1>8 DEF Parts

(* Closing forgets the log. *)
LEMMA CloseParts == Parts /\ Close => Parts'
<1> SUFFICES ASSUME Parts, Close PROVE Parts'
  OBVIOUS
<1>1. /\ UNCHANGED <<optVars, blfVars>> /\ pc = "close" /\ pc' = "open" /\ argc' = argc - 1
      /\ records' = <<>> /\ log' = <<>> /\ pos' = 1 /\ eof' = FALSE
      /\ count' = Zero /\ objects' = <<>>
  BY DEF Close
<1>2. LogType' /\ LogKnown' /\ PosType'
  BY <1>1, EmptyLogParts
<1>3. OptType' /\ BlfType' /\ StartKnown'
  BY <1>1 DEF Parts, OptType, BlfType, StartKnown, optVars, blfVars
<1>4. CtlType'
  <2>1. MaxFiles \in Nat
    BY CvtAssumption
  <2> QED  BY <2>1, <1>1 DEF Parts, CtlType
<1>5. CountType' /\ count'["its"] = 0 /\ count'["gps"] = 0
  BY <1>1 DEF CountType, Zero, Types
<1>6. ObjType' /\ Len(objects') = 0
  BY <1>1, EmptySeq DEF ObjType
<1>7. ObjKnown' /\ TimesLeadBack'
  BY <1>1 DEF ObjKnown, TimesLeadBack
<1>8. CountsMatch' /\ FreshAtOpen'
  BY <1>1, <1>5, <1>6 DEF CountsMatch, FreshAtOpen
<1> QED  BY <1>2, <1>3, <1>4, <1>5, <1>6, <1>7, <1>8 DEF Parts

(* One record, or the end of the log. *)
LEMMA IterateParts == Parts /\ Iterate => Parts'
<1> SUFFICES ASSUME Parts, Iterate PROVE Parts'
  OBVIOUS
<1> DEFINE p == IF isUsbLog THEN skip_magic(pos) ELSE pos
<1>1. pc = "loop" /\ UNCHANGED <<optVars, argc, records, log>> /\ log_cvt(p)
  BY DEF Iterate
<1>2. OptType /\ LogType /\ LogKnown /\ PosType /\ CtlType /\ CountType
  BY DEF Parts
<1>3. Len(log) \in Nat /\ DOMAIN log = 1..Len(log)
  BY <1>2, LenProperties DEF LogType
<1>4. pos \in Nat
  BY <1>2, <1>3 DEF PosType
<1>5. p \in Nat /\ StampLen \in Nat
  BY <1>2, <1>4, SkipMagicType, CvtAssumption DEF OptType
<1> HIDE DEF p
<1> DEFINE Rest == ObjType' /\ ObjKnown' /\ BlfType' /\ StartKnown' /\ TimesLeadBack'
                     /\ CountType' /\ CountsMatch'
<1>6. ASSUME eof' = TRUE, pc' = "close", UNCHANGED <<pos, count>>, Ignored
      PROVE  Rest /\ PosType' /\ pc' \in {"loop", "close"}
  <2>1. ObjType' /\ ObjKnown' /\ BlfType' /\ StartKnown' /\ TimesLeadBack'
    BY <1>1, <1>6, IgnoredKeeps
  <2>2. CountType' /\ CountsMatch'
    BY <1>1, <1>6 DEF Parts, CountType, CountsMatch, Ignored, optVars
  <2>3. PosType' /\ pc' \in {"loop", "close"}
    BY <1>1, <1>2, <1>6 DEF PosType
  <2> QED  BY <2>1, <2>2, <2>3
<1>7. ASSUME p # 0, p <= Len(log), NEW h \in Headers(p), p + StampLen + h.size <= Len(log),
             Convert(h, BodyAt(p + StampLen + 1, h.size)), pos' = p + StampLen + 1 + h.size,
             UNCHANGED eof,
             pc' = IF h.type = "other" THEN "close" ELSE "loop"
      PROVE  Rest /\ PosType' /\ pc' \in {"loop", "close"}
  <2>1. p \in DOMAIN log /\ pc' \in {"loop", "close"}
    BY <1>3, <1>5, <1>7
  <2>2. Rest
    BY <2>1, <1>1, <1>7, ConvertKeeps
  <2>3. h.size \in Nat
    BY <2>1, <1>2, HeaderFacts
  <2>4. log' = log /\ pos' \in 1..(Len(log) + 1)
    <3> DEFINE n == h.size
               l == Len(log)
    <3>1. n \in Nat /\ l \in Nat /\ p + StampLen + n <= l /\ pos' = p + StampLen + 1 + n
      BY <2>3, <1>3, <1>7
    <3> HIDE DEF n, l
    <3>2. pos' \in 1..(l + 1)
      BY <3>1, <1>5, <1>7
    <3> QED  BY <3>2, <1>1 DEF l
  <2>5. PosType'
    BY <2>4, <1>2, <1>7 DEF PosType
  <2> QED  BY <2>1, <2>2, <2>5
<1>8. Rest /\ PosType' /\ pc' \in {"loop", "close"}
  <2>1. CASE p = 0 \/ p + StampLen > Len(log)
    BY <2>1, <1>1, <1>6 DEF log_cvt
  <2>2. CASE ~(p = 0 \/ p + StampLen > Len(log))
    <3>1. p # 0 /\ p <= Len(log)
      BY <2>2, <1>3, <1>5
    <3>2. PICK h \in Headers(p) :
            IF p + StampLen + h.size > Len(log)
            THEN eof' = TRUE /\ pc' = "close" /\ UNCHANGED <<pos, count>> /\ Ignored
            ELSE /\ Convert(h, BodyAt(p + StampLen + 1, h.size))
                 /\ pos' = p + StampLen + 1 + h.size /\ UNCHANGED eof
                 /\ pc' = IF h.type = "other" THEN "close" ELSE "loop"
      BY <2>2, <1>1 DEF log_cvt
    <3>3. CASE p + StampLen + h.size > Len(log)
      BY <3>2, <3>3, <1>6
    <3>4. CASE ~(p + StampLen + h.size > Len(log))
      <4>1. p \in DOMAIN log
        BY <3>1, <1>3, <1>5
      <4>2. h.size \in Nat
        BY <4>1, <1>2, HeaderFacts
      <4>3. p + StampLen + h.size <= Len(log)
        BY <4>2, <3>4, <1>3, <1>5
      <4> QED  BY <3>1, <3>2, <3>4, <4>3, <1>7
    <3> QED  BY <3>3, <3>4
  <2> QED  BY <2>1, <2>2
<1>9. OptType' /\ LogType' /\ LogKnown'
  BY <1>1, <1>2 DEF OptType, LogType, LogKnown, optVars
<1>10. CtlType' /\ FreshAtOpen'
  BY <1>1, <1>2, <1>8 DEF CtlType, FreshAtOpen
<1> QED  BY <1>8, <1>9, <1>10 DEF Parts

(* Every step keeps the parts. *)
LEMMA NextParts == Parts /\ [Next]_vars => Parts'
<1> SUFFICES ASSUME Parts, [Next]_vars PROVE Parts'
  OBVIOUS
<1>1. CASE Capture
  BY <1>1, CaptureParts
<1>2. CASE Open
  BY <1>2, OpenParts
<1>3. CASE OpenFails
  BY <1>3, OpenFailsParts
<1>4. CASE Iterate
  BY <1>4, IterateParts
<1>5. CASE Close
  BY <1>5, CloseParts
<1>6. ASSUME UNCHANGED <<optVars, argc, fileVars, count, objects, blfVars>>,
             pc' = pc \/ (pc = "open" /\ pc' = "done")
      PROVE  Parts'
  <2>1. OptType' /\ CtlType' /\ LogType' /\ PosType' /\ CountType' /\ ObjType' /\ BlfType'
    BY <1>6 DEF Parts, OptType, CtlType, LogType, PosType, CountType, ObjType, BlfType,
                optVars, fileVars, blfVars
  <2>2. LogKnown' /\ ObjKnown' /\ CountsMatch' /\ StartKnown' /\ FreshAtOpen' /\ TimesLeadBack'
    BY <1>6 DEF Parts, LogKnown, ObjKnown, CountsMatch, StartKnown, FreshAtOpen, TimesLeadBack,
                optVars, fileVars, blfVars
  <2> QED  BY <2>1, <2>2 DEF Parts
<1>7. CASE Return
  BY <1>7, <1>6 DEF Return
<1>8. CASE UNCHANGED vars
  BY <1>8, <1>6 DEF vars
<1> QED  BY <1>1, <1>2, <1>3, <1>4, <1>5, <1>7, <1>8 DEF Next, main

-----------------------------------------------------------------------------
(* Types, counts and the second the times are relative to hold for every    *)
(* log, writer and number of files.                                         *)
THEOREM InductiveInvariant == Spec => []IInv
<1>1. Init => Parts
  BY InitParts
<1>2. Parts /\ [Next]_vars => Parts'
  BY NextParts
<1>3. Parts => IInv
  BY PartsAre
<1> QED  BY <1>1, <1>2, <1>3, PTL DEF Spec

(* For every set of time stamps whose differences fit a word, the times of  *)
(* a BLF file lead back to those of its records, also when records were     *)
(* stamped before the first one (BlfWriter::timeNs).                        *)
THEOREM TimesAreRecoverable == Spec => []TimesLeadBack
<1>1. Init => Parts
  BY InitParts
<1>2. Parts /\ [Next]_vars => Parts'
  BY NextParts
<1>3. Parts => TimesLeadBack
  BY PartsAre
<1> QED  BY <1>1, <1>2, <1>3, PTL DEF Spec

-----------------------------------------------------------------------------
(* How a log is laid out, and how far it has been converted. *)

(* Record r is at the positions above base[r], up to base[r + 1], as far as *)
(* they are in the log: what is cut in front of the first is at 0 and       *)
(* below, what is cut of the last behind the end.                           *)
MagicLen == IF isUsbLog THEN 4 ELSE 0
Rest(r) == StampAndBody(records[r])
Size(r) == MagicLen + 1 + Len(Rest(r))
Bases(base) ==
  /\ base \in [1..(Len(records) + 1) -> Int]
  /\ \A r \in DOMAIN records : base[r + 1] = base[r] + Size(r)
  /\ \A r, s \in 1..(Len(records) + 1) : r < s => base[r] < base[s]
Placed(base) ==
  \A i \in DOMAIN log :
    /\ base[log[i].rec] < i /\ i <= base[log[i].rec + 1]
    /\ log[i] = Cells(log[i].rec, Rest(log[i].rec))[i - base[log[i].rec]]
Ends(base) ==
  /\ base[1] <= 0 /\ (isUsbLog \/ base[1] = 0)
  /\ Len(records) > 0 => base[2] > 0
  /\ Len(log) <= base[Len(records) + 1]
Laid(base) == Bases(base) /\ Placed(base) /\ Ends(base)

(* The records before k are converted. *)
ReadBefore(k) == {r \in Readable : r < k}
Ordered == \A i, j \in DOMAIN objects : i < j => objects[i].rec < objects[j].rec
Faithful ==
  \A i \in DOMAIN objects :
    /\ objects[i].type = records[objects[i].rec].type
    /\ Frame(objects[i]) = records[objects[i].rec].body
Recs == {objects[i].rec : i \in DOMAIN objects}
Converted(k) == Ordered /\ Faithful /\ Recs = {r \in ReadBefore(k) : Convertible(r)}
Tallied == {"its", "info", "version"}
CountedTo(k) ==
  \A t \in Tallied : count[t] = Cardinality({r \in ReadBefore(k) : records[r].type = t})
(* Record k is the next; a first one that is cut in front is passed over    *)
(* with the search for the second.                                          *)
NextRead(base, k) == pos = base[k] + 1 \/ (k = 2 /\ pos = 1 /\ base[1] < 0)
ReadTo(base, k) ==
  /\ k \in 1..(Len(records) + 1) /\ base[k] >= 0
  /\ pc = "loop" => NextRead(base, k) /\ \A u \in Whole : u < k => records[u].type # "other"
  /\ pc = "close" => \A r \in Readable : r < k
  /\ type # "none" => Converted(k)
  /\ CountedTo(k)
ConvInv ==
  /\ pc = "open" => \E base : Laid(base) /\ base[1] = 0 /\ Len(log) = base[Len(records) + 1]
  /\ pc \in {"loop", "close"} /\ CleanStart => \E base : Laid(base) /\ \E k : ReadTo(base, k)

(* The cells of a record: magic, header, body. *)
LEMMA CellAt ==
  ASSUME OptType, NEW r \in Nat, NEW body \in Seq(ByteValue)
  PROVE  /\ MagicLen \in {0, 4} /\ Len(body) \in Nat
         /\ Len(Cells(r, body)) = MagicLen + 1 + Len(body)
         /\ isUsbLog => /\ MagicLen = 4
                        /\ \A j \in 1..4 : Cells(r, body)[j] = Cell(MagicNumber[j], r)
         /\ Cells(r, body)[MagicLen + 1] = Cell("hdr", r)
         /\ \A j \in 1..Len(body) : Cells(r, body)[MagicLen + 1 + j] = Cell(body[j], r)
<1> DEFINE B == [value : Values, rec : {r}]
           b == [i \in DOMAIN body |-> Cell(body[i], r)]
           m == Magic(r)
           h == <<Cell("hdr", r)>>
<1>1. /\ Len(body) \in Nat /\ DOMAIN body = 1..Len(body)
      /\ \A j \in 1..Len(body) : body[j] \in ByteValue
  BY LenProperties, ElementOfSeq
<1>2. b \in Seq(B) /\ Len(b) = Len(body) /\ \A j \in 1..Len(body) : b[j] = Cell(body[j], r)
  BY <1>1 DEF Cell, Values
<1>3. MagicLen \in {0, 4} /\ (isUsbLog => MagicLen = 4)
  BY DEF MagicLen, OptType
<1>4. m \in Seq(B) /\ Len(m) = MagicLen
      /\ (isUsbLog => \A j \in 1..4 : m[j] = Cell(MagicNumber[j], r))
  <2>1. CASE isUsbLog
    <3>1. m = [i \in 1..4 |-> Cell(MagicNumber[i], r)] /\ MagicLen = 4
      BY <2>1 DEF Magic, MagicLen
    <3>2. \A i \in 1..4 : Cell(MagicNumber[i], r) \in B
      BY MagicFacts DEF Cell, Values
    <3> HIDE DEF m, B
    <3>3. m \in Seq(B)
      BY <3>1, <3>2
    <3>4. Len(m) = 4
      BY <3>1
    <3> QED  BY <3>1, <3>3, <3>4
  <2>2. CASE ~isUsbLog
    <3>1. m = << >> /\ MagicLen = 0
      BY <2>2 DEF Magic, MagicLen
    <3> HIDE DEF B, m
    <3> QED  BY <2>2, <3>1, EmptySeq
  <2> QED  BY <2>1, <2>2 DEF OptType
<1>5. h \in Seq(B) /\ Len(h) = 1 /\ h[1] = Cell("hdr", r)
  BY DEF Cell, Values
<1>6. Cells(r, body) = m \o h \o b
  BY DEF Cells
<1> HIDE DEF m, h, b, B
<1>c. \A s, t \in Seq(B) :
        /\ s \o t \in Seq(B) /\ Len(s \o t) = Len(s) + Len(t)
        /\ \A i \in 1..(Len(s) + Len(t)) :
               (s \o t)[i] = IF i <= Len(s) THEN s[i] ELSE t[i - Len(s)]
  BY ConcatProperties
<1>7. m \o h \in Seq(B) /\ Len(m \o h) = MagicLen + 1
      /\ \A i \in 1..(MagicLen + 1) : (m \o h)[i] = IF i <= MagicLen THEN m[i] ELSE h[i - MagicLen]
  <2>1. m \in Seq(B) /\ h \in Seq(B) /\ Len(m) = MagicLen /\ Len(h) = 1
    BY <1>4, <1>5
  <2>2. /\ m \o h \in Seq(B) /\ Len(m \o h) = Len(m) + Len(h)
        /\ \A i \in 1..(Len(m) + Len(h)) : (m \o h)[i] = IF i <= Len(m) THEN m[i] ELSE h[i - Len(m)]
    BY <2>1, <1>c
  <2> QED  BY <2>1, <2>2
<1> DEFINE mh == m \o h
<1> HIDE DEF mh
<1>8. mh \in Seq(B) /\ Len(mh) = MagicLen + 1
      /\ \A i \in 1..(MagicLen + 1) : mh[i] = IF i <= MagicLen THEN m[i] ELSE h[i - MagicLen]
  BY <1>7 DEF mh
<1>n. MagicLen \in Nat /\ MagicLen + 1 \in Nat
  BY <1>3
<1>b. /\ Len(mh \o b) = Len(mh) + Len(b)
      /\ \A i \in 1..(Len(mh) + Len(b)) :
           (mh \o b)[i] = IF i <= Len(mh) THEN mh[i] ELSE b[i - Len(mh)]
  BY <1>8, <1>2, <1>c
<1>9. Len(mh \o b) = MagicLen + 1 + Len(body)
      /\ \A i \in 1..(MagicLen + 1 + Len(body)) :
           (mh \o b)[i] = IF i <= MagicLen + 1 THEN mh[i] ELSE b[i - (MagicLen + 1)]
  BY <1>8, <1>2, <1>b, <1>n
<1> DEFINE c == mh \o b
<1>10. Cells(r, body) = c
  BY <1>6 DEF mh
<1>11. /\ Len(c) = MagicLen + 1 + Len(body)
       /\ \A i \in 1..(MagicLen + 1 + Len(body)) :
            c[i] = IF i <= MagicLen + 1 THEN mh[i] ELSE b[i - (MagicLen + 1)]
  BY <1>9
<1> HIDE DEF c
<1>12. MagicLen \in Nat
  BY <1>3
<1>13. c[MagicLen + 1] = h[1]
  <2>1. c[MagicLen + 1] = mh[MagicLen + 1]
    BY <1>1, <1>11, <1>12
  <2>2. mh[MagicLen + 1] = h[1]
    BY <1>8, <1>12
  <2> QED  BY <2>1, <2>2
<1>14. ASSUME isUsbLog, NEW j \in 1..4 PROVE c[j] = Cell(MagicNumber[j], r)
  <2>1. MagicLen = 4
    BY <1>3, <1>14
  <2>2. j \in 1..(MagicLen + 1 + Len(body)) /\ j <= MagicLen + 1
        /\ j \in 1..(MagicLen + 1) /\ j <= MagicLen
    BY <2>1, <1>1
  <2>3. c[j] = m[j]
    BY <2>2, <1>8, <1>11
  <2> QED  BY <2>3, <1>4, <1>14
<1>15. ASSUME NEW j \in 1..Len(body) PROVE c[MagicLen + 1 + j] = b[j]
  <2>1. MagicLen + 1 + j \in 1..(MagicLen + 1 + Len(body)) /\ ~(MagicLen + 1 + j <= MagicLen + 1)
        /\ (MagicLen + 1 + j) - (MagicLen + 1) = j
    BY <1>1, <1>12
  <2> QED  BY <2>1, <1>11
<1> QED  BY <1>1, <1>2, <1>3, <1>4, <1>5, <1>10, <1>11, <1>13, <1>14, <1>15

(* The body of a record of the log. *)
LEMMA BodyType ==
  ASSUME LogType, NEW r \in DOMAIN records
  PROVE  /\ r \in Nat /\ r >= 1 /\ r <= Len(records) /\ Len(records) \in Nat
         /\ DOMAIN records = 1..Len(records)
         /\ records[r] \in Record /\ records[r].body \in Seq(ByteValue)
         /\ Len(records[r].body) \in Nat
         /\ Rest(r) \in Seq(ByteValue) /\ StampLen \in Nat /\ Len(Rest(r)) \in Nat
         /\ Len(Rest(r)) = StampLen + Len(records[r].body)
         /\ \A i \in 1..Len(records[r].body) : Rest(r)[StampLen + i] = records[r].body[i]
<1>1. Len(records) \in Nat /\ DOMAIN records = 1..Len(records)
  BY LenProperties DEF LogType
<1>2. records[r] \in Record
  BY <1>1, ElementOfSeq DEF LogType
<1>3. records[r].body \in Seq(ByteValue)
  BY <1>2, RecordFacts
<1>4. /\ Rest(r) \in Seq(ByteValue) /\ StampLen \in Nat /\ Len(Rest(r)) \in Nat
      /\ Len(Rest(r)) = StampLen + Len(records[r].body)
      /\ \A i \in 1..Len(records[r].body) : Rest(r)[StampLen + i] = records[r].body[i]
  BY <1>2, StampFacts DEF Rest
<1> QED  BY <1>1, <1>2, <1>3, <1>4, LenProperties

(* A position is of the record whose interval it is in, and only of that.   *)
LEMMA CellOf ==
  ASSUME OptType, LogType, LogKnown, NEW base, Laid(base), NEW r \in DOMAIN records,
         NEW i \in DOMAIN log
  PROVE  /\ log[i].rec = r <=> base[r] < i /\ i <= base[r + 1]
         /\ base[r] < i /\ i <= base[r + 1] =>
              log[i] = Cells(r, Rest(r))[i - base[r]]
<1> DEFINE u == log[i].rec
           n == Len(records)
<1>1. u \in DOMAIN records
  BY DEF LogKnown
<1>2. /\ n \in Nat /\ u \in 1..n /\ r \in 1..n
  BY <1>1, BodyType
<1>3. base[u] < i /\ i <= base[u + 1] /\ log[i] = Cells(u, Rest(u))[i - base[u]]
  BY DEF Laid, Placed
<1>4. /\ base[r] \in Int /\ base[r + 1] \in Int /\ base[u] \in Int /\ base[u + 1] \in Int
      /\ u < r => u + 1 = r \/ base[u + 1] < base[r]
      /\ r < u => r + 1 = u \/ base[r + 1] < base[u]
  <2>1. base \in [1..(n + 1) -> Int] /\ \A a, b \in 1..(n + 1) : a < b => base[a] < base[b]
    BY DEF Laid, Bases
  <2>2. r \in 1..(n + 1) /\ r + 1 \in 1..(n + 1) /\ u \in 1..(n + 1) /\ u + 1 \in 1..(n + 1)
    BY <1>2
  <2> HIDE DEF n, u
  <2>3. u < r => u + 1 = r \/ u + 1 < r
    BY <1>2
  <2>4. r < u => r + 1 = u \/ r + 1 < u
    BY <1>2
  <2> QED  BY <2>1, <2>2, <2>3, <2>4
<1>5. i \in Nat
  BY LenProperties DEF LogType
<1> HIDE DEF u, n
<1>6. u < r \/ u = r \/ r < u
  BY <1>2
<1>7. u = r <=> base[r] < i /\ i <= base[r + 1]
  BY <1>3, <1>4, <1>5, <1>6
<1> QED  BY <1>3, <1>7 DEF u

(* A record has as many cells in a row as its size. *)
LEMMA SizeOf ==
  ASSUME OptType, LogType, NEW base, Bases(base), NEW r \in DOMAIN records
  PROVE  /\ Size(r) \in Nat /\ Size(r) >= 1 /\ MagicLen \in Nat
         /\ Len(Cells(r, Rest(r))) = Size(r)
         /\ base[r] \in Int /\ base[r + 1] \in Int /\ base[r + 1] = base[r] + Size(r)
         /\ base[r + 1] = base[r] + MagicLen + 1 + Len(Rest(r))
<1>1. /\ r \in Nat /\ r <= Len(records) /\ r >= 1 /\ Len(records) \in Nat
      /\ Rest(r) \in Seq(ByteValue) /\ Len(Rest(r)) \in Nat
  BY BodyType
<1>2. Len(Cells(r, Rest(r))) = Size(r) /\ MagicLen \in Nat
  BY <1>1, CellAt DEF Size
<1>3. Size(r) \in Nat /\ Size(r) >= 1
  <2> DEFINE b == Len(Rest(r))
  <2>1. MagicLen \in Nat /\ b \in Nat /\ Size(r) = MagicLen + 1 + b
    BY <1>1, <1>2 DEF Size
  <2> HIDE DEF b
  <2> QED  BY <2>1
<1>4. base[r + 1] = base[r] + Size(r) /\ base \in [1..(Len(records) + 1) -> Int]
  BY DEF Bases
<1>5. r \in 1..(Len(records) + 1) /\ r + 1 \in 1..(Len(records) + 1)
  BY <1>1
<1>6. base[r] \in Int /\ base[r + 1] \in Int
  BY <1>4, <1>5
<1>7. base[r + 1] = base[r] + MagicLen + 1 + Len(Rest(r))
  <2> DEFINE b == Len(Rest(r))
             z == Size(r)
             m == MagicLen
             x == base[r]
             y == base[r + 1]
  <2>1. m \in Nat /\ b \in Nat /\ z = m + 1 + b /\ y = x + z /\ x \in Int
    BY <1>1, <1>2, <1>4, <1>6 DEF Size
  <2> HIDE DEF b, z, m, x, y
  <2>2. y = x + m + 1 + b
    BY <2>1
  <2> QED  BY <2>2 DEF b, m, x, y
<1> QED  BY <1>2, <1>3, <1>4, <1>6, <1>7

(* The bases of the records after k are not below that of the next one.     *)
LEMMA BasesGrow ==
  ASSUME LogType, NEW base, Bases(base), NEW r \in 1..(Len(records) + 1),
         NEW s \in 1..(Len(records) + 1), r <= s
  PROVE  base[r] \in Int /\ base[s] \in Int /\ base[r] <= base[s]
<1>1. base[r] \in Int /\ base[s] \in Int /\ (r < s => base[r] < base[s])
  BY DEF Bases
<1>2. r = s \/ r < s
  BY LenProperties DEF LogType
<1> QED  BY <1>1, <1>2

(* A record is in the log whole when nothing of it is cut at either end.    *)
LEMMA WholeAre ==
  ASSUME OptType, LogType, LogKnown, NEW base, Laid(base)
  PROVE  /\ Whole \subseteq DOMAIN records
         /\ \A r \in DOMAIN records :
              r \in Whole <=> base[r] >= 0 /\ base[r + 1] <= Len(log)
<1>0. Whole \subseteq DOMAIN records
  BY DEF Whole
<1> SUFFICES ASSUME NEW r \in DOMAIN records
             PROVE  r \in Whole <=> base[r] >= 0 /\ base[r + 1] <= Len(log)
  BY <1>0
<1> DEFINE a == base[r]
           z == Size(r)
           n == Len(log)
           S == {i \in DOMAIN log : log[i].rec = r}
<1>1. /\ z \in Nat /\ z >= 1 /\ Len(Cells(r, Rest(r))) = z
      /\ a \in Int /\ base[r + 1] = a + z
  BY SizeOf DEF Laid
<1>2. n \in Nat /\ DOMAIN log = 1..n
  BY LenProperties DEF LogType
<1>3. S = {i \in 1..n : a < i /\ i <= base[r + 1]}
  BY <1>2, CellOf
<1>4. r \in Whole <=> Cardinality(S) = z
  BY <1>1 DEF Whole, Rest
<1> HIDE DEF a, z, n, S
<1>5. S = {i \in 1..n : a < i /\ i <= a + z}
  BY <1>1, <1>3
<1> DEFINE T == (a + 1)..(a + z)
<1>6. IsFiniteSet(T) /\ Cardinality(T) = z
  <2>1. a + 1 \in Int /\ a + z \in Int /\ ~(a + 1 > a + z) /\ ((a + z) - (a + 1)) + 1 = z
    BY <1>1
  <2> QED  BY <2>1, FS_Interval
<1>7. S \in SUBSET T
  BY <1>1, <1>2, <1>5
<1>8. Cardinality(S) = z <=> S = T
  BY <1>6, <1>7, FS_Subset
<1>9. S = T <=> a >= 0 /\ a + z <= n
  <2>1. ASSUME S = T PROVE a >= 0 /\ a + z <= n
    <3>1. a + 1 \in S /\ a + z \in S
      BY <2>1, <1>1
    <3> QED  BY <3>1, <1>1, <1>2, <1>5
  <2>2. ASSUME a >= 0, a + z <= n PROVE S = T
    <3>1. ASSUME NEW i \in T PROVE i \in S
      BY <3>1, <2>2, <1>1, <1>2, <1>5
    <3> QED  BY <3>1, <1>7
  <2> QED  BY <2>1, <2>2
<1> QED  BY <1>1, <1>4, <1>8, <1>9 DEF a, n

(* The search ends behind the first magic number from p on, if there is one. *)
LEMMA SearchEnds ==
  ASSUME LogType, NEW p \in Nat, NEW q \in Nat,
         \A e \in MagicEnds(p) : q <= e
  PROVE  /\ q \in MagicEnds(p) => skip_magic(p) = q
         /\ q > Len(log) + 1 => skip_magic(p) = 0
<1>1. Len(log) \in Nat
  BY LenProperties DEF LogType
<1>2. \A e \in MagicEnds(p) : e \in Nat /\ e <= Len(log) + 1
  BY <1>1 DEF MagicEnds
<1>3. ASSUME q \in MagicEnds(p) PROVE skip_magic(p) = q
  <2>1. PICK e \in MagicEnds(p) :
          (CHOOSE m \in MagicEnds(p) : \A f \in MagicEnds(p) : m <= f) = e
          /\ \A f \in MagicEnds(p) : e <= f
    BY <1>3
  <2>2. e = q
    BY <2>1, <1>2, <1>3
  <2> QED  BY <2>1, <2>2, <1>3 DEF skip_magic
<1>4. ASSUME q > Len(log) + 1 PROVE skip_magic(p) = 0
  <2>1. MagicEnds(p) = {}
    BY <1>1, <1>2, <1>4
  <2> QED  BY <2>1 DEF skip_magic
<1> QED  BY <1>3, <1>4

(* Of what a USB log begins with of a first record, the search finds        *)
(* nothing when its body does not hold the magic number (skip_magic).       *)
LEMMA NoMagicInFront ==
  ASSUME OptType, LogType, LogKnown, CleanStart, isUsbLog, NEW base, Laid(base), base[1] < 0,
         Len(records) > 0, NEW i \in Nat, i >= 1, i <= base[2], i + 3 <= Len(log),
         log[i].value = "aa", log[i + 1].value = "55", log[i + 2].value = "55",
         log[i + 3].value = "aa"
  PROVE  FALSE
<1> DEFINE b == Rest(1)
           n == Len(log)
           a == base[1]
           z == b \o <<"aa">>
<1>1. n \in Nat /\ DOMAIN log = 1..n
  BY LenProperties DEF LogType
<1>2. /\ 1 \in DOMAIN records /\ b \in Seq(ByteValue) /\ Len(b) \in Nat
      /\ \A j \in 1..Len(b) : b[j] \in ByteValue
  <2>1. 1 \in DOMAIN records
    BY LenProperties DEF LogType
  <2> QED  BY <2>1, BodyType, ElementOfSeq
<1>l. PICK l \in Nat : l = Len(b)
  BY <1>2
<1>3. a \in Int /\ base[2] = a + 5 + l /\ MagicLen = 4 /\ base[1 + 1] = base[2]
  <2>1. MagicLen = 4
    BY DEF MagicLen
  <2>2. a \in Int /\ base[1 + 1] = a + MagicLen + 1 + l
    BY <1>2, <1>l, SizeOf DEF Laid
  <2> DEFINE y == base[1 + 1]
  <2>3. a \in Int /\ y = a + 4 + 1 + l
    BY <2>1, <2>2
  <2> HIDE DEF y, a
  <2>4. y = a + 5 + l
    BY <2>3
  <2>5. base[1 + 1] = base[2]
    OBVIOUS
  <2> QED  BY <2>1, <2>2, <2>4, <2>5 DEF y
<1>4. /\ \A j \in 1..4 : Cells(1, b)[j] = Cell(MagicNumber[j], 1)
      /\ Cells(1, b)[5] = Cell("hdr", 1)
      /\ \A j \in 1..Len(b) : Cells(1, b)[5 + j] = Cell(b[j], 1)
  <2>1. MagicLen + 1 = 5
    BY <1>3
  <2> QED  BY <1>2, <2>1, CellAt
<1>v. /\ Cells(1, b)[2].value = "55" /\ Cells(1, b)[3].value = "55"
      /\ Cells(1, b)[5].value = "hdr"
      /\ \A j \in 1..l : Cells(1, b)[5 + j].value = b[j]
  <2>1. \A v, r : Cell(v, r).value = v
    BY DEF Cell
  <2>2. Cells(1, b)[2] = Cell("55", 1) /\ Cells(1, b)[3] = Cell("55", 1)
    BY <1>4, MagicFacts
  <2> QED  BY <2>1, <2>2, <1>4, <1>l
<1>5. ASSUME NEW j \in 1..n, j <= base[2] PROVE log[j] = Cells(1, b)[j - a] /\ log[j].rec = 1
  <2>1. j \in DOMAIN log /\ a < j /\ j <= base[1 + 1]
    BY <1>1, <1>3, <1>5
  <2> QED  BY <2>1, <1>2, CellOf
<1>6. 1 \notin Whole
  BY <1>2, <1>3, WholeAre
<1>z. /\ z \in Seq(ByteValue) /\ Len(z) = l + 1 /\ z[l + 1] = "aa"
      /\ \A j \in 1..l : z[j] = b[j]
  <2>1. b \in Seq(ByteValue) /\ "aa" \in ByteValue
    BY <1>2 DEF ByteValue
  <2>2. <<"aa">> \in Seq(ByteValue) /\ Len(<<"aa">>) = 1 /\ <<"aa">>[1] = "aa"
    BY <2>1
  <2>3. /\ z \in Seq(ByteValue) /\ Len(z) = Len(b) + 1
        /\ \A j \in 1..(Len(b) + 1) : z[j] = IF j <= Len(b) THEN b[j] ELSE <<"aa">>[j - Len(b)]
    BY <2>1, <2>2, ConcatProperties
  <2>4. l + 1 \in 1..(l + 1) /\ ~(l + 1 <= l) /\ (l + 1) - l = 1
        /\ \A j \in 1..l : j \in 1..(l + 1) /\ j <= l
    OBVIOUS
  <2> HIDE DEF z, b
  <2> QED  BY <2>2, <2>3, <2>4, <1>l
<1>7. ~HasMagic(z)
  <2>1. 1 \in 1..n /\ 1 <= base[2]
    BY <1>1, <1>3
  <2>2. log[1].rec = 1
    BY <2>1, <1>5
  <2>3. log # <<>>
    BY <2>1, <1>1, EmptySeq
  <2>4. ~HasMagic(StampAndBody(records[1]) \o <<MagicNumber[1]>>)
    BY <2>2, <2>3, <1>6 DEF CleanStart
  <2>5. MagicNumber[1] = "aa"
    BY MagicFacts
  <2> QED  BY <2>4, <2>5 DEF Rest
<1> HIDE DEF z
<1> DEFINE j == i - a
<1>8. j \in Nat /\ j >= 2 /\ j <= 5 + l /\ i = a + j
  <2> DEFINE y == base[2]
  <2>1. a \in Int /\ y = a + 5 + l /\ a < 0 /\ i <= y /\ i \in Nat /\ i >= 1
    BY <1>3
  <2> HIDE DEF y, a
  <2> QED  BY <2>1, <1>l
(* From the second record on comes its magic number. *)
<1>9. ASSUME base[2] + 1 \in 1..n PROVE log[base[2] + 1].value = "aa"
  <2> DEFINE x == base[2] + 1
  <2>1. x \in DOMAIN log /\ ~(x <= base[1 + 1])
    BY <1>9, <1>1, <1>3
  <2>2. log[x].rec # 1 /\ log[x].rec \in DOMAIN records
    BY <2>1, <1>2, CellOf DEF LogKnown
  <2>3. 2 \in DOMAIN records /\ base[2] < x /\ x <= base[2 + 1] /\ x - base[2] = 1
    <3> DEFINE r == log[x].rec
    <3>1. r \in Nat /\ r >= 2 /\ r <= Len(records) /\ Len(records) \in Nat
          /\ DOMAIN records = 1..Len(records)
      BY <2>2, BodyType
    <3>2. 2 \in DOMAIN records
      BY <3>1
    <3>3. base[2 + 1] = base[2] + Size(2) /\ Size(2) \in Nat /\ Size(2) >= 1 /\ base[2] \in Int
      BY <3>2, SizeOf DEF Laid
    <3> QED  BY <3>2, <3>3
  <2>4. log[x] = Cells(2, Rest(2))[x - base[2]]
    BY <2>1, <2>3, CellOf
  <2>5. Cells(2, Rest(2))[1] = Cell("aa", 2)
    <3>1. 2 \in Nat /\ Rest(2) \in Seq(ByteValue)
      BY <2>3, BodyType
    <3>2. 1 \in 1..4 /\ MagicNumber[1] = "aa"
      BY MagicFacts
    <3> QED  BY <3>1, <3>2, CellAt
  <2>6. log[x] = Cell("aa", 2)
    BY <2>3, <2>4, <2>5
  <2> QED  BY <2>6 DEF Cell
(* What the cells behind the header say is in z. *)
<1>10. ASSUME NEW x \in 1..n, x - a \in 6..(6 + l) PROVE log[x].value = z[(x - a) - 5]
  <2>1. CASE x - a = 6 + l
    <3> DEFINE y == base[2]
    <3>y. y = a + 5 + l /\ a \in Int /\ x \in Nat /\ l \in Nat
      BY <1>1, <1>3, <1>10, <1>l
    <3>1. x = y + 1
      <4> HIDE DEF y, a
      <4> QED  BY <3>y, <2>1
    <3>2. (x - a) - 5 = l + 1
      BY <2>1, <1>l
    <3> QED  BY <3>1, <3>2, <1>9, <1>10, <1>z
  <2>2. CASE x - a # 6 + l
    <3> DEFINE e == (x - a) - 5
    <3> DEFINE y == base[2]
    <3>y. y = a + 5 + l /\ a \in Int /\ x \in Nat /\ l \in Nat
      BY <1>1, <1>3, <1>10, <1>l
    <3>1. e \in 1..l /\ 5 + e = x - a /\ x <= y
      <4> HIDE DEF y, a
      <4> QED  BY <3>y, <2>2, <1>10
    <3>2. log[x] = Cells(1, b)[5 + e]
      BY <3>1, <1>5, <1>10
    <3> HIDE DEF e
    <3>3. log[x].value = z[e]
      BY <3>1, <3>2, <1>v, <1>z
    <3> QED  BY <3>3 DEF e
  <2> QED  BY <2>1, <2>2
<1>11. i \in 1..n /\ log[i] = Cells(1, b)[j]
  <2>1. i \in 1..n
    BY <1>1
  <2> QED  BY <2>1, <1>5
<1>12. j # 2 /\ j # 3 /\ j # 5
  BY <1>v, <1>11
<1>13. j # 4
  <2>1. ASSUME j = 4 PROVE FALSE
    <3> DEFINE x == i + 1
    <3>1. x \in 1..n
      BY <1>1
    <3> DEFINE y == base[2]
    <3>y. y = a + 5 + l /\ a \in Int /\ i = a + 4 /\ l \in Nat
      BY <2>1, <1>3, <1>8, <1>l
    <3>2. x <= y /\ x - a = 5
      <4> HIDE DEF y, a
      <4> QED  BY <3>y
    <3>3. log[x] = Cells(1, b)[5]
      BY <3>1, <3>2, <1>5
    <3> QED  BY <3>3, <1>v
  <2> QED  BY <2>1
<1> DEFINE e == j - 5
<1>14. e \in 1..l /\ j = e + 5 /\ i - a = e + 5
  <2> HIDE DEF j
  <2>1. e \in 1..l /\ j = e + 5
    BY <1>8, <1>12, <1>13, <1>l
  <2> QED  BY <2>1 DEF j
<1>15. i + 1 \in 1..n /\ i + 2 \in 1..n /\ i + 3 \in 1..n
  BY <1>1
<1> HIDE DEF e, j, b, n, a
<1>16. ASSUME NEW x \in {0, 1, 2, 3}, e + x <= l + 1 PROVE log[i + x].value = z[e + x]
  <2> DEFINE q == i + x
  <2>1. q \in 1..n
    BY <1>16, <1>11, <1>15
  <2>2. q - a \in 6..(6 + l) /\ (q - a) - 5 = e + x
    BY <1>16, <1>3, <1>8, <1>14, <1>l
  <2> HIDE DEF q
  <2>3. log[q].value = z[(q - a) - 5]
    BY <2>1, <2>2, <1>10
  <2> QED  BY <2>2, <2>3 DEF q
<1>17. z[e] = "aa"
  <2>1. e + 0 <= l + 1 /\ e + 0 = e /\ i + 0 = i
    BY <1>14, <1>l
  <2>2. log[i + 0].value = z[e + 0]
    BY <2>1, <1>16
  <2> QED  BY <2>1, <2>2
<1>18. z[e + 1] = "55" /\ e + 1 <= l
  <2>1. e + 1 <= l + 1
    BY <1>14, <1>l
  <2>2. z[e + 1] = "55"
    BY <2>1, <1>16
  <2>3. e + 1 # l + 1
    BY <2>2, <1>z
  <2> QED  BY <2>1, <2>2, <2>3, <1>14, <1>l
<1>19. z[e + 2] = "55" /\ e + 2 <= l
  <2>1. e + 2 <= l + 1
    BY <1>14, <1>18, <1>l
  <2>2. z[e + 2] = "55"
    BY <2>1, <1>16
  <2>3. e + 2 # l + 1
    BY <2>2, <1>z
  <2> QED  BY <2>1, <2>2, <2>3, <1>14, <1>l
<1>20. z[e + 3] = "aa" /\ e + 3 <= l + 1
  <2>1. e + 3 <= l + 1
    BY <1>14, <1>19, <1>l
  <2>2. z[e + 3] = "aa"
    BY <2>1, <1>16
  <2> QED  BY <2>1, <2>2
<1>21. e \in 1..(Len(z) - 3)
  BY <1>14, <1>20, <1>z, <1>l
<1>22. \A k \in 1..4 : z[e + k - 1] = MagicNumber[k]
  <2>1. /\ e + 1 - 1 = e /\ e + 2 - 1 = e + 1 /\ e + 3 - 1 = e + 2 /\ e + 4 - 1 = e + 3
    BY <1>14, <1>l
  <2>2. /\ z[e + 1 - 1] = MagicNumber[1] /\ z[e + 2 - 1] = MagicNumber[2]
        /\ z[e + 3 - 1] = MagicNumber[3] /\ z[e + 4 - 1] = MagicNumber[4]
    BY <2>1, <1>17, <1>18, <1>19, <1>20, MagicFacts
  <2>3. \A k \in 1..4 : k = 1 \/ k = 2 \/ k = 3 \/ k = 4
    OBVIOUS
  <2> QED  BY <2>2, <2>3
<1> QED  BY <1>7, <1>21, <1>22 DEF HasMagic

(* The search from where the last record ended finds the next one, whatever *)
(* the bodies before it hold, or the end of the log (skip_magic).           *)
LEMMA SearchFinds ==
  ASSUME OptType, LogType, LogKnown, CleanStart, isUsbLog, NEW base, Laid(base),
         NEW k \in 1..(Len(records) + 1), base[k] >= 0, pos \in Nat, NextRead(base, k)
  PROVE  skip_magic(pos) = IF base[k] + 4 <= Len(log) THEN base[k] + 5 ELSE 0
<1> DEFINE n == Len(log)
           a == base[k]
<1>1. n \in Nat /\ DOMAIN log = 1..n /\ Len(records) \in Nat /\ DOMAIN records = 1..Len(records)
  BY LenProperties DEF LogType
<1>2. a \in Nat
  BY <1>1, BasesGrow DEF Laid
<1>3. ASSUME NEW e \in MagicEnds(pos) PROVE a + 5 <= e
  <2>1. /\ e \in Nat /\ e >= pos + 4 /\ e <= n + 1
        /\ \A i \in 1..4 : log[e - 5 + i].value = MagicNumber[i]
    BY <1>1 DEF MagicEnds
  <2>2. CASE pos = a + 1
    <3>1. e \in Nat /\ e >= pos + 4
      BY <2>1
    <3> HIDE DEF a
    <3> QED  BY <3>1, <2>2, <1>2
  <2>3. CASE k = 2 /\ pos = 1 /\ base[1] < 0
    <3> DEFINE i == e - 4
    <3>1. /\ i \in Nat /\ i >= 1 /\ i + 3 <= n /\ e = i + 4
          /\ e - 5 + 1 = i /\ e - 5 + 2 = i + 1 /\ e - 5 + 3 = i + 2 /\ e - 5 + 4 = i + 3
      BY <2>1, <2>3
    <3>2. /\ log[e - 5 + 1].value = "aa" /\ log[e - 5 + 2].value = "55"
          /\ log[e - 5 + 3].value = "55" /\ log[e - 5 + 4].value = "aa"
      BY <2>1, MagicFacts
    <3> HIDE DEF i
    <3>3. /\ log[i].value = "aa" /\ log[i + 1].value = "55"
          /\ log[i + 2].value = "55" /\ log[i + 3].value = "aa"
      BY <3>1, <3>2
    <3>4. Len(records) > 0
      BY <2>3, <1>1
    <3>5. ~(i <= base[2])
      BY <3>1, <3>3, <3>4, <2>3, NoMagicInFront
    <3> QED  BY <3>1, <3>5, <2>3, <1>2
  <2> QED  BY <2>2, <2>3 DEF NextRead
<1>4. CASE a + 4 > n
  <2>1. a + 5 \in Nat /\ a + 5 > n + 1 /\ ~(a + 4 <= n)
    BY <1>1, <1>2, <1>4
  <2> QED  BY <2>1, <1>3, SearchEnds
<1>5. CASE a + 4 <= n
  <2>1. k \in DOMAIN records
    <3>1. base[Len(records) + 1] >= n
      BY DEF Laid, Ends
    <3>2. k # Len(records) + 1
      BY <3>1, <1>1, <1>2, <1>5
    <3> QED  BY <3>2, <1>1
  <2>2. k \in Nat /\ Rest(k) \in Seq(ByteValue) /\ base[k + 1] \in Int /\ a + 5 <= base[k + 1]
    <3>1. k \in Nat /\ Rest(k) \in Seq(ByteValue) /\ Len(Rest(k)) \in Nat
      BY <2>1, BodyType
    <3>2. base[k + 1] = a + MagicLen + 1 + Len(Rest(k)) /\ MagicLen = 4
      BY <2>1, SizeOf DEF Laid, MagicLen
    <3> DEFINE l == Len(Rest(k))
               y == base[k + 1]
    <3>3. l \in Nat /\ y = a + 4 + 1 + l
      BY <3>1, <3>2
    <3> HIDE DEF l, y, a
    <3>4. y \in Int /\ a + 5 <= y
      BY <3>3, <1>2
    <3> QED  BY <3>1, <3>4 DEF y
  <2>3. \A j \in 1..4 : Cells(k, Rest(k))[j].value = MagicNumber[j]
    <3>1. \A v, r : Cell(v, r).value = v
      BY DEF Cell
    <3> QED  BY <3>1, <2>2, CellAt
  <2>4. ASSUME NEW j \in 1..4 PROVE log[a + j].value = MagicNumber[j]
    <3> DEFINE x == a + j
    <3>1. x \in DOMAIN log /\ a < x /\ x <= base[k + 1] /\ x - a = j
      <4> HIDE DEF a, n
      <4> QED  BY <2>4, <2>2, <1>1, <1>2, <1>5
    <3> HIDE DEF x
    <3>2. log[x] = Cells(k, Rest(k))[x - a]
      BY <3>1, <2>1, CellOf
    <3>3. log[x].value = MagicNumber[j]
      BY <3>1, <3>2, <2>3, <2>4
    <3> QED  BY <3>3 DEF x
  <2>5. pos <= a + 1
    BY <1>2 DEF NextRead
  <2>6. a + 5 \in MagicEnds(pos)
    <3>1. a + 5 \in (pos + 4)..(n + 1) /\ \A j \in 1..4 : (a + 5) - 5 + j = a + j
      <4>1. n \in Nat /\ a \in Nat /\ pos \in Nat /\ pos <= a + 1 /\ a + 4 <= n
        BY <2>5, <1>1, <1>2, <1>5
      <4> HIDE DEF a, n
      <4> QED  BY <4>1
    <3>2. \A j \in 1..4 : log[(a + 5) - 5 + j].value = MagicNumber[j]
      BY <3>1, <2>4
    <3> QED  BY <3>1, <3>2 DEF MagicEnds
  <2>7. a + 5 \in Nat
    BY <1>2
  <2> QED  BY <2>6, <2>7, <1>3, <1>5, SearchEnds
<1> QED  BY <1>1, <1>2, <1>4, <1>5

(* Where the header of record k is, or would be. *)
HeaderAt(base, k) == base[k] + MagicLen + 1

(* Where main goes on reading: at the header of record k, or nowhere when   *)
(* the log ends before it.                                                  *)
LEMMA ReadsHeader ==
  ASSUME OptType, LogType, LogKnown, CleanStart, NEW base, Laid(base),
         NEW k \in 1..(Len(records) + 1), base[k] >= 0, pos \in Nat, NextRead(base, k),
         NEW p, p = IF isUsbLog THEN skip_magic(pos) ELSE pos
  PROVE  /\ HeaderAt(base, k) \in Nat \ {0}
         /\ p = HeaderAt(base, k) \/ (p = 0 /\ HeaderAt(base, k) > Len(log))
<1>1. Len(log) \in Nat /\ Len(records) \in Nat
  BY LenProperties DEF LogType
<1>2. base[k] \in Nat
  BY <1>1, BasesGrow DEF Laid
<1>3. CASE isUsbLog
  <2>1. MagicLen = 4
    BY <1>3 DEF MagicLen
  <2>2. p = IF base[k] + 4 <= Len(log) THEN base[k] + 5 ELSE 0
    BY <1>3, SearchFinds
  <2> QED  BY <1>1, <1>2, <2>1, <2>2 DEF HeaderAt
<1>4. CASE ~isUsbLog
  <2>1. MagicLen = 0 /\ p = pos
    BY <1>4 DEF MagicLen
  <2>2. base[1] = 0
    BY <1>4 DEF Laid, Ends
  <2>3. pos = base[k] + 1
    BY <2>2 DEF NextRead
  <2> QED  BY <1>2, <2>1, <2>3 DEF HeaderAt
<1> QED  BY <1>3, <1>4

(* What is read there is record k, as far as the log goes. *)
LEMMA ReadsRecord ==
  ASSUME OptType, LogType, LogKnown, NEW base, Laid(base), NEW k \in 1..(Len(records) + 1),
         base[k] >= 0, NEW p, p = HeaderAt(base, k), p <= Len(log), NEW h \in Headers(p)
  PROVE  /\ k \in DOMAIN records /\ h.rec = k
         /\ h.type = records[k].type /\ h.time = records[k].time
         /\ h.size = Len(records[k].body) /\ p + StampLen + h.size = base[k + 1]
         /\ p + StampLen + h.size <= Len(log) =>
              BodyAt(p + StampLen + 1, h.size) = records[k].body
<1> DEFINE n == Len(log)
           a == base[k]
           b == records[k].body
           c == Rest(k)
<1>1. n \in Nat /\ DOMAIN log = 1..n /\ Len(records) \in Nat /\ DOMAIN records = 1..Len(records)
  BY LenProperties DEF LogType
<1>2. a \in Nat
  BY <1>1, BasesGrow DEF Laid
<1>3. MagicLen \in Nat
  BY DEF MagicLen
<1>4. k \in DOMAIN records
  <2>1. base[Len(records) + 1] >= n
    BY DEF Laid, Ends
  <2>2. k # Len(records) + 1
    BY <2>1, <1>1, <1>2, <1>3 DEF HeaderAt
  <2> QED  BY <2>2, <1>1
<1>5. /\ k \in Nat /\ k >= 1 /\ b \in Seq(ByteValue) /\ Len(b) \in Nat
      /\ c \in Seq(ByteValue) /\ StampLen \in Nat /\ Len(c) = StampLen + Len(b)
      /\ \A j \in 1..Len(b) : c[StampLen + j] = b[j]
  BY <1>4, BodyType
<1>6. base[k + 1] = p + StampLen + Len(b) /\ p = a + MagicLen + 1
  <2> DEFINE l == Len(b)
             d == Len(c)
             y == base[k + 1]
  <2>1. y = a + MagicLen + 1 + d /\ p = a + MagicLen + 1 /\ l \in Nat
        /\ d = StampLen + l /\ StampLen \in Nat
    BY <1>4, <1>5, SizeOf DEF Laid, HeaderAt
  <2> HIDE DEF l, y, a, d
  <2>2. y = p + StampLen + l
    BY <2>1, <1>2, <1>3
  <2> QED  BY <2>1, <2>2 DEF l, y
<1>7. /\ Cells(k, c)[MagicLen + 1] = Cell("hdr", k)
      /\ \A j \in 1..Len(c) : Cells(k, c)[MagicLen + 1 + j] = Cell(c[j], k)
  BY <1>5, CellAt
<1>v. \A v, r : Cell(v, r).value = v /\ Cell(v, r).rec = r
  BY DEF Cell
<1>8. ASSUME NEW i \in 1..n, a < i, i <= base[k + 1] PROVE log[i] = Cells(k, c)[i - a]
  BY <1>8, <1>1, <1>4, CellOf
<1> HIDE DEF a, b, c, n
<1>9. log[p] = Cell("hdr", k)
  <2>1. p \in 1..n /\ a < p /\ p <= base[k + 1] /\ p - a = MagicLen + 1
    BY <1>1, <1>2, <1>3, <1>5, <1>6 DEF n
  <2> QED  BY <2>1, <1>7, <1>8
<1>10. h = [type |-> records[k].type, time |-> records[k].time, size |-> Len(b), rec |-> k]
  BY <1>9, <1>v DEF Headers, b
<1>11. ASSUME p + StampLen + Len(b) <= n PROVE BodyAt(p + StampLen + 1, Len(b)) = b
  <2>1. ASSUME NEW j \in 1..Len(b) PROVE log[(p + StampLen + 1) + j - 1].value = b[j]
    <3> DEFINE x == p + StampLen + j
               i == StampLen + j
    <3>1. /\ x \in 1..n /\ a < x /\ x <= base[k + 1]
          /\ x - a = MagicLen + 1 + i /\ (p + StampLen + 1) + j - 1 = x
          /\ i \in 1..Len(c)
      BY <1>1, <1>2, <1>3, <1>5, <1>6, <1>11, <2>1
    <3>i. c[i] = b[j]
      BY <2>1, <1>5
    <3> HIDE DEF x, i
    <3>2. log[x] = Cells(k, c)[MagicLen + 1 + i]
      BY <3>1, <1>8
    <3> QED  BY <3>1, <3>2, <3>i, <1>7, <1>v
  <2>2. BodyAt(p + StampLen + 1, Len(b)) = [j \in 1..Len(b) |-> b[j]]
    BY <2>1 DEF BodyAt
  <2>3. b = [j \in 1..Len(b) |-> b[j]]
    BY <1>5, LenProperties
  <2> QED  BY <2>2, <2>3
<1>12. h.type = records[k].type /\ h.time = records[k].time /\ h.size = Len(b) /\ h.rec = k
  BY <1>10
<1> QED  BY <1>4, <1>6, <1>11, <1>12 DEF b, n

(* What the writer inserts can be taken out again (AddEth). *)
LEMMA EthComesOff ==
  ASSUME NEW b \in Seq(Values)
  PROVE  (type = "blf" => StripEth(AddEth(b)) = b) /\ (type # "blf" => StripEth(b) = b)
<1>1. EthAt \in Nat /\ MacAt \in Nat /\ MacLen \in Nat /\ MacAt + MacLen <= EthAt
  BY CvtAssumption
<1>2. Len(b) \in Nat /\ DOMAIN b = 1..Len(b) /\ \A i \in 1..Len(b) : b[i] \in Values
  BY LenProperties, ElementOfSeq
<1>3. type # "blf" => StripEth(b) = b
  BY DEF StripEth
<1>4. ASSUME type = "blf", Len(b) <= EthAt PROVE StripEth(AddEth(b)) = b
  <2>1. AddEth(b) = b /\ ~(Len(b) > EthAt + MacLen)
    BY <1>1, <1>2, <1>4 DEF AddEth
  <2> QED  BY <2>1 DEF StripEth
<1>5. ASSUME type = "blf", Len(b) > EthAt PROVE StripEth(AddEth(b)) = b
  <2> DEFINE f == SubSeq(b, 1, EthAt)
             m == SubSeq(b, MacAt + 1, MacAt + MacLen)
             t == SubSeq(b, EthAt + 1, Len(b))
             s == AddEth(b)
             v == SubSeq(s, EthAt + MacLen + 1, Len(s))
             l == Len(b)
  <2>s. \A x \in Nat \ {0} : \A y \in 0..Len(b) :
          /\ SubSeq(b, x, y) \in Seq(Values)
          /\ Len(SubSeq(b, x, y)) = IF x <= y THEN y - x + 1 ELSE 0
          /\ \A i \in 1..(y - x + 1) : SubSeq(b, x, y)[i] = b[x + i - 1]
    <3> TAKE x \in Nat \ {0}
    <3> TAKE y \in 0..Len(b)
    <3>1. x \in Int /\ y \in Int /\ \A i \in x..y : b[i] \in Values
      BY <1>2
    <3> QED  BY <3>1, SubSeqProperties
  <2>1. f \in Seq(Values) /\ Len(f) = EthAt /\ \A i \in 1..EthAt : f[i] = b[i]
    <3>1. EthAt \in 0..Len(b) /\ EthAt - 1 + 1 = EthAt /\ \A i \in 1..EthAt : 1 + i - 1 = i
      BY <1>1, <1>2, <1>5
    <3>2. Len(f) = IF 1 <= EthAt THEN EthAt ELSE 0
      BY <3>1, <2>s
    <3>3. f \in Seq(Values) /\ \A i \in 1..EthAt : f[i] = b[i]
      BY <3>1, <2>s
    <3> QED  BY <1>1, <3>2, <3>3
  <2>2. m \in Seq(Values) /\ Len(m) = MacLen
    <3>1. MacAt + 1 \in Nat \ {0} /\ MacAt + MacLen \in 0..Len(b)
          /\ MacLen = IF MacAt + 1 <= MacAt + MacLen
                      THEN (MacAt + MacLen) - (MacAt + 1) + 1 ELSE 0
      BY <1>1, <1>2, <1>5
    <3>2. m \in Seq(Values)
      BY <3>1, <2>s
    <3>3. Len(m) = IF MacAt + 1 <= MacAt + MacLen THEN (MacAt + MacLen) - (MacAt + 1) + 1 ELSE 0
      BY <3>1, <2>s
    <3> QED  BY <3>1, <3>2, <3>3
  <2>3. t \in Seq(Values) /\ Len(t) = l - EthAt /\ \A i \in 1..(l - EthAt) : t[i] = b[EthAt + i]
    <3>1. EthAt + 1 \in Nat \ {0} /\ l \in 0..Len(b) /\ EthAt + 1 <= l
          /\ l - (EthAt + 1) + 1 = l - EthAt
          /\ \A i \in 1..(l - EthAt) : (EthAt + 1) + i - 1 = EthAt + i
      BY <1>1, <1>2, <1>5
    <3>2. t \in Seq(Values) /\ Len(t) = l - (EthAt + 1) + 1
      BY <3>1, <2>s
    <3>3. \A i \in 1..(l - (EthAt + 1) + 1) : t[i] = b[(EthAt + 1) + i - 1]
      BY <3>1, <2>s
    <3> QED  BY <3>1, <3>2, <3>3
  <2>4. s = f \o m \o t
    <3>1. ~(Len(b) <= EthAt)
      BY <1>1, <1>2, <1>5
    <3> QED  BY <3>1 DEF AddEth
  <2>l. l \in Nat /\ l > EthAt /\ DOMAIN b = 1..l
    BY <1>2, <1>5
  <2> HIDE DEF f, m, t, s, l
  <2>c. \A x, y \in Seq(Values) :
          /\ x \o y \in Seq(Values) /\ Len(x \o y) = Len(x) + Len(y)
          /\ \A i \in 1..(Len(x) + Len(y)) :
               (x \o y)[i] = IF i <= Len(x) THEN x[i] ELSE y[i - Len(x)]
    BY ConcatProperties
  <2> DEFINE g == f \o m
  <2> HIDE DEF g
  <2>5. g \in Seq(Values) /\ Len(g) = EthAt + MacLen /\ \A i \in 1..EthAt : g[i] = b[i]
    <3>1. g \in Seq(Values) /\ Len(g) = EthAt + MacLen
          /\ \A i \in 1..(EthAt + MacLen) : g[i] = IF i <= EthAt THEN f[i] ELSE m[i - EthAt]
      BY <2>1, <2>2, <2>c DEF g
    <3> QED  BY <3>1, <2>1, <1>1
  <2>6. /\ s \in Seq(Values) /\ Len(s) = l + MacLen
        /\ \A i \in 1..EthAt : s[i] = b[i]
        /\ \A i \in 1..(l - EthAt) : s[EthAt + MacLen + i] = b[EthAt + i]
    <3>1. /\ s \in Seq(Values) /\ Len(s) = Len(g) + Len(t)
          /\ \A i \in 1..(Len(g) + Len(t)) : s[i] = IF i <= Len(g) THEN g[i] ELSE t[i - Len(g)]
      BY <2>3, <2>4, <2>5, <2>c DEF g
    <3>2. Len(s) = l + MacLen /\ Len(g) + Len(t) = l + MacLen
      BY <3>1, <2>3, <2>5, <2>l, <1>1
    <3>3. \A i \in 1..EthAt : s[i] = b[i]
      BY <3>1, <3>2, <2>5, <2>l, <1>1
    <3>4. ASSUME NEW i \in 1..(l - EthAt) PROVE s[EthAt + MacLen + i] = b[EthAt + i]
      <4> DEFINE q == EthAt + MacLen + i
      <4>1. q \in 1..(l + MacLen) /\ ~(q <= Len(g)) /\ q - Len(g) = i
        BY <3>4, <2>5, <2>l, <1>1
      <4> HIDE DEF q
      <4>2. s[q] = t[i]
        BY <4>1, <3>1, <3>2
      <4>3. s[q] = b[EthAt + i]
        BY <4>2, <3>4, <2>3
      <4> QED  BY <4>3 DEF q
    <3> QED  BY <3>1, <3>2, <3>3, <3>4
  <2>7. \A i \in 1..(l + MacLen) : s[i] \in Values
    BY <2>6, ElementOfSeq
  <2>8. SubSeq(s, 1, EthAt) \in Seq(Values) /\ Len(SubSeq(s, 1, EthAt)) = EthAt
        /\ \A i \in 1..EthAt : SubSeq(s, 1, EthAt)[i] = b[i]
    <3>1. /\ EthAt - 1 + 1 = EthAt /\ \A i \in 1..EthAt : 1 + i - 1 = i
          /\ 1 \in Int /\ EthAt \in Int
          /\ \A i \in 1..EthAt : i \in 1..(l + MacLen)
      BY <1>1, <2>l
    <3>2. \A i \in 1..EthAt : s[i] \in Values
      BY <3>1, <2>7
    <3>3. /\ SubSeq(s, 1, EthAt) \in Seq(Values)
          /\ Len(SubSeq(s, 1, EthAt)) = IF 1 <= EthAt THEN EthAt - 1 + 1 ELSE 0
          /\ \A i \in 1..(EthAt - 1 + 1) : SubSeq(s, 1, EthAt)[i] = s[1 + i - 1]
      BY <3>1, <3>2, SubSeqProperties
    <3> QED  BY <3>1, <3>3, <2>6, <1>1
  <2>9. v \in Seq(Values) /\ Len(v) = l - EthAt /\ \A i \in 1..(l - EthAt) : v[i] = b[EthAt + i]
    <3> DEFINE x == EthAt + MacLen + 1
               y == Len(s)
    <3>1. /\ x \in Int /\ y \in Int /\ x <= y /\ y - x + 1 = l - EthAt
          /\ \A i \in 1..(l - EthAt) : x + i - 1 = EthAt + MacLen + i
          /\ \A i \in x..y : i \in 1..(l + MacLen)
      BY <1>1, <2>l, <2>6
    <3>2. v = SubSeq(s, x, y)
      OBVIOUS
    <3> HIDE DEF x, y, v
    <3>3. \A i \in x..y : s[i] \in Values
      BY <3>1, <2>7
    <3>4. /\ v \in Seq(Values) /\ Len(v) = y - x + 1
          /\ \A i \in 1..(y - x + 1) : v[i] = s[x + i - 1]
      BY <3>1, <3>2, <3>3, SubSeqProperties
    <3> QED  BY <3>1, <3>4, <2>6
  <2>10. StripEth(s) = SubSeq(s, 1, EthAt) \o v
    <3>1. Len(s) > EthAt + MacLen
      BY <2>6, <2>l, <1>1
    <3> QED  BY <3>1, <1>5 DEF StripEth
  <2> DEFINE w == SubSeq(s, 1, EthAt)
             e == StripEth(s)
  <2> HIDE DEF w, v, e
  <2>11. /\ e \in Seq(Values) /\ Len(e) = EthAt + (l - EthAt)
         /\ \A i \in 1..(EthAt + (l - EthAt)) : e[i] = IF i <= EthAt THEN w[i] ELSE v[i - EthAt]
    <3>1. /\ w \in Seq(Values) /\ Len(w) = EthAt
          /\ v \in Seq(Values) /\ Len(v) = l - EthAt /\ e = w \o v
      BY <2>8, <2>9, <2>10 DEF w, e
    <3> QED  BY <3>1, <2>c
  <2>12. EthAt + (l - EthAt) = l
    BY <2>l, <1>1
  <2>13. ASSUME NEW i \in 1..l PROVE e[i] = b[i]
    <3>1. CASE i <= EthAt
      <4>1. i \in 1..EthAt
        BY <3>1, <2>13, <1>1
      <4> QED  BY <4>1, <3>1, <2>11, <2>12, <2>8, <2>13 DEF w
    <3>2. CASE ~(i <= EthAt)
      <4>1. i - EthAt \in 1..(l - EthAt) /\ EthAt + (i - EthAt) = i
        BY <3>2, <2>13, <2>l, <1>1
      <4>2. e[i] = v[i - EthAt]
        BY <3>2, <2>11, <2>12, <2>13
      <4>3. v[i - EthAt] = b[EthAt + (i - EthAt)]
        BY <4>1, <2>9
      <4> QED  BY <4>1, <4>2, <4>3
    <3> QED  BY <3>1, <3>2
  <2>14. e = b
    BY <2>11, <2>12, <2>13, SeqEqual DEF l
  <2> QED  BY <2>14 DEF e, s
<1> QED  BY <1>1, <1>2, <1>3, <1>4, <1>5

(* What is written for a record is its body, and one that cannot be         *)
(* converted leaves no object (WriteIts, WriteGps).                         *)
LEMMA WritesRecord ==
  ASSUME LogType, NEW k \in DOMAIN records, NEW h, h.rec = k, h.type = records[k].type,
         type # "none", Convert(h, records[k].body)
  PROVE  /\ Convertible(k) =>
              \E o : /\ objects' = Append(objects, o)
                     /\ o.rec = k /\ o.type = records[k].type /\ Frame(o) = records[k].body
         /\ ~Convertible(k) => objects' = objects
<1> DEFINE b == records[k].body
<1>1. records[k] \in Record /\ b \in Seq(ByteValue) /\ Len(b) \in Nat
  BY BodyType
<1>2. b \in Seq(Values)
  <2>1. ByteValue \subseteq Values
    BY DEF Values
  <2> QED  BY <2>1, <1>1, SeqMonotonic
<1>3. GpsSize \in Nat
  BY CvtAssumption
<1>4. records[k].type = "gps" => (Len(b) >= GpsSize <=> Len(b) = GpsSize)
  <2> DEFINE r == records[k]
  <2> HIDE DEF r
  <2>1. r \in Record
    BY <1>1 DEF r
  <2>2. ASSUME r.type = "gps" PROVE r.body = Xs(GpsSize) \/ r.body = Xs(GpsSize - 1)
    BY <2>1, <2>2 DEF Record
  <2>3. GpsSize - 1 \in Nat
    BY CvtAssumption
  <2>4. \A n \in Nat : Len(Xs(n)) = n
    BY DEF Xs
  <2>5. Len(Xs(GpsSize)) = GpsSize /\ Len(Xs(GpsSize - 1)) = GpsSize - 1
    BY <1>3, <2>3, <2>4
  <2>6. b = r.body /\ r.type = records[k].type
    BY DEF r
  <2> HIDE DEF b
  <2>7. ASSUME records[k].type = "gps" PROVE Len(b) = GpsSize \/ Len(b) = GpsSize - 1
    BY <2>2, <2>5, <2>6, <2>7
  <2> QED  BY <2>7, <1>3
<1>5. CASE h.type = "its" /\ WriteIts(h, b)
  <2>1. Convertible(k)
    BY <1>5 DEF Convertible
  <2>2. CASE type = "pcapng" /\ Written(h, <<h.time \div Second, h.time % Second>>, b)
    <3> DEFINE o == [rec |-> h.rec, type |-> h.type,
                     time |-> <<h.time \div Second, h.time % Second>>, data |-> b]
    <3>1. objects' = Append(objects, o)
      BY <2>2 DEF Written
    <3>2. StripEth(b) = b
      BY <1>2, <2>2, EthComesOff
    <3>3. o.rec = k /\ o.type = records[k].type /\ Frame(o) = b
      BY <3>2, <1>5 DEF Frame
    <3> QED  BY <2>1, <3>1, <3>3
  <2>3. CASE type = "blf" /\ Written(h, <<timeNs(h.time)>>, AddEth(b))
    <3> DEFINE o == [rec |-> h.rec, type |-> h.type,
                     time |-> <<timeNs(h.time)>>, data |-> AddEth(b)]
    <3>1. objects' = Append(objects, o)
      BY <2>3 DEF Written
    <3>2. StripEth(AddEth(b)) = b
      BY <1>2, <2>3, EthComesOff
    <3>3. o.rec = k /\ o.type = records[k].type /\ Frame(o) = b
      BY <3>2, <1>5 DEF Frame
    <3> QED  BY <2>1, <3>1, <3>3
  <2> QED  BY <1>5, <2>2, <2>3 DEF WriteIts
<1>6. CASE h.type = "gps" /\ WriteGps(h, b)
  <2>1. Convertible(k) <=> Len(b) >= GpsSize
    BY <1>4, <1>6 DEF Convertible
  <2>2. ASSUME Len(b) < GpsSize, UNCHANGED <<objects, blfVars>>
        PROVE  ~Convertible(k) /\ objects' = objects
    BY <2>1, <2>2, <1>1, <1>3
  <2>3. ASSUME Len(b) >= GpsSize, NEW tm, Written(h, tm, b)
        PROVE  Convertible(k) /\ \E o : /\ objects' = Append(objects, o)
                     /\ o.rec = k /\ o.type = records[k].type /\ Frame(o) = b
    <3> DEFINE o == [rec |-> h.rec, type |-> h.type, time |-> tm, data |-> b]
    <3>1. objects' = Append(objects, o)
      BY <2>3 DEF Written
    <3>2. o.rec = k /\ o.type = records[k].type /\ Frame(o) = b
      BY <1>6 DEF Frame
    <3> QED  BY <2>1, <2>3, <3>1, <3>2
  <2> QED  BY <1>6, <2>2, <2>3 DEF WriteGps
<1>7. CASE h.type \in {"time", "info", "version", "other"} /\ Ignored
  BY <1>7 DEF Convertible, Ignored
<1> QED  BY <1>5, <1>6, <1>7 DEF Convert

(* What is counted of the types that are always converted. *)
LEMMA CountsRecord ==
  ASSUME CountType, NEW h, h.type \in Types, NEW b, Convert(h, b)
  PROVE  /\ CountType'
         /\ \A t \in Tallied : count'[t] = IF h.type = t THEN count[t] + 1 ELSE count[t]
<1>1. Tallied \subseteq Types /\ "gps" \notin Tallied /\ "its" \in Types /\ "gps" \in Types
  BY DEF Tallied, Types
<1>2. CASE Counted(h.type)
  BY <1>1, <1>2, CountedAdds
<1>3. CASE h.type = "gps" /\ UNCHANGED count
  BY <1>1, <1>3 DEF CountType
<1> QED  BY <1>2, <1>3 DEF Convert

(* What is whole, readable and laid out depends on the log alone. *)
LEMMA SameLog ==
  ASSUME UNCHANGED <<type, isUsbLog, records, log>>
  PROVE  /\ Whole' = Whole /\ Readable' = Readable /\ (CleanStart' <=> CleanStart)
         /\ \A base : Laid(base) => Laid(base)'
         /\ \A k : ReadBefore(k)' = ReadBefore(k)
         /\ \A r : Convertible(r)' <=> Convertible(r)
<1>1. \A r, b : Cells(r, b)' = Cells(r, b) /\ Rest(r)' = Rest(r)
  BY DEF Cells, Magic, Rest, StampAndBody
<1>2. Whole' = Whole
  <2>1. \A r : {i \in DOMAIN log' : log'[i].rec = r} = {i \in DOMAIN log : log[i].rec = r}
    OBVIOUS
  <2>2. \A r : StampAndBody(records'[r]) = StampAndBody(records[r])
    OBVIOUS
  <2> QED  BY <1>1, <2>1, <2>2 DEF Whole, StampAndBody
<1>3. Readable' = Readable
  BY <1>2 DEF Readable
<1>4. CleanStart' <=> CleanStart
  BY <1>2 DEF CleanStart, HasMagic, StampAndBody
<1>5. ASSUME NEW base, Laid(base) PROVE Laid(base)'
  <2>1. MagicLen' = MagicLen /\ \A r : Size(r)' = Size(r)
    BY <1>1 DEF MagicLen, Size
  <2>2. Bases(base)'
    BY <1>5, <2>1 DEF Laid, Bases
  <2>3. Placed(base)'
    BY <1>1, <1>5 DEF Laid, Placed
  <2>4. Ends(base)'
    BY <1>5 DEF Laid, Ends
  <2> QED  BY <2>2, <2>3, <2>4 DEF Laid
<1>6. \A k : ReadBefore(k)' = ReadBefore(k)
  BY <1>3 DEF ReadBefore
<1>7. \A r : Convertible(r)' <=> Convertible(r)
  BY DEF Convertible
<1> QED  BY <1>2, <1>3, <1>4, <1>5, <1>6, <1>7

(* Where the log ends before the header or the body of record k, no record  *)
(* from k on is whole.                                                      *)
LEMMA NothingLeft ==
  ASSUME OptType, LogType, LogKnown, NEW base, Laid(base), NEW k \in 1..(Len(records) + 1),
         HeaderAt(base, k) + StampLen > Len(log) \/ (k \in DOMAIN records /\ base[k + 1] > Len(log)),
         NEW r \in Whole
  PROVE  r < k
<1>1. r \in DOMAIN records /\ base[r + 1] <= Len(log)
  BY WholeAre
<1>2. /\ r \in Nat /\ r <= Len(records) /\ Len(records) \in Nat /\ DOMAIN records = 1..Len(records)
      /\ Len(log) \in Nat
  BY <1>1, BodyType, LenProperties DEF LogType
<1> SUFFICES ASSUME k <= r PROVE FALSE
  BY <1>2
<1>3. k \in DOMAIN records /\ k + 1 \in 1..(Len(records) + 1) /\ r + 1 \in 1..(Len(records) + 1)
      /\ k + 1 <= r + 1
  BY <1>2
<1>4. base[k + 1] \in Int /\ base[r + 1] \in Int /\ base[k + 1] <= base[r + 1]
  BY <1>3, BasesGrow DEF Laid
<1>5. base[k] \in Int /\ MagicLen \in Nat
      /\ base[k + 1] = base[k] + MagicLen + 1 + Len(Rest(k))
  BY <1>3, SizeOf DEF Laid
<1>6. /\ Len(Rest(k)) \in Nat /\ StampLen \in Nat
      /\ Len(Rest(k)) = StampLen + Len(records[k].body) /\ Len(records[k].body) \in Nat
  BY <1>3, BodyType
<1>7. HeaderAt(base, k) + StampLen <= base[k + 1]
  <2> DEFINE l == Len(Rest(k))
             b == Len(records[k].body)
  <2> HIDE DEF l, b
  <2>1. /\ base[k + 1] = base[k] + MagicLen + 1 + l /\ l \in Nat
        /\ l = StampLen + b /\ StampLen \in Nat /\ b \in Nat
    BY <1>5, <1>6 DEF l, b
  <2> QED  BY <2>1, <1>5 DEF HeaderAt
<1>8. HeaderAt(base, k) \in Int /\ HeaderAt(base, k) + StampLen \in Int
  BY <1>5, <1>6 DEF HeaderAt
<1> QED  BY <1>1, <1>2, <1>4, <1>7, <1>8

(* Record k joins those before it. *)
LEMMA ReadNext ==
  ASSUME NEW k \in Whole, k \in Nat, Whole \subseteq Nat,
         \A u \in Whole : u < k => records[u].type # "other"
  PROVE  /\ ReadBefore(k + 1) = ReadBefore(k) \cup {k} /\ k \notin ReadBefore(k)
         /\ \A r \in ReadBefore(k) : r < k
<1>1. k \in Readable
  BY DEF Readable
<1>2. Readable \subseteq Nat
  BY DEF Readable
<1>3. \A r \in Nat : r < k + 1 <=> r < k \/ r = k
  OBVIOUS
<1>4. ~(k < k)
  OBVIOUS
<1>5. ReadBefore(k + 1) = ReadBefore(k) \cup {k}
  <2>1. \A r : r \in ReadBefore(k + 1) <=> r \in Readable /\ r < k + 1
    BY DEF ReadBefore
  <2>2. \A r : r \in ReadBefore(k) <=> r \in Readable /\ r < k
    BY DEF ReadBefore
  <2>3. \A r \in Readable : r < k + 1 <=> r < k \/ r = k
    BY <1>2, <1>3
  <2> QED  BY <1>1, <2>1, <2>2, <2>3
<1>6. k \notin ReadBefore(k) /\ \A r \in ReadBefore(k) : r < k
  BY <1>4 DEF ReadBefore
<1> QED  BY <1>5, <1>6

(* The object of record k is the next of the file. *)
LEMMA ConvertedNext ==
  ASSUME LogType, ObjType, UNCHANGED <<type, isUsbLog, records, log>>,
         NEW k \in Whole, k \in DOMAIN records, Whole \subseteq Nat,
         \A u \in Whole : u < k => records[u].type # "other",
         NEW h, h.rec = k, h.type = records[k].type, type # "none",
         Convert(h, records[k].body), Converted(k)
  PROVE  Converted(k + 1)'
<1>1. k \in Nat
  OBVIOUS
<1>2. /\ ReadBefore(k + 1) = ReadBefore(k) \cup {k} /\ k \notin ReadBefore(k)
      /\ \A r \in ReadBefore(k) : r < k
  BY <1>1, ReadNext
<1>3. ReadBefore(k + 1)' = ReadBefore(k) \cup {k} /\ \A r : Convertible(r)' <=> Convertible(r)
  BY <1>2, SameLog
<1>4. Ordered /\ Faithful /\ Recs = {r \in ReadBefore(k) : Convertible(r)}
  BY DEF Converted
<1>5. Len(objects) \in Nat /\ DOMAIN objects = 1..Len(objects)
  BY LenProperties DEF ObjType
<1>6. CASE ~Convertible(k)
  <2>1. objects' = objects
    BY <1>6, WritesRecord
  <2>2. Ordered' /\ Recs' = Recs
    BY <2>1, <1>4 DEF Ordered, Recs
  <2>3. Faithful'
    BY <2>1, <1>4 DEF Faithful, Frame, StripEth
  <2>4. Recs' = {r \in ReadBefore(k + 1) : Convertible(r)}'
    BY <2>2, <1>3, <1>4, <1>6
  <2> QED  BY <2>2, <2>3, <2>4 DEF Converted
<1>7. CASE Convertible(k)
  <2>1. PICK o : /\ objects' = Append(objects, o)
                 /\ o.rec = k /\ o.type = records[k].type /\ Frame(o) = records[k].body
    BY <1>7, WritesRecord
  <2> DEFINE n == Len(objects)
  <2>2. /\ DOMAIN objects' = 1..(n + 1) /\ objects'[n + 1] = o
        /\ \A i \in 1..n : objects'[i] = objects[i]
    <3>1. /\ Len(objects') = n + 1 /\ objects'[n + 1] = o
          /\ \A i \in 1..n : objects'[i] = objects[i]
      BY <2>1, <1>5 DEF ObjType
    <3>2. DOMAIN objects' = 1..Len(objects')
      BY <2>1, <1>5 DEF ObjType
    <3> QED  BY <3>1, <3>2
  <2>n. n \in Nat /\ DOMAIN objects = 1..n
    BY <1>5
  <2> HIDE DEF n
  <2>3. \A i \in 1..n : objects[i].rec < k
    <3>1. \A i \in 1..n : objects[i].rec \in Recs
      BY <2>n DEF Recs
    <3> QED  BY <3>1, <1>2, <1>4
  <2>4. Ordered'
    <3>1. ASSUME NEW i \in 1..(n + 1), NEW j \in 1..(n + 1), i < j
          PROVE  objects'[i].rec < objects'[j].rec
      <4>1. i \in 1..n
        BY <3>1, <2>n
      <4>2. CASE j = n + 1
        BY <4>1, <4>2, <2>1, <2>2, <2>3
      <4>3. CASE j # n + 1
        <5>1. j \in 1..n
          BY <4>3, <2>n
        <5> QED  BY <4>1, <5>1, <3>1, <2>2, <2>n, <1>4 DEF Ordered
      <4> QED  BY <4>2, <4>3
    <3> QED  BY <3>1, <2>2 DEF Ordered
  <2>5. Faithful'
    <3>1. ASSUME NEW i \in 1..(n + 1)
          PROVE  /\ objects'[i].type = records'[objects'[i].rec].type
                 /\ Frame(objects'[i]) = records'[objects'[i].rec].body
      <4>1. CASE i = n + 1
        BY <4>1, <2>1, <2>2
      <4>2. CASE i # n + 1
        <5>1. i \in 1..n
          BY <4>2, <2>n
        <5> QED  BY <5>1, <2>2, <2>n, <1>4 DEF Faithful
      <4> QED  BY <4>1, <4>2
    <3>2. \A x : Frame(x)' = Frame(x)
      BY DEF Frame, StripEth
    <3>3. \A i \in DOMAIN objects' : Frame(objects[i])' = Frame(objects'[i])
      BY DEF Frame, StripEth
    <3> QED  BY <3>1, <3>3, <2>2 DEF Faithful
  <2>6. Recs' = Recs \cup {k}
    <3>1. Recs' = {objects'[i].rec : i \in 1..(n + 1)}
      BY <2>2 DEF Recs
    <3>2. \A x : x \in Recs' <=> \E i \in 1..(n + 1) : objects'[i].rec = x
      BY <3>1
    <3>3. \A x : x \in Recs <=> \E i \in 1..n : objects[i].rec = x
      BY <2>n DEF Recs
    <3>4. \A i \in 1..(n + 1) : i \in 1..n \/ i = n + 1
      BY <2>n
    <3>5. 1..n \subseteq 1..(n + 1) /\ n + 1 \in 1..(n + 1)
      BY <2>n
    <3>6. \A x : (\E i \in 1..(n + 1) : objects'[i].rec = x)
                  <=> (\E i \in 1..n : objects[i].rec = x) \/ x = k
      BY <3>4, <3>5, <2>1, <2>2
    <3>7. \A x : x \in Recs' <=> x \in Recs \/ x = k
      BY <3>2, <3>3, <3>6
    <3> QED  BY <3>7
  <2>7. Recs' = {r \in ReadBefore(k + 1) : Convertible(r)}'
    BY <2>6, <1>3, <1>4, <1>7
  <2> QED  BY <2>4, <2>5, <2>7 DEF Converted
<1> QED  BY <1>6, <1>7

(* Record k is counted. *)
LEMMA CountedNext ==
  ASSUME LogType, CountType, UNCHANGED <<type, isUsbLog, records, log>>,
         NEW k \in Whole, k \in DOMAIN records, Whole \subseteq DOMAIN records,
         \A u \in Whole : u < k => records[u].type # "other",
         NEW h, h.type = records[k].type, h.type \in Types, Convert(h, records[k].body),
         CountedTo(k)
  PROVE  CountedTo(k + 1)'
<1>1. Len(records) \in Nat /\ DOMAIN records = 1..Len(records)
  BY LenProperties DEF LogType
<1>2. k \in Nat /\ Whole \subseteq Nat
  BY <1>1
<1>3. ReadBefore(k + 1)' = ReadBefore(k) \cup {k} /\ k \notin ReadBefore(k)
  BY <1>2, ReadNext, SameLog
<1>4. ASSUME NEW t \in Tallied
      PROVE  count'[t] = Cardinality({r \in ReadBefore(k + 1)' : records'[r].type = t})
  <2> DEFINE S == {r \in ReadBefore(k) : records[r].type = t}
             T == {r \in ReadBefore(k + 1)' : records'[r].type = t}
  <2>1. /\ count[t] = Cardinality(S)
        /\ count'[t] = IF records[k].type = t THEN count[t] + 1 ELSE count[t]
    BY <1>4, CountsRecord DEF CountedTo
  <2>2. IsFiniteSet(S)
    <3>0. 1 \in Int /\ Len(records) \in Int
      BY <1>1
    <3>1. IsFiniteSet(1..Len(records))
      BY <3>0, FS_Interval
    <3>2. S \in SUBSET (1..Len(records))
      BY <1>1 DEF ReadBefore, Readable
    <3> QED  BY <3>1, <3>2, FS_Subset
  <2>3. k \notin S
    BY <1>3
  <2>4. CASE records[k].type = t
    <3>1. T = S \cup {k}
      BY <2>4, <1>3
    <3> HIDE DEF S, T
    <3>2. Cardinality(T) = Cardinality(S) + 1
      BY <3>1, <2>2, <2>3, FS_AddElement
    <3> QED  BY <3>2, <2>1, <2>4 DEF T
  <2>5. CASE records[k].type # t
    <3>1. T = S
      BY <2>5, <1>3
    <3> QED  BY <3>1, <2>1, <2>5
  <2> QED  BY <2>4, <2>5
<1> QED  BY <1>4 DEF CountedTo

-----------------------------------------------------------------------------
(* The steps of the program again, for what is converted. *)

(* One record is converted, or the rest of the log has none (log_cvt). *)
LEMMA IterateConv == Parts /\ ConvInv /\ Iterate => ConvInv'
<1> SUFFICES ASSUME Parts, ConvInv, Iterate PROVE ConvInv'
  OBVIOUS
<1> DEFINE p == IF isUsbLog THEN skip_magic(pos) ELSE pos
<1>1. pc = "loop" /\ UNCHANGED <<optVars, argc, records, log>> /\ log_cvt(p)
  BY DEF Iterate
<1>2. OptType /\ LogType /\ LogKnown /\ PosType /\ CountType /\ ObjType
  BY DEF Parts
<1>3. UNCHANGED <<type, isUsbLog, records, log>>
  BY <1>1 DEF optVars
<1>4. Len(log) \in Nat /\ Len(records) \in Nat /\ DOMAIN records = 1..Len(records) /\ pos \in Nat
  BY <1>2, LenProperties DEF LogType, PosType
<1>5. pc' \in {"loop", "close"}
  BY <1>1 DEF log_cvt
<1> SUFFICES ASSUME CleanStart' PROVE \E base : Laid(base)' /\ \E k : ReadTo(base, k)'
  BY <1>5 DEF ConvInv
<1>6. CleanStart
  BY <1>3, SameLog
<1>7. PICK base, k : Laid(base) /\ ReadTo(base, k)
  BY <1>1, <1>6 DEF ConvInv
<1>8. Laid(base)'
  BY <1>3, <1>7, SameLog
<1>9. /\ k \in 1..(Len(records) + 1) /\ base[k] >= 0 /\ NextRead(base, k)
      /\ \A u \in Whole : u < k => records[u].type # "other"
      /\ type # "none" => Converted(k)
      /\ CountedTo(k)
  BY <1>1, <1>7 DEF ReadTo
<1>10. /\ HeaderAt(base, k) \in Nat \ {0}
       /\ p = HeaderAt(base, k) \/ (p = 0 /\ HeaderAt(base, k) > Len(log))
  BY <1>2, <1>4, <1>6, <1>7, <1>9, ReadsHeader
<1>11. Whole \subseteq DOMAIN records /\ \A r \in DOMAIN records :
         r \in Whole <=> base[r] >= 0 /\ base[r + 1] <= Len(log)
  BY <1>2, <1>7, WholeAre
<1>12. Whole' = Whole /\ Readable' = Readable /\ \A r : Convertible(r)' <=> Convertible(r)
  BY <1>3, SameLog
<1>l. StampLen \in Nat
  BY CvtAssumption
<1> HIDE DEF p
<1>13. ASSUME eof' = TRUE, pc' = "close", UNCHANGED <<pos, count>>, Ignored,
              HeaderAt(base, k) + StampLen > Len(log) \/ (k \in DOMAIN records /\ base[k + 1] > Len(log))
       PROVE  ReadTo(base, k)'
  <2>1. \A r \in Whole : r < k
    BY <1>2, <1>7, <1>9, <1>13, NothingLeft
  <2>2. \A r \in Readable' : r < k
    BY <2>1, <1>12 DEF Readable
  <2>3. ReadBefore(k)' = ReadBefore(k) /\ objects' = objects
    BY <1>3, <1>13, SameLog DEF Ignored
  <2>4. CountedTo(k)'
    BY <2>3, <1>3, <1>9, <1>13 DEF CountedTo
  <2>5. type # "none" => Converted(k)'
    <3>1. Ordered' <=> Ordered
      BY <2>3 DEF Ordered
    <3>2. Faithful' <=> Faithful
      BY <2>3, <1>3 DEF Faithful, Frame, StripEth
    <3>3. Recs' = Recs
      BY <2>3 DEF Recs
    <3> QED  BY <3>1, <3>2, <3>3, <2>3, <1>9, <1>12 DEF Converted
  <2> QED  BY <2>2, <2>4, <2>5, <1>3, <1>9, <1>13 DEF ReadTo
<1>14. ASSUME p # 0, p <= Len(log), NEW h \in Headers(p), p + StampLen + h.size <= Len(log),
              Convert(h, BodyAt(p + StampLen + 1, h.size)), pos' = p + StampLen + 1 + h.size,
              pc' = IF h.type = "other" THEN "close" ELSE "loop"
       PROVE  ReadTo(base, k + 1)'
  <2>1. p = HeaderAt(base, k)
    BY <1>10, <1>14
  <2>2. /\ k \in DOMAIN records /\ h.rec = k
        /\ h.type = records[k].type /\ h.size = Len(records[k].body)
        /\ p + StampLen + h.size = base[k + 1]
        /\ BodyAt(p + StampLen + 1, h.size) = records[k].body
    BY <2>1, <1>2, <1>7, <1>9, <1>14, ReadsRecord
  <2>3. k \in Whole
    BY <2>2, <1>9, <1>11, <1>14
  <2>4. k \in Nat /\ k >= 1 /\ Whole \subseteq Nat
    BY <2>2, <1>4, <1>11
  <2>5. Convert(h, records[k].body)
    BY <2>2, <1>14
  <2>6. type # "none" => Converted(k + 1)'
    BY <1>2, <1>3, <1>9, <2>2, <2>3, <2>4, <2>5, ConvertedNext
  <2>7. h.type \in Types
    BY <2>2, <1>2, BodyType, RecordFacts
  <2>8. CountedTo(k + 1)'
    BY <1>2, <1>3, <1>9, <1>11, <2>2, <2>3, <2>5, <2>7, CountedNext
  <2>9. base[k + 1] >= 0 /\ base[k + 1] \in Int /\ k + 1 \in 1..(Len(records) + 1)
    <3>1. k + 1 \in 1..(Len(records) + 1) /\ k <= k + 1
      BY <2>2, <1>4
    <3>2. base[k] \in Int /\ base[k + 1] \in Int /\ base[k] <= base[k + 1]
      BY <3>1, <1>2, <1>7, <1>9, BasesGrow DEF Laid
    <3> QED  BY <3>1, <3>2, <1>9
  <2>10. pos' = base[k + 1] + 1
    <3> DEFINE z == h.size
    <3>1. z \in Nat /\ p \in Nat
      BY <2>1, <2>2, <1>2, <1>10, BodyType
    <3>2. p + StampLen + z = base[k + 1] /\ pos' = p + StampLen + 1 + z
      BY <2>2, <1>14
    <3> HIDE DEF z
    <3> QED  BY <3>1, <3>2, <2>9, <1>l
  <2>11. \A u \in Whole : u < k + 1 => u < k \/ u = k
    BY <2>4
  <2>12. pc' = "loop" =>
           /\ NextRead(base, k + 1)'
           /\ \A u \in Whole' : u < k + 1 => records'[u].type # "other"
    BY <2>2, <2>10, <2>11, <1>3, <1>9, <1>12, <1>14 DEF NextRead
  <2>13. pc' = "close" => \A r \in Readable' : r < k + 1
    <3>1. ASSUME pc' = "close", NEW r \in Readable PROVE r < k + 1
      <4>1. records[k].type = "other"
        BY <3>1, <2>2, <1>14
      <4>2. ~(k < r) /\ r \in Nat
        BY <4>1, <3>1, <2>3, <2>4 DEF Readable
      <4> QED  BY <4>2, <2>4
    <3> QED  BY <3>1, <1>12
  <2> QED  BY <2>6, <2>8, <2>9, <2>12, <2>13, <1>3 DEF ReadTo
<1>15. \E j : ReadTo(base, j)'
  <2>1. CASE p = 0 \/ p + StampLen > Len(log)
    <3>1. HeaderAt(base, k) + StampLen > Len(log)
      BY <2>1, <1>4, <1>10, <1>l
    <3>2. eof' = TRUE /\ pc' = "close" /\ UNCHANGED <<pos, count>> /\ Ignored
      BY <2>1, <1>1 DEF log_cvt
    <3> QED  BY <3>1, <3>2, <1>13
  <2>2. CASE ~(p = 0 \/ p + StampLen > Len(log))
    <3>1. p # 0 /\ p <= Len(log) /\ p = HeaderAt(base, k)
      BY <2>2, <1>4, <1>10, <1>l
    <3>2. PICK h \in Headers(p) :
            IF p + StampLen + h.size > Len(log)
            THEN eof' = TRUE /\ pc' = "close" /\ UNCHANGED <<pos, count>> /\ Ignored
            ELSE /\ Convert(h, BodyAt(p + StampLen + 1, h.size))
                 /\ pos' = p + StampLen + 1 + h.size /\ UNCHANGED eof
                 /\ pc' = IF h.type = "other" THEN "close" ELSE "loop"
      BY <2>2, <1>1 DEF log_cvt
    <3>3. k \in DOMAIN records /\ p + StampLen + h.size = base[k + 1] /\ h.size = Len(records[k].body)
      BY <3>1, <1>2, <1>7, <1>9, ReadsRecord
    <3>4. CASE p + StampLen + h.size > Len(log)
      <4>1. eof' = TRUE /\ pc' = "close" /\ UNCHANGED <<pos, count>> /\ Ignored
        BY <3>2, <3>4
      <4>2. base[k + 1] > Len(log)
        BY <3>3, <3>4
      <4> QED  BY <4>1, <4>2, <3>3, <1>13
    <3>5. CASE ~(p + StampLen + h.size > Len(log))
      <4>1. h.size \in Nat /\ p \in Nat
        BY <3>1, <3>3, <1>2, <1>10, BodyType
      <4>2. p + StampLen + h.size <= Len(log)
        BY <4>1, <3>5, <1>4, <1>l
      <4>3. /\ Convert(h, BodyAt(p + StampLen + 1, h.size)) /\ pos' = p + StampLen + 1 + h.size
            /\ pc' = IF h.type = "other" THEN "close" ELSE "loop"
        BY <3>2, <3>5
      <4> QED  BY <3>1, <4>2, <4>3, <1>14
    <3> QED  BY <3>4, <3>5
  <2> QED  BY <2>1, <2>2
<1> QED  BY <1>8, <1>15

(* Without a log the layout is trivial. *)
LEMMA EmptyLaid ==
  records = <<>> /\ log = <<>> =>
    \E base : Laid(base) /\ base[1] = 0 /\ Len(log) = base[Len(records) + 1]
<1> SUFFICES ASSUME records = <<>>, log = <<>>
             PROVE  \E base : Laid(base) /\ base[1] = 0 /\ Len(log) = base[Len(records) + 1]
  OBVIOUS
<1> DEFINE base == [j \in {1} |-> 0]
<1>1. Len(records) = 0 /\ Len(log) = 0 /\ DOMAIN records = {} /\ DOMAIN log = {}
  BY EmptySeq
<1>2. 1..(Len(records) + 1) = {1} /\ Len(records) + 1 = 1
  BY <1>1
<1>3. base[1] = 0
  OBVIOUS
<1>4. base \in [{1} -> Int]
  OBVIOUS
<1> HIDE DEF base
<1>5. Bases(base)
  BY <1>1, <1>2, <1>4 DEF Bases
<1>6. Placed(base)
  BY <1>1 DEF Placed
<1>7. Ends(base)
  BY <1>1, <1>2, <1>3 DEF Ends
<1> QED  BY <1>1, <1>2, <1>3, <1>5, <1>6, <1>7 DEF Laid

(* A record captured comes behind those before it. *)
LEMMA CaptureConv == Parts /\ ConvInv /\ Capture => ConvInv'
<1> SUFFICES ASSUME Parts, ConvInv, Capture PROVE ConvInv'
  OBVIOUS
<1>1. PICK r \in Record :
        records' = Append(records, r) /\ log' = log \o Cells(Len(records'), StampAndBody(r))
  BY DEF Capture
<1>2. OptType /\ LogType /\ LogKnown
  BY DEF Parts
<1>3. pc = "open" /\ pc' = "open" /\ isUsbLog' = isUsbLog
  BY DEF Capture, optVars
<1>4. PICK base : Laid(base) /\ base[1] = 0 /\ Len(log) = base[Len(records) + 1]
  BY <1>3 DEF ConvInv
<1>n. PICK n, L, b, z, c : /\ n = Len(records) /\ L = Len(log) /\ b = StampAndBody(r)
                           /\ z = MagicLen + 1 + Len(b) /\ c = Cells(n + 1, b)
  OBVIOUS
<1>b. PICK nb : nb = [j \in 1..(n + 2) |-> IF j = n + 2 THEN L + z ELSE base[j]]
  OBVIOUS
<1>5. n \in Nat /\ DOMAIN records = 1..n /\ L \in Nat /\ DOMAIN log = 1..L
  BY <1>n, <1>2, LenProperties DEF LogType
<1>6. b \in Seq(ByteValue) /\ Len(b) \in Nat /\ MagicLen \in Nat /\ z \in Nat /\ z >= 1
  <2>1. b \in Seq(ByteValue) /\ Len(b) \in Nat
    BY <1>n, StampFacts
  <2>2. MagicLen \in Nat
    BY DEF MagicLen
  <2> DEFINE l == Len(b)
  <2>3. l \in Nat /\ z = MagicLen + 1 + l
    BY <2>1, <1>n
  <2> HIDE DEF l
  <2> QED  BY <2>1, <2>2, <2>3
<1>7. c \in Seq(CellType) /\ Len(c) = z /\ \A i \in DOMAIN c : c[i].rec = n + 1
  <2>1. n + 1 \in Nat
    BY <1>5
  <2>2. Len(Cells(n + 1, b)) = MagicLen + 1 + Len(b)
    BY <2>1, <1>2, <1>6, CellAt
  <2>3. /\ Cells(n + 1, b) \in Seq(CellType)
        /\ \A i \in DOMAIN Cells(n + 1, b) : Cells(n + 1, b)[i].rec = n + 1
    BY <2>1, <1>2, <1>6, CellsFacts
  <2> QED  BY <2>2, <2>3, <1>n
<1>8. /\ Len(records') = n + 1 /\ DOMAIN records' = 1..(n + 1) /\ records'[n + 1] = r
      /\ \A j \in 1..n : records'[j] = records[j]
  <2>1. records' \in Seq(Record) /\ Len(records') = n + 1 /\ records'[n + 1] = r
        /\ \A j \in 1..n : records'[j] = records[j]
    BY <1>n, <1>1, <1>2, AppendProperties DEF LogType
  <2> QED  BY <2>1, LenProperties
<1>9. log' = log \o c
  BY <1>1, <1>8, <1>n
<1>10. /\ log' \in Seq(CellType) /\ Len(log') = L + z
       /\ \A i \in 1..(L + z) : log'[i] = IF i <= L THEN log[i] ELSE c[i - L]
  <2>1. \A s, t \in Seq(CellType) :
          /\ s \o t \in Seq(CellType) /\ Len(s \o t) = Len(s) + Len(t)
          /\ \A i \in 1..(Len(s) + Len(t)) :
               (s \o t)[i] = IF i <= Len(s) THEN s[i] ELSE t[i - Len(s)]
    BY ConcatProperties
  <2>2. log \in Seq(CellType) /\ c \in Seq(CellType) /\ Len(log) = L /\ Len(c) = z
    BY <1>2, <1>7, <1>n DEF LogType
  <2> QED  BY <2>1, <2>2, <1>9
<1>11. DOMAIN log' = 1..(L + z) /\ DOMAIN c = 1..z
  BY <1>7, <1>10, LenProperties
<1>12. MagicLen' = MagicLen /\ \A j, d : Cells(j, d)' = Cells(j, d)
  BY <1>3 DEF MagicLen, Cells, Magic
<1>r. (\A j \in 1..n : Rest(j)' = Rest(j)) /\ Rest(n + 1)' = b
  BY <1>8, <1>n DEF Rest, StampAndBody
<1>13. \A j \in 1..n : Size(j)' = Size(j)
  BY <1>r, <1>12 DEF Size
<1>14. Size(n + 1)' = z
  <2>1. Size(n + 1)' = MagicLen + 1 + Len(Rest(n + 1)')
    BY <1>12 DEF Size
  <2> QED  BY <2>1, <1>r, <1>n
<1>15. /\ base \in [1..(n + 1) -> Int]
       /\ \A j \in 1..n : base[j + 1] = base[j] + Size(j)
       /\ \A j, k \in 1..(n + 1) : j < k => base[j] < base[k]
       /\ L = base[n + 1] /\ base[1] = 0
       /\ n > 0 => base[2] > 0
  BY <1>n, <1>4, <1>5 DEF Laid, Bases, Ends
<1>16. /\ nb \in [1..(n + 2) -> Int] /\ nb[n + 2] = L + z
       /\ \A j \in 1..(n + 1) : nb[j] = base[j]
  <2>1. \A j \in 1..(n + 2) : j # n + 2 => j \in 1..(n + 1)
    BY <1>5
  <2>2. L + z \in Int /\ n + 2 \in 1..(n + 2) /\ \A j \in 1..(n + 1) : j # n + 2 /\ j \in 1..(n + 2)
    BY <1>5, <1>6
  <2> QED  BY <2>1, <2>2, <1>15, <1>b
<1>17. \A j \in 1..n : j \in 1..(n + 1) /\ j + 1 \in 1..(n + 1)
  BY <1>5
<1>18. Bases(nb)'
  <2>1. \A j \in 1..(n + 1) : nb[j + 1] = nb[j] + Size(j)'
    <3>1. ASSUME NEW j \in 1..(n + 1) PROVE nb[j + 1] = nb[j] + Size(j)'
      <4>1. CASE j = n + 1
        <5>1. (n + 1) + 1 = n + 2 /\ n + 1 \in 1..(n + 1)
          BY <1>5
        <5> QED  BY <4>1, <5>1, <1>14, <1>15, <1>16
      <4>2. CASE j # n + 1
        <5>1. j \in 1..n
          BY <4>2, <1>5
        <5> QED  BY <5>1, <1>13, <1>15, <1>16, <1>17
      <4> QED  BY <4>1, <4>2
    <3> QED  BY <3>1
  <2>2. \A j, k \in 1..(n + 2) : j < k => nb[j] < nb[k]
    <3>1. ASSUME NEW j \in 1..(n + 2), NEW k \in 1..(n + 2), j < k PROVE nb[j] < nb[k]
      <4>1. j \in 1..(n + 1)
        BY <3>1, <1>5
      <4>2. CASE k = n + 2
        <5>1. j = n + 1 \/ j < n + 1
          BY <4>1, <1>5
        <5>2. n + 1 \in 1..(n + 1) /\ base[j] \in Int
          BY <4>1, <1>5, <1>15
        <5>3. base[j] <= L
          BY <4>1, <5>1, <5>2, <1>15, <1>5
        <5> QED  BY <4>1, <4>2, <5>2, <5>3, <1>5, <1>6, <1>16
      <4>3. CASE k # n + 2
        <5>1. k \in 1..(n + 1)
          BY <4>3, <1>5
        <5> QED  BY <4>1, <5>1, <3>1, <1>15, <1>16
      <4> QED  BY <4>2, <4>3
    <3> QED  BY <3>1
  <2>3. Len(records') + 1 = n + 2
    BY <1>5, <1>8
  <2> QED  BY <2>1, <2>2, <2>3, <1>8, <1>16 DEF Bases
<1>19. Placed(nb)'
  <2>1. ASSUME NEW i \in 1..(L + z)
        PROVE  LET u == log'[i].rec IN
                 /\ nb[u] < i /\ i <= nb[u + 1]
                 /\ log'[i] = Cells(u, StampAndBody(records'[u]))[i - nb[u]]
    <3>1. CASE i <= L
      <4> DEFINE u == log[i].rec
      <4>1. i \in DOMAIN log /\ log'[i] = log[i]
        BY <3>1, <2>1, <1>5, <1>10
      <4>2. u \in 1..n
        BY <4>1, <1>2, <1>5 DEF LogKnown
      <4>3. base[u] < i /\ i <= base[u + 1] /\ log[i] = Cells(u, Rest(u))[i - base[u]]
        BY <4>1, <1>4 DEF Laid, Placed
      <4> HIDE DEF u
      <4>4. nb[u] = base[u] /\ nb[u + 1] = base[u + 1] /\ records'[u] = records[u]
        BY <4>2, <1>8, <1>16, <1>17
      <4>5. Rest(u) = StampAndBody(records'[u])
        BY <4>4 DEF Rest
      <4> QED  BY <4>1, <4>3, <4>4, <4>5 DEF u
    <3>2. CASE ~(i <= L)
      <4>1. i - L \in DOMAIN c /\ log'[i] = c[i - L]
        BY <3>2, <2>1, <1>5, <1>6, <1>10, <1>11
      <4>2. log'[i].rec = n + 1
        BY <4>1, <1>7
      <4>3. nb[n + 1] = L /\ nb[(n + 1) + 1] = L + z /\ StampAndBody(records'[n + 1]) = b
        <5>1. n + 1 \in 1..(n + 1) /\ (n + 1) + 1 = n + 2
          BY <1>5
        <5> QED  BY <5>1, <1>8, <1>n, <1>15, <1>16
      <4>4. L < i /\ i <= L + z
        BY <3>2, <2>1, <1>5, <1>6
      <4>5. c = Cells(n + 1, b)
        BY <1>n
      <4> QED  BY <4>1, <4>2, <4>3, <4>4, <4>5
    <3> QED  BY <3>1, <3>2
  <2> QED  BY <2>1, <1>11, <1>12 DEF Placed, Rest
<1>20. Ends(nb)'
  <2>1. nb[1] = 0
    <3>1. 1 \in 1..(n + 1)
      BY <1>5
    <3> QED  BY <3>1, <1>15, <1>16
  <2>2. nb[2] > 0
    <3>1. CASE n = 0
      <4>1. n + 2 = 2
        BY <3>1
      <4> QED  BY <4>1, <1>5, <1>6, <1>16
    <3>2. CASE n # 0
      <4>1. n > 0 /\ 2 \in 1..(n + 1)
        BY <3>2, <1>5
      <4> QED  BY <4>1, <1>15, <1>16
    <3> QED  BY <3>1, <3>2
  <2>3. nb[Len(records') + 1] = L + z
    <3>1. Len(records') + 1 = n + 2
      BY <1>5, <1>8
    <3> QED  BY <3>1, <1>16
  <2>4. L + z \in Nat
    BY <1>5, <1>6
  <2> QED  BY <2>1, <2>2, <2>3, <2>4, <1>10 DEF Ends
<1>21. nb[1] = 0 /\ Len(log') = nb[Len(records') + 1]
  <2>1. 1 \in 1..(n + 1) /\ (n + 1) + 1 = n + 2
    BY <1>5
  <2> QED  BY <2>1, <1>8, <1>10, <1>15, <1>16
<1> QED  BY <1>3, <1>18, <1>19, <1>20, <1>21 DEF ConvInv, Laid

(* Nothing comes before the first record of a log, and where that is cut in *)
(* front nothing before the second.                                         *)
NoneRead ==
  \A base : Laid(base) =>
    /\ ReadBefore(1) = {}
    /\ base[1] < 0 => ReadBefore(2) = {} /\ \A u \in Whole : ~(u < 2)
    /\ \A u \in Whole : ~(u < 1)
(* A log that is laid out begins with its first or second record. *)
LEMMA NothingRead == OptType /\ LogType /\ LogKnown => NoneRead
<1> SUFFICES ASSUME OptType, LogType, LogKnown, NEW base, Laid(base)
             PROVE  /\ ReadBefore(1) = {}
                    /\ base[1] < 0 => ReadBefore(2) = {} /\ \A u \in Whole : ~(u < 2)
                    /\ \A u \in Whole : ~(u < 1)
  BY DEF NoneRead
<1>1. Whole \subseteq DOMAIN records /\ \A r \in DOMAIN records : r \in Whole => base[r] >= 0
  BY WholeAre
<1>2. \A u \in Whole : u \in Nat /\ u >= 1
  BY <1>1, BodyType
<1>3. \A u \in Whole : ~(u < 1)
  BY <1>2
<1>4. ASSUME base[1] < 0, NEW u \in Whole PROVE ~(u < 2)
  <2>1. u # 1
    <3>1. ASSUME u = 1 PROVE FALSE
      <4>1. 1 \in DOMAIN records /\ base[1] >= 0
        BY <1>1, <3>1
      <4>2. base[1] \in Int
        BY <4>1, SizeOf DEF Laid
      <4> QED  BY <4>1, <4>2, <1>4
    <3> QED  BY <3>1
  <2> QED  BY <2>1, <1>2
<1> QED  BY <1>3, <1>4 DEF ReadBefore, Readable

(* A log that is opened is laid out as before, less what is cut. *)
LEMMA OpenConv == Parts /\ ConvInv /\ Open /\ Parts' => ConvInv'
<1> SUFFICES ASSUME Parts, ConvInv, Open, Parts' PROVE ConvInv'
  OBVIOUS
<1>1. /\ pc = "open" /\ pc' = "loop" /\ Cut
      /\ UNCHANGED <<type, isUsbLog, records, pos, objects, count>>
      /\ OptType /\ LogType /\ LogKnown
  BY DEF Open, Parts, optVars
<1>2. pos = 1 /\ objects = <<>> /\ count = Zero
  BY <1>1 DEF Parts, FreshAtOpen
<1>3. PICK base : Laid(base) /\ base[1] = 0 /\ Len(log) = base[Len(records) + 1]
  BY <1>1 DEF ConvInv
<1>4. PICK a \in (IF isUsbLog /\ log # <<>> THEN Of(1) ELSE {1}) :
        \E d \in 0..Cardinality(Of(Len(records))) : log' = SubSeq(log, a, Len(log) - d)
  BY <1>1 DEF Cut
<1>5. PICK d \in 0..Cardinality(Of(Len(records))) : log' = SubSeq(log, a, Len(log) - d)
  BY <1>4
<1>n. PICK n, L, m : n = Len(records) /\ L = Len(log) /\ m = Len(log) - d
  OBVIOUS
<1>b. PICK nb : nb = [j \in 1..(n + 1) |-> base[j] - (a - 1)]
  OBVIOUS
<1>6. n \in Nat /\ DOMAIN records = 1..n /\ L \in Nat /\ DOMAIN log = 1..L
      /\ \A i \in 1..L : log[i] \in CellType
  BY <1>n, <1>1, LenProperties, ElementOfSeq DEF LogType
<1>7. d \in Nat /\ m \in Int /\ m <= L
  BY <1>n, <1>6
<1>8. /\ base \in [1..(n + 1) -> Int] /\ base[1] = 0 /\ L = base[n + 1]
      /\ \A j \in 1..n : base[j + 1] = base[j] + Size(j)
      /\ \A j, k \in 1..(n + 1) : j < k => base[j] < base[k]
      /\ n > 0 => base[2] > 0
  BY <1>n, <1>3 DEF Laid, Bases, Ends
<1>9. a \in Nat /\ a >= 1 /\ (a = 1 \/ (isUsbLog /\ n > 0 /\ a <= base[2] /\ a <= L))
  <2>1. CASE isUsbLog /\ log # <<>>
    <3>1. a \in 1..L /\ log[a].rec = 1
      BY <2>1, <1>4, <1>6 DEF Of
    <3>2. 1 \in DOMAIN records
      BY <3>1, <1>1, <1>6 DEF LogKnown
    <3>3. a \in DOMAIN log
      BY <3>1, <1>6
    <3>4. a <= base[1 + 1]
      BY <3>1, <3>2, <3>3, <1>1, <1>3, CellOf
    <3>5. n > 0 /\ 1 + 1 = 2
      BY <3>2, <1>6
    <3> QED  BY <2>1, <3>1, <3>4, <3>5, <1>6
  <2>2. CASE ~(isUsbLog /\ log # <<>>)
    BY <2>2, <1>4
  <2> QED  BY <2>1, <2>2
<1>10. /\ Len(log') = IF a <= m THEN m - a + 1 ELSE 0
       /\ \A i \in 1..(m - a + 1) : log'[i] = log[a + i - 1]
       /\ DOMAIN log' = 1..Len(log')
  <2>1. a \in Int /\ m \in Int /\ \A i \in a..m : log[i] \in CellType
    BY <1>6, <1>7, <1>9
  <2>2. log' = SubSeq(log, a, m)
    BY <1>5, <1>n
  <2>3. /\ SubSeq(log, a, m) \in Seq(CellType)
        /\ Len(SubSeq(log, a, m)) = IF a <= m THEN m - a + 1 ELSE 0
        /\ \A i \in 1..(m - a + 1) : SubSeq(log, a, m)[i] = log[a + i - 1]
    BY <2>1, SubSeqProperties
  <2> QED  BY <2>2, <2>3, LenProperties
<1>r. \A j : Rest(j)' = Rest(j)
  BY <1>1 DEF Rest, StampAndBody
<1>11. MagicLen' = MagicLen /\ (\A j : Size(j)' = Size(j)) /\ \A j, e : Cells(j, e)' = Cells(j, e)
  BY <1>1, <1>r DEF MagicLen, Size, Cells, Magic
<1>12. \A j \in 1..n : Size(j) \in Nat
  BY <1>1, <1>3, <1>6, SizeOf DEF Laid
<1>13. /\ nb \in [1..(n + 1) -> Int]
       /\ \A j \in 1..(n + 1) : nb[j] = base[j] - (a - 1) /\ base[j] \in Int
  BY <1>b, <1>8, <1>9
<1>14. Bases(nb)'
  <2>1. ASSUME NEW j \in 1..n PROVE nb[j + 1] = nb[j] + Size(j)
    <3>1. j \in 1..(n + 1) /\ j + 1 \in 1..(n + 1)
      BY <1>6
    <3>2. base[j + 1] = base[j] + Size(j) /\ Size(j) \in Nat
      BY <1>8, <1>12
    <3>3. nb[j] = base[j] - (a - 1) /\ nb[j + 1] = base[j + 1] - (a - 1) /\ base[j] \in Int
      BY <3>1, <1>13
    <3> QED  BY <3>2, <3>3, <1>9
  <2>2. ASSUME NEW j \in 1..(n + 1), NEW k \in 1..(n + 1), j < k PROVE nb[j] < nb[k]
    <3>1. base[j] < base[k]
      BY <2>2, <1>8
    <3> QED  BY <3>1, <1>9, <1>13
  <2> QED  BY <2>1, <2>2, <1>1, <1>6, <1>11, <1>13, <1>n DEF Bases
<1>15. Placed(nb)'
  <2>1. ASSUME NEW i \in DOMAIN log'
        PROVE  LET u == log'[i].rec IN
                 /\ nb[u] < i /\ i <= nb[u + 1]
                 /\ log'[i] = Cells(u, Rest(u))[i - nb[u]]
    <3>1. i \in 1..(m - a + 1) /\ i \in Nat
      BY <2>1, <1>7, <1>9, <1>10
    <3>2. log'[i] = log[a + i - 1] /\ a + i - 1 \in DOMAIN log
      BY <3>1, <1>6, <1>7, <1>9, <1>10
    <3> DEFINE x == a + i - 1
               u == log[x].rec
    <3>3. u \in 1..n
      BY <3>2, <1>1, <1>6 DEF LogKnown
    <3>4. base[u] < x /\ x <= base[u + 1] /\ log[x] = Cells(u, Rest(u))[x - base[u]]
      BY <3>2, <1>3 DEF Laid, Placed
    <3>5. x = a + i - 1 /\ log'[i] = log[x]
      BY <3>2
    <3> HIDE DEF u, x
    <3>6. u \in 1..(n + 1) /\ u + 1 \in 1..(n + 1)
      BY <3>3, <1>6
    <3>7. /\ nb[u] = base[u] - (a - 1) /\ nb[u + 1] = base[u + 1] - (a - 1)
          /\ base[u] \in Int /\ base[u + 1] \in Int
      BY <3>6, <1>13
    <3>8. nb[u] < i /\ i <= nb[u + 1] /\ i - nb[u] = x - base[u]
      BY <3>1, <3>4, <3>5, <3>7, <1>9
    <3> QED  BY <3>4, <3>5, <3>8 DEF u
  <2> QED  BY <2>1, <1>1, <1>r, <1>11 DEF Placed
<1>16. nb[1] = 1 - a /\ (n > 0 => nb[2] > 0)
  <2>1. 1 \in 1..(n + 1) /\ (n > 0 => 2 \in 1..(n + 1))
    BY <1>6
  <2>2. nb[1] = 1 - a
    BY <2>1, <1>8, <1>9, <1>13
  <2>3. ASSUME n > 0 PROVE nb[2] > 0
    <3>1. nb[2] = base[2] - (a - 1) /\ base[2] \in Int /\ base[2] > 0
      BY <2>1, <2>3, <1>8, <1>13
    <3> QED  BY <3>1, <1>9
  <2> QED  BY <2>2, <2>3
<1>17. Ends(nb)'
  <2>1. nb[n + 1] = L - (a - 1)
    <3>1. n + 1 \in 1..(n + 1)
      BY <1>6
    <3> QED  BY <3>1, <1>8, <1>13
  <2>2. L - (a - 1) >= 0
    BY <1>6, <1>9
  <2>3. Len(log') <= nb[n + 1]
    BY <2>1, <2>2, <1>6, <1>7, <1>9, <1>10
  <2>4. nb[1] <= 0 /\ (isUsbLog \/ nb[1] = 0)
    BY <1>9, <1>16
  <2> QED  BY <2>3, <2>4, <1>1, <1>16, <1>n DEF Ends
<1>18. Laid(nb)'
  BY <1>14, <1>15, <1>17 DEF Laid
<1>19. (OptType /\ LogType /\ LogKnown)'
  BY DEF Parts
<1>20. /\ ReadBefore(1)' = {}
       /\ nb[1] < 0 => ReadBefore(2)' = {} /\ \A u \in Whole' : ~(u < 2)
       /\ \A u \in Whole' : ~(u < 1)
  <2>1. (OptType /\ LogType /\ LogKnown)' => NoneRead'
    BY NothingRead, PTL
  <2> QED  BY <2>1, <1>18, <1>19 DEF NoneRead
<1>21. ASSUME NEW k \in {1, 2}, ReadBefore(k)' = {}
       PROVE  Converted(k)' /\ CountedTo(k)'
  <2>1. objects' = <<>> /\ count' = Zero
    BY <1>1, <1>2
  <2>2. DOMAIN objects' = {}
    BY <2>1
  <2>3. Ordered' /\ Faithful' /\ Recs' = {}
    BY <2>2 DEF Ordered, Faithful, Recs
  <2>4. ASSUME NEW t \in Tallied
        PROVE  count'[t] = Cardinality({r \in ReadBefore(k)' : records'[r].type = t})
    <3>1. {r \in ReadBefore(k)' : records'[r].type = t} = {}
      BY <1>21
    <3>2. count'[t] = 0
      BY <2>1, <2>4 DEF Zero, Tallied, Types
    <3> QED  BY <3>1, <3>2, FS_EmptySet
  <2>5. {r \in ReadBefore(k)' : Convertible(r)'} = {}
    BY <1>21
  <2> QED  BY <2>3, <2>4, <2>5 DEF Converted, CountedTo
<1>22. \E k : ReadTo(nb, k)'
  <2>1. CASE a = 1
    <3>1. nb[1] = 0 /\ 1 \in 1..(Len(records') + 1)
      BY <2>1, <1>1, <1>6, <1>16, <1>n
    <3>2. NextRead(nb, 1)'
      BY <3>1, <1>1, <1>2 DEF NextRead
    <3>3. Converted(1)' /\ CountedTo(1)'
      BY <1>20, <1>21
    <3>4. ReadTo(nb, 1)'
      BY <3>1, <3>2, <3>3, <1>1, <1>20 DEF ReadTo
    <3> QED  BY <3>4
  <2>2. CASE a # 1
    <3>1. n > 0 /\ nb[1] < 0 /\ nb[2] > 0
      BY <2>2, <1>9, <1>16
    <3>2. 2 \in 1..(Len(records') + 1) /\ 2 \in 1..(n + 1)
      BY <3>1, <1>1, <1>6, <1>n
    <3>3. nb[2] >= 0
      BY <3>1, <3>2, <1>13
    <3>4. NextRead(nb, 2)'
      BY <3>1, <1>1, <1>2 DEF NextRead
    <3>5. Converted(2)' /\ CountedTo(2)'
      BY <3>1, <1>20, <1>21
    <3>6. ReadTo(nb, 2)'
      BY <3>1, <3>2, <3>3, <3>4, <3>5, <1>1, <1>20 DEF ReadTo
    <3> QED  BY <3>6
  <2> QED  BY <2>1, <2>2
<1> QED  BY <1>1, <1>18, <1>22 DEF ConvInv

(* At the start, and where there is no log. *)
LEMMA NoLogConv == records' = <<>> /\ log' = <<>> /\ pc' = "open" => ConvInv'
<1>1. (records = <<>> /\ log = <<>> /\ pc = "open") => ConvInv
  BY EmptyLaid DEF ConvInv
<1>2. (records = <<>> /\ log = <<>> /\ pc = "open")' => ConvInv'
  BY <1>1, PTL
<1> QED  BY <1>2

(* Every step keeps the invariant of the conversion. *)
LEMMA NextConv == Parts /\ ConvInv /\ [Next]_vars => ConvInv'
<1> SUFFICES ASSUME Parts, ConvInv, [Next]_vars PROVE ConvInv'
  OBVIOUS
<1>1. CASE Capture
  BY <1>1, CaptureConv
<1>2. CASE Open
  BY <1>2, OpenConv, OpenParts
<1>3. CASE OpenFails
  BY <1>3, NoLogConv DEF OpenFails
<1>4. CASE Iterate
  BY <1>4, IterateConv
<1>5. CASE Close
  BY <1>5, NoLogConv DEF Close
<1>6. CASE Return
  BY <1>6 DEF Return, ConvInv
<1>7. CASE UNCHANGED vars
  <2>1. UNCHANGED <<type, isUsbLog, records, log>> /\ UNCHANGED <<pc, pos, objects, count>>
    BY <1>7 DEF vars, optVars, fileVars
  <2>2. ASSUME pc' = "open"
        PROVE  \E base : Laid(base)' /\ base[1] = 0 /\ Len(log') = base[Len(records') + 1]
    BY <2>1, <2>2, SameLog DEF ConvInv
  <2>3. ASSUME pc' \in {"loop", "close"}, CleanStart'
        PROVE  \E base : Laid(base)' /\ \E k : ReadTo(base, k)'
    <3>1. PICK base, k : Laid(base) /\ ReadTo(base, k)
      BY <2>1, <2>3, SameLog DEF ConvInv
    <3>2. Laid(base)' /\ Whole' = Whole /\ Readable' = Readable /\ ReadBefore(k)' = ReadBefore(k)
          /\ \A r : Convertible(r)' <=> Convertible(r)
      BY <2>1, <3>1, SameLog
    <3>3. Converted(k)' <=> Converted(k)
      <4>1. (Ordered' <=> Ordered) /\ Recs' = Recs
        BY <2>1 DEF Ordered, Recs
      <4>2. Faithful' <=> Faithful
        BY <2>1 DEF Faithful, Frame, StripEth
      <4> QED  BY <4>1, <4>2, <3>2 DEF Converted
    <3>4. CountedTo(k)' <=> CountedTo(k)
      BY <2>1, <3>2 DEF CountedTo
    <3>5. ReadTo(base, k)'
      BY <2>1, <3>1, <3>2, <3>3, <3>4 DEF ReadTo, NextRead
    <3> QED  BY <3>2, <3>5
  <2> QED  BY <2>2, <2>3 DEF ConvInv
<1> QED  BY <1>1, <1>2, <1>3, <1>4, <1>5, <1>6, <1>7 DEF Next, main

(* At the end of a log all that can be converted is. *)
LEMMA ConvImplies == ConvInv => ConvertedInOrder
<1> SUFFICES ASSUME ConvInv, pc = "close", CleanStart
             PROVE  /\ type # "none" =>
                         /\ \A i, j \in DOMAIN objects : i < j => objects[i].rec < objects[j].rec
                         /\ Recs = {r \in Readable : Convertible(r)}
                         /\ Faithful
                    /\ \A t \in Tallied :
                         count[t] = Cardinality({r \in Readable : records[r].type = t})
  BY DEF ConvertedInOrder, Recs, Faithful, Tallied
<1>1. PICK base, k : ReadTo(base, k)
  BY DEF ConvInv
<1>2. ReadBefore(k) = Readable
  BY <1>1 DEF ReadTo, ReadBefore
<1> QED  BY <1>1, <1>2 DEF ReadTo, Converted, CountedTo, Ordered

-----------------------------------------------------------------------------
(* A converted log has every ITS frame and position that is in it whole,    *)
(* once, in order and as it was captured, up to the first record of unknown *)
(* type, and nothing else, for payloads and time stamps of every content    *)
(* and wherever the log is cut, but in front in a record that holds the     *)
(* magic number by itself or with the first byte of the next; the counts    *)
(* are those of the log (log_cvt, skip_magic, AddEth).                      *)
THEOREM ConvertedInOrderHolds == Spec => []ConvertedInOrder
<1>1. Init => Parts /\ ConvInv
  <2>1. records = <<>> /\ log = <<>> /\ pc = "open" => ConvInv
    BY EmptyLaid DEF ConvInv
  <2> QED  BY <2>1, InitParts DEF Init
<1>2. Parts /\ ConvInv /\ [Next]_vars => (Parts /\ ConvInv)'
  BY NextParts, NextConv
<1>3. ConvInv => ConvertedInOrder
  BY ConvImplies
<1> QED  BY <1>1, <1>2, <1>3, PTL DEF Spec
=============================================================================

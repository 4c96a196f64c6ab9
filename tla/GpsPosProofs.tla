---------------------------- MODULE GpsPosProofs ----------------------------
(***************************************************************************)
(* What gps_log_data copies is of one epoch, and what the read task leaves *)
(* under a set flag is one measurement, for any number of epochs.          *)
(***************************************************************************)
EXTENDS GpsPos, SequenceTheorems, TLAPS

FieldNames == {"latitude", "longitude", "altitudeMSL", "speed"}
StoreSet ==
  [op : {"set"}, field : FieldNames, value : Int]
    \cup [op : {"negate"}, field : FieldNames]
    \cup [op : {"active"}, value : BOOLEAN]

(* What the read task does for a frame of epoch e: "ubx" and "gga" store a  *)
(* position, "nofix" clears the flag, "short" is a line given up.           *)
Program(p, e) ==
  Memset \o
    CASE p = "ubx"   -> Append(PosStores(e, e), Active(TRUE))
      [] p = "gga"   -> <<Set("latitude", e), Negate("latitude"), Set("longitude", e),
                          Negate("longitude"), Set("altitudeMSL", 10 * e), Active(TRUE)>>
      [] p = "nofix" -> <<Active(FALSE)>>
      [] p = "short" -> <<>>
Programs ==
  IF receiver = "ubx" THEN {"ubx", "nofix"}
  ELSE IF receiver = "nmea" THEN {"gga", "nofix"} ELSE {"gga", "nofix", "short"}

(* The fields after k stores of a program: first they become 0 one by one,  *)
(* then they get their values.                                              *)
Wiped(k) ==
  /\ k >= 1 => gps_data.latitude = 0
  /\ k >= 2 => gps_data.longitude = 0
  /\ k >= 3 => gps_data.altitudeMSL = 0
  /\ k >= 4 => gps_data.speed = 0
Filled(p, e, k) ==
  /\ p = "ubx" =>
       /\ gps_data.latitude = IF k >= 5 THEN -e ELSE 0
       /\ gps_data.longitude = IF k >= 6 THEN -e ELSE 0
       /\ gps_data.altitudeMSL = IF k >= 7 THEN 1000 * e ELSE 0
       /\ gps_data.speed = IF k >= 8 THEN e ELSE 0
  /\ p = "gga" =>
       /\ gps_data.latitude = IF k >= 6 THEN -e ELSE IF k = 5 THEN e ELSE 0
       /\ gps_data.longitude = IF k >= 8 THEN -e ELSE IF k = 7 THEN e ELSE 0
After(p, e, k) == IF k <= 4 THEN Wiped(k) ELSE Filled(p, e, k)

Types ==
  /\ receiver \in {"ubx", "nmea", "worn"} /\ receiver \in Receivers
  /\ epoch \in 0..MaxEpoch
  /\ gps_data \in [FieldNames -> Int] /\ gps_pos_active \in BOOLEAN
  /\ logged # NULL => logged \in [at : Nat, gps : [FieldNames -> Int]]
(* Frames are of past epochs. *)
Past ==
  /\ uart \subseteq Frame
  /\ \A r \in uart : r.iTOW \in 1..epoch
  /\ last_nav_posllh \in Nat /\ last_nav_velned \in Nat
  /\ last_nav_status \in [iTOW : Nat, fix : BOOLEAN]
  /\ last_nav_posllh <= epoch
(* The read task is between two frames or at some place of a program.       *)
Idle ==
  /\ todo = <<>>
  /\ receiver # "worn" /\ gps_pos_active => \E e \in 1..epoch : Whole(gps_data, e)
Running ==
  \E p \in Programs, e \in 1..epoch : \E k \in 0..(Len(Program(p, e)) - 1) :
    /\ todo = SubSeq(Program(p, e), k + 1, Len(Program(p, e)))
    /\ After(p, e, k)
(* The fields are of one epoch whenever they are copied. *)
OneEpoch(data) ==
  \E e \in 0..epoch : \A f \in Known : data[f] \in {0, Measured(e)[f], -Measured(e)[f]}
Consistent ==
  /\ OneEpoch(gps_data)
  /\ gps_pos_active => epoch >= 1
IInv == Types /\ Past /\ (Idle \/ Running) /\ Consistent /\ FieldsOfOneEpoch

-----------------------------------------------------------------------------
(* The programs. *)

(* The fields are those of FieldNames. *)
LEMMA Fields ==
  /\ Field = FieldNames /\ DOMAIN FIELDS = 1..4
  /\ FIELDS[1] = "latitude" /\ FIELDS[2] = "longitude"
  /\ FIELDS[3] = "altitudeMSL" /\ FIELDS[4] = "speed"
<1>1. /\ DOMAIN FIELDS = 1..4
      /\ FIELDS[1] = "latitude" /\ FIELDS[2] = "longitude"
      /\ FIELDS[3] = "altitudeMSL" /\ FIELDS[4] = "speed"
  BY DEF FIELDS
<1>2. 1..4 = {1, 2, 3, 4}
  OBVIOUS
<1>3. Field = {FIELDS[x] : x \in {1, 2, 3, 4}}
  BY <1>1, <1>2 DEF Field, Range
<1>4. Field = FieldNames
  BY <1>1, <1>3 DEF FieldNames
<1> QED  BY <1>1, <1>4

(* Stores are of StoreSet. *)
LEMMA StoresTyped ==
  /\ \A f \in FieldNames, v \in Int : Set(f, v) \in StoreSet
  /\ \A f \in FieldNames : Negate(f) \in StoreSet
  /\ \A b \in BOOLEAN : Active(b) \in StoreSet
BY DEF Set, Negate, Active, StoreSet

(* Memset stores four zeroes. *)
LEMMA MemsetIs ==
  /\ Memset \in Seq(StoreSet) /\ Len(Memset) = 4
  /\ Memset[1] = Set("latitude", 0) /\ Memset[2] = Set("longitude", 0)
  /\ Memset[3] = Set("altitudeMSL", 0) /\ Memset[4] = Set("speed", 0)
<1>1. Memset = [i \in 1..4 |-> Set(FIELDS[i], 0)]
  BY Fields DEF Memset
<1>2. \A i \in 1..4 : Set(FIELDS[i], 0) \in StoreSet
  <2>1. \A i \in 1..4 : i = 1 \/ i = 2 \/ i = 3 \/ i = 4
    OBVIOUS
  <2>2. \A i \in 1..4 : FIELDS[i] \in FieldNames
    BY <2>1, Fields DEF FieldNames
  <2> QED  BY <2>2, StoresTyped
<1> HIDE DEF StoreSet
<1>3. Memset \in [1..4 -> StoreSet]
  BY <1>1, <1>2
<1>4. Memset \in Seq(StoreSet)
  <2>1. 4 \in Nat
    OBVIOUS
  <2> QED  BY <1>3, <2>1, SeqDef
<1>7. Len(Memset) = 4
  <2>1. Len(Memset) \in Nat /\ DOMAIN Memset = 1..Len(Memset)
    BY <1>4, LenProperties
  <2>2. DOMAIN Memset = 1..4
    BY <1>3
  <2>3. \A i \in Int : i \in 1..Len(Memset) <=> i \in 1..4
    BY <2>1, <2>2
  <2>4. 4 <= Len(Memset)
    BY <2>1, <2>3
  <2>5. Len(Memset) \in 1..Len(Memset)
    BY <2>1, <2>4
  <2>6. Len(Memset) <= 4
    BY <2>1, <2>3, <2>5
  <2> QED  BY <2>1, <2>4, <2>6
<1>5. \A i \in 1..4 : Memset[i] = Set(FIELDS[i], 0)
  BY <1>1
<1>6. 1 \in 1..4 /\ 2 \in 1..4 /\ 3 \in 1..4 /\ 4 \in 1..4
  OBVIOUS
<1> QED  BY <1>4, <1>5, <1>6, <1>7, Fields

(* What follows the four zeroes. *)
LEMMA Behind ==
  ASSUME NEW t \in Seq(StoreSet)
  PROVE  /\ Memset \o t \in Seq(StoreSet) /\ Len(Memset \o t) = 4 + Len(t)
         /\ (Memset \o t)[1] = Set("latitude", 0) /\ (Memset \o t)[2] = Set("longitude", 0)
         /\ (Memset \o t)[3] = Set("altitudeMSL", 0) /\ (Memset \o t)[4] = Set("speed", 0)
         /\ \A i \in 1..Len(t) : (Memset \o t)[4 + i] = t[i]
<1> HIDE DEF StoreSet
<1>0. Memset \in Seq(StoreSet) /\ Len(Memset) = 4
  BY MemsetIs
<1>a. /\ Memset \o t \in Seq(StoreSet) /\ Len(Memset \o t) = Len(Memset) + Len(t)
      /\ \A i \in 1..(Len(Memset) + Len(t)) :
           (Memset \o t)[i] = IF i <= Len(Memset) THEN Memset[i] ELSE t[i - Len(Memset)]
  BY <1>0, ConcatProperties
<1>1. /\ Memset \o t \in Seq(StoreSet) /\ Len(Memset \o t) = 4 + Len(t)
      /\ \A i \in 1..(4 + Len(t)) : (Memset \o t)[i] = IF i <= 4 THEN Memset[i] ELSE t[i - 4]
  BY <1>0, <1>a
<1>2. Len(t) \in Nat
  BY LenProperties
<1>3. \A i \in 1..4 : i \in 1..(4 + Len(t)) /\ i <= 4
  BY <1>2
<1>4. \A i \in 1..Len(t) : 4 + i \in 1..(4 + Len(t)) /\ ~(4 + i <= 4) /\ (4 + i) - 4 = i
  BY <1>2
<1>5. \A i \in 1..4 : (Memset \o t)[i] = Memset[i]
  BY <1>1, <1>3
<1>6. \A i \in 1..Len(t) : (Memset \o t)[4 + i] = t[i]
  BY <1>1, <1>4
<1>7. 1 \in 1..4 /\ 2 \in 1..4 /\ 3 \in 1..4 /\ 4 \in 1..4
  OBVIOUS
<1> QED  BY <1>1, <1>5, <1>6, <1>7, MemsetIs

(* The program of a UBX position. *)
LEMMA ProgramUbx ==
  ASSUME NEW e \in Nat
  PROVE  LET P == Program("ubx", e) IN
         /\ P \in Seq(StoreSet) /\ Len(P) = 9
         /\ P[1] = Set("latitude", 0) /\ P[2] = Set("longitude", 0)
         /\ P[3] = Set("altitudeMSL", 0) /\ P[4] = Set("speed", 0)
         /\ P[5] = Set("latitude", -e) /\ P[6] = Set("longitude", -e)
         /\ P[7] = Set("altitudeMSL", 1000 * e) /\ P[8] = Set("speed", e)
         /\ P[9] = Active(TRUE)
<1> DEFINE a == Set("latitude", -e)
           b == Set("longitude", -e)
           c == Set("altitudeMSL", 1000 * e)
           d == Set("speed", e)
           s == Active(TRUE)
           t == <<a, b, c, d>>
<1>1. -e \in Int /\ 1000 * e \in Int /\ e \in Int /\ 0 \in Int
  OBVIOUS
<1>2. a \in StoreSet /\ b \in StoreSet /\ c \in StoreSet /\ d \in StoreSet /\ s \in StoreSet
  <2>1. {"latitude", "longitude", "altitudeMSL", "speed"} \subseteq FieldNames
    BY DEF FieldNames
  <2> HIDE DEF StoreSet
  <2>2. a \in StoreSet /\ b \in StoreSet
    BY <1>1, <2>1, StoresTyped
  <2>3. c \in StoreSet /\ d \in StoreSet
    BY <1>1, <2>1, StoresTyped
  <2>4. s \in StoreSet
    BY StoresTyped
  <2> QED  BY <2>2, <2>3, <2>4
<1>3. PosStores(e, e) = t
  BY DEF PosStores, Measured
<1>4. Program("ubx", e) = Memset \o Append(t, s)
  <2>1. Program("ubx", e) = Memset \o Append(PosStores(e, e), Active(TRUE))
    BY DEF Program
  <2>2. Append(PosStores(e, e), Active(TRUE)) = Append(t, s)
    BY <1>3, Zenon
  <2> HIDE DEF t, s
  <2> QED  BY <2>1, <2>2, Zenon
<1> HIDE DEF StoreSet, a, b, c, d, s
<1>5. /\ t \in Seq(StoreSet) /\ Len(t) = 4
      /\ t[1] = a /\ t[2] = b /\ t[3] = c /\ t[4] = d
  <2>1. t \in Seq(StoreSet)
    BY <1>2
  <2>2. Len(t) = 4 /\ t[1] = a /\ t[2] = b /\ t[3] = c /\ t[4] = d
    OBVIOUS
  <2> QED  BY <2>1, <2>2
<1> HIDE DEF t
<1>6. /\ Append(t, s) \in Seq(StoreSet) /\ Len(Append(t, s)) = 5
      /\ \A i \in 1..4 : Append(t, s)[i] = t[i]
      /\ Append(t, s)[5] = s
  <2>1. /\ Append(t, s) \in Seq(StoreSet) /\ Len(Append(t, s)) = Len(t) + 1
        /\ \A i \in 1..Len(t) : Append(t, s)[i] = t[i]
        /\ Append(t, s)[Len(t) + 1] = s
    <3>1. t \in Seq(StoreSet) /\ s \in StoreSet
      BY <1>2, <1>5
    <3> QED  BY <3>1, AppendProperties
  <2>2. Len(t) = 4 /\ 4 + 1 = 5
    BY <1>5
  <2> QED  BY <2>1, <2>2
<1>7. Append(t, s)[1] = a /\ Append(t, s)[2] = b /\ Append(t, s)[3] = c /\ Append(t, s)[4] = d
  BY <1>5, <1>6
<1> DEFINE P == Memset \o Append(t, s)
<1>8. /\ P \in Seq(StoreSet) /\ Len(P) = 9
      /\ P[1] = Set("latitude", 0) /\ P[2] = Set("longitude", 0)
      /\ P[3] = Set("altitudeMSL", 0) /\ P[4] = Set("speed", 0)
      /\ \A i \in 1..5 : P[4 + i] = Append(t, s)[i]
  BY <1>6, Behind
<1> HIDE DEF P
<1>9. P[5] = a /\ P[6] = b /\ P[7] = c /\ P[8] = d /\ P[9] = s
  <2>1. 1 \in 1..5 /\ 2 \in 1..5 /\ 3 \in 1..5 /\ 4 \in 1..5 /\ 5 \in 1..5
        /\ 4 + 1 = 5 /\ 4 + 2 = 6 /\ 4 + 3 = 7 /\ 4 + 4 = 8 /\ 4 + 5 = 9
    OBVIOUS
  <2> DEFINE q == Append(t, s)
  <2>2. /\ q[1] = a /\ q[2] = b /\ q[3] = c /\ q[4] = d /\ q[5] = s
        /\ \A i \in 1..5 : P[4 + i] = q[i]
    BY <1>6, <1>7, <1>8
  <2> HIDE DEF q
  <2> QED  BY <2>1, <2>2
<1>10. P = Program("ubx", e)
  BY <1>4 DEF P
<1>11. P[5] = Set("latitude", -e) /\ P[6] = Set("longitude", -e)
  BY <1>9 DEF a, b
<1>12. P[7] = Set("altitudeMSL", 1000 * e) /\ P[8] = Set("speed", e) /\ P[9] = Active(TRUE)
  BY <1>9 DEF c, d, s
<1> QED  BY <1>8, <1>10, <1>11, <1>12

(* The program of an NMEA position. *)
LEMMA ProgramGga ==
  ASSUME NEW e \in Nat
  PROVE  LET P == Program("gga", e) IN
         /\ P \in Seq(StoreSet) /\ Len(P) = 10
         /\ P[1] = Set("latitude", 0) /\ P[2] = Set("longitude", 0)
         /\ P[3] = Set("altitudeMSL", 0) /\ P[4] = Set("speed", 0)
         /\ P[5] = Set("latitude", e) /\ P[6] = Negate("latitude")
         /\ P[7] = Set("longitude", e) /\ P[8] = Negate("longitude")
         /\ P[9] = Set("altitudeMSL", 10 * e) /\ P[10] = Active(TRUE)
<1> DEFINE a == Set("latitude", e)
           b == Negate("latitude")
           c == Set("longitude", e)
           d == Negate("longitude")
           f == Set("altitudeMSL", 10 * e)
           s == Active(TRUE)
           t == <<a, b, c, d, f, s>>
<1>1. 10 * e \in Int /\ e \in Int
  OBVIOUS
<1>2. /\ a \in StoreSet /\ b \in StoreSet /\ c \in StoreSet /\ d \in StoreSet
      /\ f \in StoreSet /\ s \in StoreSet
  BY <1>1, StoresTyped DEF FieldNames
<1>3. Program("gga", e) = Memset \o t
  BY DEF Program
<1> HIDE DEF StoreSet, a, b, c, d, f, s
<1>4. /\ t \in Seq(StoreSet) /\ Len(t) = 6
      /\ t[1] = a /\ t[2] = b /\ t[3] = c /\ t[4] = d /\ t[5] = f /\ t[6] = s
  BY <1>2
<1> HIDE DEF t
<1> DEFINE P == Memset \o t
<1>a. /\ P \in Seq(StoreSet) /\ Len(P) = 4 + Len(t)
      /\ P[1] = Set("latitude", 0) /\ P[2] = Set("longitude", 0)
      /\ P[3] = Set("altitudeMSL", 0) /\ P[4] = Set("speed", 0)
      /\ \A i \in 1..Len(t) : P[4 + i] = t[i]
  BY <1>4, Behind
<1>5. Len(P) = 10 /\ \A i \in 1..6 : P[4 + i] = t[i]
  BY <1>4, <1>a
<1> HIDE DEF P
<1>6. P[5] = a /\ P[6] = b /\ P[7] = c /\ P[8] = d /\ P[9] = f /\ P[10] = s
  <2>1. 1 \in 1..6 /\ 2 \in 1..6 /\ 3 \in 1..6 /\ 4 \in 1..6 /\ 5 \in 1..6 /\ 6 \in 1..6
        /\ 4 + 1 = 5 /\ 4 + 2 = 6 /\ 4 + 3 = 7 /\ 4 + 4 = 8 /\ 4 + 5 = 9 /\ 4 + 6 = 10
    OBVIOUS
  <2> QED  BY <1>4, <1>5, <2>1
<1>7. P = Program("gga", e)
  BY <1>3 DEF P
<1>8. P[5] = Set("latitude", e) /\ P[6] = Negate("latitude")
  BY <1>6 DEF a, b
<1>9. P[7] = Set("longitude", e) /\ P[8] = Negate("longitude")
  BY <1>6 DEF c, d
<1>10. P[9] = Set("altitudeMSL", 10 * e) /\ P[10] = Active(TRUE)
  BY <1>6 DEF f, s
<1> QED  BY <1>a, <1>5, <1>7, <1>8, <1>9, <1>10

(* The programs without a position. *)
LEMMA ProgramShort ==
  ASSUME NEW e \in Nat
  PROVE  /\ Program("nofix", e) = Append(Memset, Active(FALSE))
         /\ Program("short", e) = Memset
         /\ Program("nofix", e) \in Seq(StoreSet) /\ Len(Program("nofix", e)) = 5
         /\ \A i \in 1..4 : Program("nofix", e)[i] = Memset[i]
         /\ Program("nofix", e)[5] = Active(FALSE)
<1>1. Active(FALSE) \in StoreSet
  BY StoresTyped
<1>2. Program("nofix", e) = Memset \o <<Active(FALSE)>> /\ Program("short", e) = Memset \o <<>>
  BY DEF Program
<1> HIDE DEF StoreSet
<1>3. Program("nofix", e) = Append(Memset, Active(FALSE)) /\ Program("short", e) = Memset
  BY <1>1, <1>2, MemsetIs, ConcatEmptySeq, AppendIsConcat
<1>4. /\ Append(Memset, Active(FALSE)) \in Seq(StoreSet)
      /\ Len(Append(Memset, Active(FALSE))) = Len(Memset) + 1
      /\ \A i \in 1..Len(Memset) : Append(Memset, Active(FALSE))[i] = Memset[i]
      /\ Append(Memset, Active(FALSE))[Len(Memset) + 1] = Active(FALSE)
  <2> DEFINE s == Active(FALSE)
  <2>1. Memset \in Seq(StoreSet) /\ s \in StoreSet
    BY <1>1, MemsetIs
  <2> HIDE DEF s
  <2>2. /\ Append(Memset, s) \in Seq(StoreSet)
        /\ Len(Append(Memset, s)) = Len(Memset) + 1
        /\ \A i \in 1..Len(Memset) : Append(Memset, s)[i] = Memset[i]
        /\ Append(Memset, s)[Len(Memset) + 1] = s
    BY <2>1, AppendProperties
  <2> QED  BY <2>2 DEF s
<1>5. Len(Memset) = 4 /\ 4 + 1 = 5
  BY MemsetIs
<1> QED  BY <1>3, <1>4, <1>5

(* The place in a program after one store. *)
LEMMA Advanced ==
  ASSUME NEW P \in Seq(StoreSet), NEW k \in 0..(Len(P) - 1),
         todo = SubSeq(P, k + 1, Len(P))
  PROVE  /\ todo # <<>> /\ Head(todo) = P[k + 1] /\ P[k + 1] \in StoreSet
         /\ Tail(todo) = SubSeq(P, k + 2, Len(P))
         /\ k + 1 = Len(P) => Tail(todo) = <<>>
<1> HIDE DEF StoreSet
<1>1. Len(P) \in Nat /\ k + 1 \in Int /\ k + 2 \in Int /\ k + 1 <= Len(P)
  BY LenProperties
<1>2. \A i \in 1..Len(P) : P[i] \in StoreSet
  BY ElementOfSeq
<1>3. /\ todo \in Seq(StoreSet) /\ Len(todo) = Len(P) - k
      /\ \A i \in 1..(Len(P) - k) : todo[i] = P[k + i]
  <2>1. \A i \in (k + 1)..Len(P) : P[i] \in StoreSet
    BY <1>1, <1>2
  <2>2. /\ todo \in Seq(StoreSet)
        /\ Len(todo) = IF k + 1 <= Len(P) THEN Len(P) - (k + 1) + 1 ELSE 0
        /\ \A i \in 1..(Len(P) - (k + 1) + 1) : todo[i] = P[(k + 1) + i - 1]
    BY <1>1, <2>1, SubSeqProperties
  <2>3. Len(P) - (k + 1) + 1 = Len(P) - k /\ \A i \in Int : (k + 1) + i - 1 = k + i
    BY <1>1
  <2>4. Len(todo) = Len(P) - k
    BY <1>1, <2>2, <2>3
  <2>5. \A i \in 1..(Len(P) - k) : todo[i] = P[k + i]
    BY <2>2, <2>3
  <2> QED  BY <2>2, <2>4, <2>5
<1>4. todo # <<>>
  <2>1. Len(todo) >= 1
    BY <1>1, <1>3
  <2>2. Len(<<>>) = 0
    BY EmptySeq
  <2>3. ASSUME todo = <<>> PROVE FALSE
    <3>1. Len(todo) = 0
      BY <2>2, <2>3, Zenon
    <3> QED  BY <2>1, <3>1
  <2> QED  BY <2>3
<1>5. Head(todo) = P[k + 1]
  <2>1. Head(todo) = todo[1]
    BY <1>3, <1>4
  <2>2. 1 \in 1..(Len(P) - k)
    BY <1>1
  <2> QED  BY <1>3, <2>1, <2>2
<1>6. P[k + 1] \in StoreSet
  BY <1>1, <1>2
<1>7. /\ Tail(todo) \in Seq(StoreSet) /\ Len(Tail(todo)) = Len(P) - k - 1
      /\ \A i \in 1..(Len(P) - k - 1) : Tail(todo)[i] = P[k + 1 + i]
  <2>1. /\ Tail(todo) \in Seq(StoreSet) /\ Len(Tail(todo)) = Len(P) - k - 1
        /\ \A i \in 1..(Len(P) - k - 1) : Tail(todo)[i] = todo[i + 1]
    BY <1>3, <1>4, HeadTailProperties
  <2>2. \A i \in 1..(Len(P) - k - 1) : i + 1 \in 1..(Len(P) - k) /\ k + (i + 1) = k + 1 + i
    BY <1>1
  <2> QED  BY <1>3, <2>1, <2>2
<1>8. CASE k + 1 = Len(P)
  <2>1. Tail(todo) = <<>>
    BY <1>1, <1>7, <1>8, EmptySeq
  <2>2. SubSeq(P, k + 2, Len(P)) = <<>>
    BY <1>1, <1>8, SubSeqEmpty
  <2> QED  BY <1>4, <1>5, <1>6, <2>1, <2>2
<1>9. CASE k + 1 # Len(P)
  <2>1. \A i \in (k + 2)..Len(P) : P[i] \in StoreSet
    BY <1>1, <1>2
  <2>2. /\ SubSeq(P, k + 2, Len(P)) \in Seq(StoreSet)
        /\ Len(SubSeq(P, k + 2, Len(P))) = IF k + 2 <= Len(P) THEN Len(P) - (k + 2) + 1 ELSE 0
        /\ \A i \in 1..(Len(P) - (k + 2) + 1) : SubSeq(P, k + 2, Len(P))[i] = P[(k + 2) + i - 1]
    BY <1>1, <2>1, SubSeqProperties
  <2>3. k + 2 <= Len(P) /\ Len(P) - (k + 2) + 1 = Len(P) - k - 1
        /\ \A i \in Int : (k + 2) + i - 1 = k + 1 + i
    BY <1>1, <1>9
  <2>4. /\ Len(SubSeq(P, k + 2, Len(P))) = Len(P) - k - 1
        /\ \A i \in 1..(Len(P) - k - 1) : SubSeq(P, k + 2, Len(P))[i] = P[k + 1 + i]
    BY <2>2, <2>3
  <2>5. Tail(todo) = SubSeq(P, k + 2, Len(P))
    BY <1>7, <2>2, <2>4, SeqEqual
  <2> QED  BY <1>4, <1>5, <1>6, <1>9, <2>5
<1> QED  BY <1>8, <1>9

-----------------------------------------------------------------------------
(* The read task makes one store. *)

(* All programs begin with the four zeroes, and have their length.          *)
LEMMA ProgramIs ==
  ASSUME NEW p \in Programs, NEW e \in Nat
  PROVE  LET P == Program(p, e) IN
         /\ P \in Seq(StoreSet) /\ Len(P) \in 4..10
         /\ P[1] = Set("latitude", 0) /\ P[2] = Set("longitude", 0)
         /\ P[3] = Set("altitudeMSL", 0) /\ P[4] = Set("speed", 0)
         /\ p = "ubx" => Len(P) = 9 /\ receiver = "ubx"
         /\ p = "gga" => Len(P) = 10 /\ receiver # "ubx"
         /\ p = "nofix" => Len(P) = 5
         /\ p = "short" => Len(P) = 4 /\ receiver # "ubx" /\ receiver # "nmea"
<1> HIDE DEF StoreSet
<1>1. CASE p = "ubx"
  <2>1. Program(p, e) = Program("ubx", e)
    BY <1>1
  <2> DEFINE P == Program("ubx", e)
  <2>2. /\ P \in Seq(StoreSet) /\ Len(P) = 9
        /\ P[1] = Set("latitude", 0) /\ P[2] = Set("longitude", 0)
        /\ P[3] = Set("altitudeMSL", 0) /\ P[4] = Set("speed", 0)
    <3>1. LET Q == Program("ubx", e) IN
          /\ Q \in Seq(StoreSet) /\ Len(Q) = 9
          /\ Q[1] = Set("latitude", 0) /\ Q[2] = Set("longitude", 0)
          /\ Q[3] = Set("altitudeMSL", 0) /\ Q[4] = Set("speed", 0)
          /\ Q[5] = Set("latitude", -e) /\ Q[6] = Set("longitude", -e)
          /\ Q[7] = Set("altitudeMSL", 1000 * e) /\ Q[8] = Set("speed", e)
          /\ Q[9] = Active(TRUE)
      BY ProgramUbx, Zenon
    <3> QED  BY <3>1, Zenon
  <2> HIDE DEF P
  <2>3. receiver = "ubx"
    BY <1>1 DEF Programs
  <2>4. 9 \in 4..10
    OBVIOUS
  <2> QED  BY <1>1, <2>1, <2>2, <2>3, <2>4 DEF P
<1>2. CASE p = "gga"
  <2>1. Program(p, e) = Program("gga", e)
    BY <1>2
  <2> DEFINE P == Program("gga", e)
  <2>2. /\ P \in Seq(StoreSet) /\ Len(P) = 10
        /\ P[1] = Set("latitude", 0) /\ P[2] = Set("longitude", 0)
        /\ P[3] = Set("altitudeMSL", 0) /\ P[4] = Set("speed", 0)
    BY ProgramGga
  <2> HIDE DEF P
  <2>3. receiver # "ubx"
    BY <1>2 DEF Programs
  <2>4. 10 \in 4..10
    OBVIOUS
  <2> QED  BY <1>2, <2>1, <2>2, <2>3, <2>4 DEF P
<1>3. CASE p = "nofix"
  <2>1. Program(p, e) = Program("nofix", e)
    BY <1>3
  <2> DEFINE P == Program("nofix", e)
  <2>2. /\ P \in Seq(StoreSet) /\ Len(P) = 5
        /\ P[1] = Set("latitude", 0) /\ P[2] = Set("longitude", 0)
        /\ P[3] = Set("altitudeMSL", 0) /\ P[4] = Set("speed", 0)
    <3>1. 1 \in 1..4 /\ 2 \in 1..4 /\ 3 \in 1..4 /\ 4 \in 1..4
      OBVIOUS
    <3> QED  BY <3>1, ProgramShort, MemsetIs
  <2> HIDE DEF P
  <2>4. 5 \in 4..10
    OBVIOUS
  <2> QED  BY <1>3, <2>1, <2>2, <2>4 DEF P
<1>4. CASE p = "short"
  <2>1. Program(p, e) = Program("short", e)
    BY <1>4
  <2> DEFINE P == Program("short", e)
  <2>2. /\ P \in Seq(StoreSet) /\ Len(P) = 4
        /\ P[1] = Set("latitude", 0) /\ P[2] = Set("longitude", 0)
        /\ P[3] = Set("altitudeMSL", 0) /\ P[4] = Set("speed", 0)
    BY ProgramShort, MemsetIs
  <2> HIDE DEF P
  <2>3. receiver # "ubx" /\ receiver # "nmea"
    BY <1>4 DEF Programs
  <2>4. 4 \in 4..10
    OBVIOUS
  <2> QED  BY <1>4, <2>1, <2>2, <2>3, <2>4 DEF P
<1>5. p = "ubx" \/ p = "gga" \/ p = "nofix" \/ p = "short"
  BY DEF Programs
<1> QED  BY <1>1, <1>2, <1>3, <1>4, <1>5

(* What a store does to the position. *)
LEMMA Effects ==
  ASSUME Store, gps_data \in [FieldNames -> Int]
  PROVE  /\ \A f \in FieldNames, v \in Int : Head(todo) = Set(f, v) =>
              /\ gps_pos_active' = gps_pos_active /\ gps_data' \in [FieldNames -> Int]
              /\ gps_data'[f] = v /\ \A g \in FieldNames \ {f} : gps_data'[g] = gps_data[g]
         /\ \A f \in FieldNames : Head(todo) = Negate(f) =>
              /\ gps_pos_active' = gps_pos_active /\ gps_data' \in [FieldNames -> Int]
              /\ gps_data'[f] = -gps_data[f]
              /\ \A g \in FieldNames \ {f} : gps_data'[g] = gps_data[g]
         /\ \A b \in BOOLEAN : Head(todo) = Active(b) =>
              gps_pos_active' = b /\ gps_data' = gps_data
<1>1. ASSUME NEW f \in FieldNames, NEW v \in Int, Head(todo) = Set(f, v)
      PROVE  gps_pos_active' = gps_pos_active /\ gps_data' = [gps_data EXCEPT ![f] = v]
  BY <1>1 DEF Store, Set
<1>2. ASSUME NEW f \in FieldNames, Head(todo) = Negate(f)
      PROVE  gps_pos_active' = gps_pos_active /\ gps_data' = [gps_data EXCEPT ![f] = -gps_data[f]]
  BY <1>2 DEF Store, Negate
<1>3. ASSUME NEW b \in BOOLEAN, Head(todo) = Active(b)
      PROVE  gps_pos_active' = b /\ gps_data' = gps_data
  BY <1>3 DEF Store, Active
<1>4. \A f \in FieldNames : gps_data[f] \in Int /\ -gps_data[f] \in Int
  OBVIOUS
<1> HIDE DEF FieldNames
<1>5. \A f \in FieldNames, v \in Int :
        LET d == [gps_data EXCEPT ![f] = v] IN
          /\ d \in [FieldNames -> Int] /\ d[f] = v
          /\ \A g \in FieldNames \ {f} : d[g] = gps_data[g]
  OBVIOUS
<1> QED  BY <1>1, <1>2, <1>3, <1>4, <1>5

(* One of the four zeroes. *)
LEMMA WipeStep ==
  ASSUME IInv, Store, NEW k \in 0..3, Wiped(k),
         Head(todo) = IF k = 0 THEN Set("latitude", 0) ELSE IF k = 1 THEN Set("longitude", 0)
                      ELSE IF k = 2 THEN Set("altitudeMSL", 0) ELSE Set("speed", 0)
  PROVE  /\ Wiped(k + 1)' /\ OneEpoch(gps_data)' /\ gps_pos_active' = gps_pos_active
         /\ gps_data' \in [FieldNames -> Int]
<1>1. PICK f \in FieldNames :
        /\ Head(todo) = Set(f, 0)
        /\ f = IF k = 0 THEN "latitude" ELSE IF k = 1 THEN "longitude"
               ELSE IF k = 2 THEN "altitudeMSL" ELSE "speed"
  BY DEF FieldNames
<1>2. /\ gps_data' \in [FieldNames -> Int] /\ gps_data'[f] = 0
      /\ \A g \in FieldNames \ {f} : gps_data'[g] = gps_data[g]
      /\ gps_pos_active' = gps_pos_active
  BY <1>1, Effects DEF IInv, Types
<1>3. Wiped(k + 1)'
  BY <1>1, <1>2 DEF Wiped, FieldNames
<1>4. receiver' = receiver /\ epoch' = epoch
  BY DEF Store
<1>5. OneEpoch(gps_data)'
  <2>1. PICK e \in 0..epoch : \A g \in Known : gps_data[g] \in {0, Measured(e)[g], -Measured(e)[g]}
    BY DEF IInv, Consistent, OneEpoch
  <2>2. Known \subseteq FieldNames
    BY Fields DEF Known, FieldNames
  <2>3. \A g \in Known : gps_data'[g] \in {0, Measured(e)[g], -Measured(e)[g]}
    BY <1>2, <2>1, <2>2
  <2>4. Known' = Known
    BY <1>4 DEF Known
  <2> QED  BY <1>4, <2>3, <2>4 DEF OneEpoch
<1> QED  BY <1>2, <1>3, <1>5

(* One store behind the zeroes of a UBX position. *)
LEMMA FillUbxStep ==
  ASSUME IInv, Store, receiver = "ubx", NEW e \in 1..epoch, NEW k \in 4..8,
         Filled("ubx", e, k), Head(todo) = Program("ubx", e)[k + 1]
  PROVE  /\ Filled("ubx", e, k + 1)' /\ gps_data' \in [FieldNames -> Int]
         /\ IF k = 8 THEN gps_pos_active' = TRUE ELSE gps_pos_active' = gps_pos_active
<1>1. e \in Nat /\ gps_data \in [FieldNames -> Int]
  BY DEF IInv, Types
<1>2. -e \in Int /\ 1000 * e \in Int /\ 10 * e \in Int /\ e \in Int
  BY <1>1
<1>3. {"latitude", "longitude", "altitudeMSL", "speed"} = FieldNames
  BY DEF FieldNames
<1> DEFINE P == Program("ubx", e)
<1>p. /\ P[5] = Set("latitude", -e)
      /\ P[6] = Set("longitude", -e)
      /\ P[7] = Set("altitudeMSL", 1000 * e)
      /\ P[8] = Set("speed", e)
      /\ P[9] = Active(TRUE)
  <2>1. LET Q == Program("ubx", e) IN
        /\ Q \in Seq(StoreSet) /\ Len(Q) = 9
        /\ Q[1] = Set("latitude", 0) /\ Q[2] = Set("longitude", 0)
        /\ Q[3] = Set("altitudeMSL", 0) /\ Q[4] = Set("speed", 0)
        /\ Q[5] = Set("latitude", -e) /\ Q[6] = Set("longitude", -e)
        /\ Q[7] = Set("altitudeMSL", 1000 * e) /\ Q[8] = Set("speed", e)
        /\ Q[9] = Active(TRUE)
    BY <1>1, ProgramUbx, Zenon
  <2> QED  BY <2>1, Zenon DEF P
<1> HIDE DEF P
<1>4. CASE k = 4
  <2>0. k + 1 = 5
    BY <1>4
  <2>1. Head(todo) = Set("latitude", -e)
    BY <1>p, <2>0 DEF P
  <2>2. /\ gps_pos_active' = gps_pos_active /\ gps_data' \in [FieldNames -> Int]
        /\ gps_data'["latitude"] = -e
        /\ \A g \in FieldNames \ {"latitude"} : gps_data'[g] = gps_data[g]
    BY <1>1, <1>2, <1>3, <2>1, Effects
  <2> QED  BY <1>1, <1>2, <1>3, <1>4, <2>2 DEF Filled
<1>5. CASE k = 5
  <2>0. k + 1 = 6
    BY <1>5
  <2>1. Head(todo) = Set("longitude", -e)
    BY <1>p, <2>0 DEF P
  <2>2. /\ gps_pos_active' = gps_pos_active /\ gps_data' \in [FieldNames -> Int]
        /\ gps_data'["longitude"] = -e
        /\ \A g \in FieldNames \ {"longitude"} : gps_data'[g] = gps_data[g]
    BY <1>1, <1>2, <1>3, <2>1, Effects
  <2> QED  BY <1>1, <1>2, <1>3, <1>5, <2>2 DEF Filled
<1>6. CASE k = 6
  <2>0. k + 1 = 7
    BY <1>6
  <2>1. Head(todo) = Set("altitudeMSL", 1000 * e)
    BY <1>p, <2>0 DEF P
  <2>2. /\ gps_pos_active' = gps_pos_active /\ gps_data' \in [FieldNames -> Int]
        /\ gps_data'["altitudeMSL"] = 1000 * e
        /\ \A g \in FieldNames \ {"altitudeMSL"} : gps_data'[g] = gps_data[g]
    BY <1>1, <1>2, <1>3, <2>1, Effects
  <2> QED  BY <1>1, <1>2, <1>3, <1>6, <2>2 DEF Filled
<1>7. CASE k = 7
  <2>0. k + 1 = 8
    BY <1>7
  <2>1. Head(todo) = Set("speed", e)
    BY <1>p, <2>0 DEF P
  <2>2. /\ gps_pos_active' = gps_pos_active /\ gps_data' \in [FieldNames -> Int]
        /\ gps_data'["speed"] = e
        /\ \A g \in FieldNames \ {"speed"} : gps_data'[g] = gps_data[g]
    BY <1>1, <1>2, <1>3, <2>1, Effects
  <2> QED  BY <1>1, <1>2, <1>3, <1>7, <2>2 DEF Filled
<1>8. CASE k = 8
  <2>0. k + 1 = 9
    BY <1>8
  <2>1. Head(todo) = Active(TRUE)
    BY <1>p, <2>0 DEF P
  <2>2. gps_pos_active' = TRUE /\ gps_data' = gps_data
    BY <1>1, <2>1, Effects
  <2> QED  BY <1>1, <1>2, <1>3, <1>8, <2>2 DEF Filled
<1>k. k = 4 \/ k = 5 \/ k = 6 \/ k = 7 \/ k = 8
  OBVIOUS
<1> QED  BY <1>k, <1>4, <1>5, <1>6, <1>7, <1>8, Zenon

(* One store behind the zeroes of a GGA line. *)
LEMMA FillGgaStep ==
  ASSUME IInv, Store, receiver # "ubx", NEW e \in 1..epoch, NEW k \in 4..9,
         Filled("gga", e, k), Head(todo) = Program("gga", e)[k + 1]
  PROVE  /\ Filled("gga", e, k + 1)' /\ gps_data' \in [FieldNames -> Int]
         /\ IF k = 9 THEN gps_pos_active' = TRUE ELSE gps_pos_active' = gps_pos_active
<1>1. e \in Nat /\ gps_data \in [FieldNames -> Int]
  BY DEF IInv, Types
<1>2. -e \in Int /\ 1000 * e \in Int /\ 10 * e \in Int /\ e \in Int
  BY <1>1
<1>3. {"latitude", "longitude", "altitudeMSL", "speed"} = FieldNames
  BY DEF FieldNames
<1> DEFINE P == Program("gga", e)
<1>p. /\ P[5] = Set("latitude", e)
      /\ P[6] = Negate("latitude")
      /\ P[7] = Set("longitude", e)
      /\ P[8] = Negate("longitude")
      /\ P[9] = Set("altitudeMSL", 10 * e)
      /\ P[10] = Active(TRUE)
  <2>1. LET Q == Program("gga", e) IN
        /\ Q \in Seq(StoreSet) /\ Len(Q) = 10
        /\ Q[1] = Set("latitude", 0) /\ Q[2] = Set("longitude", 0)
        /\ Q[3] = Set("altitudeMSL", 0) /\ Q[4] = Set("speed", 0)
        /\ Q[5] = Set("latitude", e) /\ Q[6] = Negate("latitude")
        /\ Q[7] = Set("longitude", e) /\ Q[8] = Negate("longitude")
        /\ Q[9] = Set("altitudeMSL", 10 * e) /\ Q[10] = Active(TRUE)
    BY <1>1, ProgramGga, Zenon
  <2> QED  BY <2>1, Zenon DEF P
<1> HIDE DEF P
<1>4. CASE k = 4
  <2>0. k + 1 = 5
    BY <1>4
  <2>1. Head(todo) = Set("latitude", e)
    BY <1>p, <2>0 DEF P
  <2>2. /\ gps_pos_active' = gps_pos_active /\ gps_data' \in [FieldNames -> Int]
        /\ gps_data'["latitude"] = e
        /\ \A g \in FieldNames \ {"latitude"} : gps_data'[g] = gps_data[g]
    BY <1>1, <1>2, <1>3, <2>1, Effects
  <2> QED  BY <1>1, <1>2, <1>3, <1>4, <2>2 DEF Filled
<1>5. CASE k = 5
  <2>0. k + 1 = 6
    BY <1>5
  <2>1. Head(todo) = Negate("latitude")
    BY <1>p, <2>0 DEF P
  <2>2. /\ gps_pos_active' = gps_pos_active /\ gps_data' \in [FieldNames -> Int]
        /\ gps_data'["latitude"] = -gps_data["latitude"]
        /\ \A g \in FieldNames \ {"latitude"} : gps_data'[g] = gps_data[g]
    BY <1>1, <1>3, <2>1, Effects
  <2> QED  BY <1>1, <1>2, <1>3, <1>5, <2>2 DEF Filled
<1>6. CASE k = 6
  <2>0. k + 1 = 7
    BY <1>6
  <2>1. Head(todo) = Set("longitude", e)
    BY <1>p, <2>0 DEF P
  <2>2. /\ gps_pos_active' = gps_pos_active /\ gps_data' \in [FieldNames -> Int]
        /\ gps_data'["longitude"] = e
        /\ \A g \in FieldNames \ {"longitude"} : gps_data'[g] = gps_data[g]
    BY <1>1, <1>2, <1>3, <2>1, Effects
  <2> QED  BY <1>1, <1>2, <1>3, <1>6, <2>2 DEF Filled
<1>7. CASE k = 7
  <2>0. k + 1 = 8
    BY <1>7
  <2>1. Head(todo) = Negate("longitude")
    BY <1>p, <2>0 DEF P
  <2>2. /\ gps_pos_active' = gps_pos_active /\ gps_data' \in [FieldNames -> Int]
        /\ gps_data'["longitude"] = -gps_data["longitude"]
        /\ \A g \in FieldNames \ {"longitude"} : gps_data'[g] = gps_data[g]
    BY <1>1, <1>3, <2>1, Effects
  <2> QED  BY <1>1, <1>2, <1>3, <1>7, <2>2 DEF Filled
<1>8. CASE k = 8
  <2>0. k + 1 = 9
    BY <1>8
  <2>1. Head(todo) = Set("altitudeMSL", 10 * e)
    BY <1>p, <2>0 DEF P
  <2>2. /\ gps_pos_active' = gps_pos_active /\ gps_data' \in [FieldNames -> Int]
        /\ gps_data'["altitudeMSL"] = 10 * e
        /\ \A g \in FieldNames \ {"altitudeMSL"} : gps_data'[g] = gps_data[g]
    BY <1>1, <1>2, <1>3, <2>1, Effects
  <2> QED  BY <1>1, <1>2, <1>3, <1>8, <2>2 DEF Filled
<1>9. CASE k = 9
  <2>0. k + 1 = 10
    BY <1>9
  <2>1. Head(todo) = Active(TRUE)
    BY <1>p, <2>0 DEF P
  <2>2. gps_pos_active' = TRUE /\ gps_data' = gps_data
    BY <1>1, <2>1, Effects
  <2> QED  BY <1>1, <1>2, <1>3, <1>9, <2>2 DEF Filled
<1>k. k = 4 \/ k = 5 \/ k = 6 \/ k = 7 \/ k = 8 \/ k = 9
  OBVIOUS
<1> QED  BY <1>k, <1>4, <1>5, <1>6, <1>7, <1>8, <1>9, Zenon

(* The fields a UBX program leaves behind it are of its epoch.              *)
LEMMA UbxOneEpoch ==
  ASSUME receiver = "ubx", NEW e \in 1..epoch, NEW k \in 4..9, epoch \in Nat,
         Store, Filled("ubx", e, k)'
  PROVE  /\ OneEpoch(gps_data)'
         /\ k = 9 => Whole(gps_data', e)
<1>1. receiver' = receiver /\ epoch' = epoch
  BY DEF Store
<1>2. Known = FieldNames /\ Known' = FieldNames
  BY <1>1, Fields DEF Known
<1>3. /\ gps_data'["latitude"] \in {0, -e} /\ gps_data'["longitude"] \in {0, -e}
      /\ gps_data'["altitudeMSL"] \in {0, 1000 * e} /\ gps_data'["speed"] \in {0, e}
  BY DEF Filled
<1>4. /\ Measured(e)["latitude"] = -e /\ Measured(e)["longitude"] = -e
      /\ Measured(e)["altitudeMSL"] = 1000 * e /\ Measured(e)["speed"] = e
  BY DEF Measured
<1>5. e \in 0..epoch'
  BY <1>1
<1>6. \A f \in FieldNames : gps_data'[f] \in {0, Measured(e)[f], -Measured(e)[f]}
  BY <1>3, <1>4 DEF FieldNames
<1>7. OneEpoch(gps_data)'
  BY <1>2, <1>5, <1>6 DEF OneEpoch
<1>8. ASSUME k = 9 PROVE Whole(gps_data', e)
  <2>1. /\ gps_data'["latitude"] = -e /\ gps_data'["longitude"] = -e
        /\ gps_data'["altitudeMSL"] = 1000 * e /\ gps_data'["speed"] = e
    BY <1>8 DEF Filled
  <2> QED  BY <1>2, <1>4, <2>1 DEF Whole, FieldNames
<1> QED  BY <1>7, <1>8

(* The coordinates a GGA program leaves behind it are of its epoch.         *)
LEMMA GgaOneEpoch ==
  ASSUME receiver # "ubx", NEW e \in 1..epoch, NEW k \in 4..10, epoch \in Nat,
         Store, Filled("gga", e, k)'
  PROVE  /\ OneEpoch(gps_data)'
         /\ k = 10 => Whole(gps_data', e)
<1>1. receiver' = receiver /\ epoch' = epoch
  BY DEF Store
<1>2. Known = {"latitude", "longitude"} /\ Known' = {"latitude", "longitude"}
  BY <1>1 DEF Known
<1>3. gps_data'["latitude"] \in {0, e, -e} /\ gps_data'["longitude"] \in {0, e, -e}
  BY DEF Filled
<1>4. /\ Measured(e)["latitude"] = -e /\ Measured(e)["longitude"] = -e /\ e = -(-e)
  BY DEF Measured
<1>5. e \in 0..epoch'
  BY <1>1
<1>6. \A f \in {"latitude", "longitude"} :
        gps_data'[f] \in {0, Measured(e)[f], -Measured(e)[f]}
  BY <1>3, <1>4
<1>7. OneEpoch(gps_data)'
  BY <1>2, <1>5, <1>6 DEF OneEpoch
<1>8. ASSUME k = 10 PROVE Whole(gps_data', e)
  <2>1. gps_data'["latitude"] = -e /\ gps_data'["longitude"] = -e
    BY <1>8 DEF Filled
  <2> QED  BY <1>2, <1>4, <2>1 DEF Whole
<1> QED  BY <1>7, <1>8

(* A store leaves the fields as the program prescribes them at its place.   *)
LEMMA Stored ==
  ASSUME IInv, Store, NEW p \in Programs, NEW e \in 1..epoch,
         NEW k \in 0..(Len(Program(p, e)) - 1), After(p, e, k),
         Head(todo) = Program(p, e)[k + 1]
  PROVE  /\ gps_data' \in [FieldNames -> Int] /\ gps_pos_active' \in BOOLEAN
         /\ After(p, e, k + 1)' /\ OneEpoch(gps_data)'
         /\ k + 1 = Len(Program(p, e)) /\ receiver # "worn" /\ gps_pos_active'
              => Whole(gps_data', e)
<1>0. epoch \in Nat /\ e \in Nat /\ receiver \in {"ubx", "nmea", "worn"}
  BY PosAssumption DEF IInv, Types
<1>a. gps_pos_active \in BOOLEAN /\ gps_data \in [FieldNames -> Int] /\ OneEpoch(gps_data)
  BY DEF IInv, Types, Consistent
<1> DEFINE P == Program(p, e)
<1>1. /\ P \in Seq(StoreSet) /\ Len(P) \in 4..10
      /\ P[1] = Set("latitude", 0) /\ P[2] = Set("longitude", 0)
      /\ P[3] = Set("altitudeMSL", 0) /\ P[4] = Set("speed", 0)
      /\ p = "ubx" => Len(P) = 9 /\ receiver = "ubx"
      /\ p = "gga" => Len(P) = 10 /\ receiver # "ubx"
      /\ p = "nofix" => Len(P) = 5
      /\ p = "short" => Len(P) = 4 /\ receiver # "ubx" /\ receiver # "nmea"
  <2>1. LET Q == Program(p, e) IN
         /\ Q \in Seq(StoreSet) /\ Len(Q) \in 4..10
         /\ Q[1] = Set("latitude", 0) /\ Q[2] = Set("longitude", 0)
         /\ Q[3] = Set("altitudeMSL", 0) /\ Q[4] = Set("speed", 0)
         /\ p = "ubx" => Len(Q) = 9 /\ receiver = "ubx"
         /\ p = "gga" => Len(Q) = 10 /\ receiver # "ubx"
         /\ p = "nofix" => Len(Q) = 5
         /\ p = "short" => Len(Q) = 4 /\ receiver # "ubx" /\ receiver # "nmea"
    BY <1>0, ProgramIs, Zenon
  <2> QED  BY <2>1, Zenon DEF P
<1>2. k \in 0..(Len(P) - 1) /\ Head(todo) = P[k + 1]
  BY DEF P
<1>b. p \in {"ubx", "gga", "nofix", "short"}
  BY DEF Programs
<1>c. ASSUME P = Program(p, e) PROVE Len(Program(p, e)) = Len(P)
  BY <1>c
<1> HIDE DEF P, StoreSet
<1> DEFINE n == Len(P)
<1>n. n \in 4..10 /\ k \in 0..(n - 1)
  BY <1>1, <1>2
<1>u. p = "ubx" => n = 9 /\ receiver = "ubx"
  BY <1>1, Zenon
<1>g. p = "gga" => n = 10 /\ receiver # "ubx"
  BY <1>1, Zenon
<1>f. p = "nofix" => n = 5
  BY <1>1, Zenon
<1>s. p = "short" => n = 4 /\ receiver # "ubx" /\ receiver # "nmea"
  BY <1>1, Zenon
<1> HIDE DEF n
<1>3. CASE k <= 3
  <2>1. k \in 0..3
    BY <1>1, <1>2, <1>3
  <2>2. Wiped(k)
    BY <2>1 DEF After
  <2>3. Head(todo) = IF k = 0 THEN Set("latitude", 0) ELSE IF k = 1 THEN Set("longitude", 0)
                     ELSE IF k = 2 THEN Set("altitudeMSL", 0) ELSE Set("speed", 0)
    <3>1. k = 0 \/ k = 1 \/ k = 2 \/ k = 3
      BY <2>1
    <3> QED  BY <1>1, <1>2, <3>1
  <2>4. /\ Wiped(k + 1)' /\ OneEpoch(gps_data)' /\ gps_pos_active' = gps_pos_active
        /\ gps_data' \in [FieldNames -> Int]
    BY <2>1, <2>2, <2>3, WipeStep
  <2>5. After(p, e, k + 1)'
    BY <2>1, <2>4 DEF After
  <2>6. ASSUME k + 1 = Len(P), receiver # "worn" PROVE FALSE
    <3>1. n <= 4
      BY <2>1, <2>6 DEF n
    <3>2. p # "ubx" /\ p # "gga" /\ p # "nofix"
      BY <3>1, <1>u, <1>g, <1>f
    <3> QED  BY <1>0, <1>b, <1>s, <2>6, <3>2
  <2> QED  BY <1>a, <1>c, <2>4, <2>5, <2>6 DEF P, n
<1>4. CASE k >= 4 /\ p = "ubx"
  <2>1. k \in 4..8 /\ receiver = "ubx" /\ k + 1 \in 4..9 /\ n = 9 /\ ~(k + 1 <= 4)
    BY <1>n, <1>u, <1>4
  <2>2. Filled("ubx", e, k)
    BY <1>4, <2>1 DEF After, Wiped, Filled
  <2>3. /\ Filled("ubx", e, k + 1)' /\ gps_data' \in [FieldNames -> Int]
        /\ IF k = 8 THEN gps_pos_active' = TRUE ELSE gps_pos_active' = gps_pos_active
    <3>1. Head(todo) = Program("ubx", e)[k + 1]
      BY <1>4
    <3> QED  BY <2>1, <2>2, <3>1, FillUbxStep
  <2>4. /\ OneEpoch(gps_data)'
        /\ k + 1 = 9 => Whole(gps_data', e)
    BY <1>0, <2>1, <2>3, UbxOneEpoch
  <2>5. After(p, e, k + 1)'
    BY <1>4, <2>1, <2>3 DEF After
  <2>6. gps_pos_active' \in BOOLEAN
    BY <1>a, <2>3
  <2>7. ASSUME k + 1 = Len(Program(p, e)) PROVE Whole(gps_data', e)
    BY <2>1, <2>4, <2>7 DEF P, n
  <2> QED  BY <2>3, <2>4, <2>5, <2>6, <2>7, Zenon
<1>5. CASE k >= 4 /\ p = "gga"
  <2>1. k \in 4..9 /\ receiver # "ubx" /\ k + 1 \in 4..10 /\ n = 10 /\ ~(k + 1 <= 4)
    BY <1>n, <1>g, <1>5
  <2>2. Filled("gga", e, k)
    BY <1>5, <2>1 DEF After, Wiped, Filled
  <2>3. /\ Filled("gga", e, k + 1)' /\ gps_data' \in [FieldNames -> Int]
        /\ IF k = 9 THEN gps_pos_active' = TRUE ELSE gps_pos_active' = gps_pos_active
    <3>1. Head(todo) = Program("gga", e)[k + 1]
      BY <1>5
    <3> QED  BY <2>1, <2>2, <3>1, FillGgaStep
  <2>4. /\ OneEpoch(gps_data)'
        /\ k + 1 = 10 => Whole(gps_data', e)
    BY <1>0, <2>1, <2>3, GgaOneEpoch
  <2>5. After(p, e, k + 1)'
    BY <1>5, <2>1, <2>3 DEF After
  <2>6. gps_pos_active' \in BOOLEAN
    BY <1>a, <2>3
  <2>7. ASSUME k + 1 = Len(Program(p, e)) PROVE Whole(gps_data', e)
    BY <2>1, <2>4, <2>7 DEF P, n
  <2> QED  BY <2>3, <2>4, <2>5, <2>6, <2>7, Zenon
<1>6. CASE k >= 4 /\ p = "nofix"
  <2>1. k = 4 /\ k + 1 = 5
    BY <1>n, <1>f, <1>6
  <2>2. Program("nofix", e)[5] = Active(FALSE)
    BY <1>0, ProgramShort
  <2>3. Head(todo) = Active(FALSE)
    BY <1>6, <2>1, <2>2
  <2>4. gps_pos_active' = FALSE /\ gps_data' = gps_data
    BY <1>a, <2>3, Effects
  <2>5. receiver' = receiver /\ epoch' = epoch
    BY DEF Store
  <2>6. OneEpoch(gps_data)'
    BY <1>a, <2>4, <2>5 DEF OneEpoch, Known
  <2>7. After(p, e, k + 1)'
    BY <1>6, <2>1 DEF After, Filled
  <2> QED  BY <1>a, <2>4, <2>6, <2>7
<1>7. CASE k >= 4 /\ p = "short"
  BY <1>n, <1>s, <1>7
<1>8. k <= 3 \/ k >= 4
  BY <1>1, <1>2
<1> QED  BY <1>3, <1>4, <1>5, <1>6, <1>7, <1>8, <1>b, Zenon

(* A store preserves IInv. *)
LEMMA StoreIInv == IInv /\ Store => IInv'
<1> SUFFICES ASSUME IInv, Store PROVE IInv'
  OBVIOUS
<1>1. /\ receiver' = receiver /\ epoch' = epoch /\ uart' = uart /\ logged' = logged
      /\ last_nav_posllh' = last_nav_posllh /\ last_nav_status' = last_nav_status
      /\ last_nav_velned' = last_nav_velned /\ todo # <<>> /\ todo' = Tail(todo)
  BY DEF Store, navVars
<1>2. PICK p \in Programs, e \in 1..epoch : \E k \in 0..(Len(Program(p, e)) - 1) :
        /\ todo = SubSeq(Program(p, e), k + 1, Len(Program(p, e)))
        /\ After(p, e, k)
  BY <1>1 DEF IInv, Idle, Running
<1>3. PICK k \in 0..(Len(Program(p, e)) - 1) :
        /\ todo = SubSeq(Program(p, e), k + 1, Len(Program(p, e)))
        /\ After(p, e, k)
  BY <1>2
<1>4. epoch \in Nat /\ e \in Nat /\ e \in 1..epoch'
  BY <1>1, PosAssumption DEF IInv, Types
<1>5. Program(p, e) \in Seq(StoreSet) /\ Len(Program(p, e)) \in Nat
  <2>1. Program(p, e) \in Seq(StoreSet) /\ Len(Program(p, e)) \in 4..10
    BY <1>4, ProgramIs, Zenon
  <2> QED  BY <2>1
<1>6. /\ Head(todo) = Program(p, e)[k + 1]
      /\ todo' = SubSeq(Program(p, e), k + 2, Len(Program(p, e)))
      /\ k + 1 = Len(Program(p, e)) => todo' = <<>>
  BY <1>1, <1>3, <1>5, Advanced
<1>7. /\ gps_data' \in [FieldNames -> Int] /\ gps_pos_active' \in BOOLEAN
      /\ After(p, e, k + 1)' /\ OneEpoch(gps_data)'
      /\ k + 1 = Len(Program(p, e)) /\ receiver # "worn" /\ gps_pos_active'
           => Whole(gps_data', e)
  BY <1>3, <1>6, Stored
<1>8. Types'
  BY <1>1, <1>7 DEF IInv, Types
<1>9. Past'
  BY <1>1 DEF IInv, Past, Frame, Kinds, Shapes
<1>10. Idle' \/ Running'
  <2>1. CASE k + 1 = Len(Program(p, e))
    <3>1. Known' = Known
      BY <1>1 DEF Known
    <3>2. receiver' # "worn" /\ gps_pos_active' => Whole(gps_data, e)'
      BY <1>1, <1>7, <2>1, <3>1 DEF Whole
    <3> QED  BY <1>4, <1>6, <2>1, <3>2 DEF Idle
  <2>2. CASE k + 1 # Len(Program(p, e))
    <3>1. k + 1 \in 0..(Len(Program(p, e)) - 1) /\ (k + 1) + 1 = k + 2
      BY <1>5, <2>2
    <3>2. p \in Programs'
      BY <1>1 DEF Programs
    <3>3. todo' = SubSeq(Program(p, e), (k + 1) + 1, Len(Program(p, e)))
      BY <1>6, <3>1
    <3> HIDE DEF Program, After
    <3> QED  BY <1>4, <1>7, <3>1, <3>2, <3>3 DEF Running
  <2> QED  BY <2>1, <2>2
<1>11. Consistent'
  BY <1>1, <1>4, <1>7 DEF Consistent
<1>12. FieldsOfOneEpoch'
  BY <1>1 DEF IInv, FieldsOfOneEpoch, Known
<1> QED  BY <1>8, <1>9, <1>10, <1>11, <1>12 DEF IInv
-----------------------------------------------------------------------------
(* The other steps. *)

(* While a program runs there is a store to make.                           *)
LEMMA RunningHasStores ==
  ASSUME Types, Running
  PROVE  todo # <<>> /\ todo \in Seq(StoreSet)
<1>1. PICK p \in Programs, e \in 1..epoch : \E k \in 0..(Len(Program(p, e)) - 1) :
        todo = SubSeq(Program(p, e), k + 1, Len(Program(p, e)))
  BY DEF Running
<1>2. PICK k \in 0..(Len(Program(p, e)) - 1) :
        todo = SubSeq(Program(p, e), k + 1, Len(Program(p, e)))
  BY <1>1
<1>3. e \in Nat
  BY PosAssumption DEF Types
<1>4. Program(p, e) \in Seq(StoreSet)
  BY <1>3, ProgramIs, Zenon
<1> HIDE DEF StoreSet
<1>5. todo # <<>>
  BY <1>2, <1>4, Advanced
<1>6. Len(Program(p, e)) \in Nat /\ k + 1 \in 1..(Len(Program(p, e)) + 1)
  BY <1>4, LenProperties
<1>7. \A i \in 1..Len(Program(p, e)) : Program(p, e)[i] \in StoreSet
  BY <1>4, ElementOfSeq
<1>8. todo \in Seq(StoreSet)
  <2> DEFINE P == Program(p, e)
  <2>1. \A i \in (k + 1)..Len(P) : P[i] \in StoreSet
    BY <1>6, <1>7
  <2>2. P \in Seq(StoreSet) /\ k + 1 \in Int /\ Len(P) \in Int
    BY <1>4, <1>6
  <2> HIDE DEF P
  <2>3. SubSeq(P, k + 1, Len(P)) \in Seq(StoreSet)
    BY <2>1, <2>2, SubSeqProperties
  <2> QED  BY <1>2, <2>3 DEF P
<1> QED  BY <1>5, <1>8

(* A program that is about to start.                                        *)
LEMMA Started ==
  ASSUME NEW p \in Programs', NEW e \in 1..epoch', epoch' \in Nat, receiver' = receiver,
         todo' = Program(p, e)
  PROVE  Running'
<1>1. p \in Programs /\ e \in Nat
  BY DEF Programs
<1>2. Program(p, e) \in Seq(StoreSet) /\ Len(Program(p, e)) \in 4..10
  BY <1>1, ProgramIs, Zenon
<1> HIDE DEF StoreSet, Program
<1>3. SubSeq(Program(p, e), 0 + 1, Len(Program(p, e))) = Program(p, e)
  <2>1. SubSeq(Program(p, e), 1, Len(Program(p, e))) = Program(p, e)
    BY <1>2, SubSeqFull
  <2>2. 0 + 1 = 1
    OBVIOUS
  <2> QED  BY <2>1, <2>2, Zenon
<1>4. 0 \in 0..(Len(Program(p, e)) - 1)
  <2>1. \A n \in 4..10 : 0 \in 0..(n - 1)
    OBVIOUS
  <2> QED  BY <1>2, <2>1, Zenon
<1>5. After(p, e, 0)'
  BY DEF After, Wiped
<1> HIDE DEF After
<1> QED  BY <1>3, <1>4, <1>5 DEF Running

(* Three frames of one epoch start a program of that epoch.                 *)
LEMMA RecvPosIs ==
  ASSUME NEW pos \in Nat, NEW status \in [iTOW : Nat, fix : BOOLEAN], NEW velned \in Nat
  PROVE  \/ recv_pos(pos, status, velned) = <<>>
         \/ /\ status.iTOW = pos /\ velned = pos
            /\ recv_pos(pos, status, velned) \in {Program("ubx", pos), Program("nofix", pos)}
<1>1. CASE status.iTOW # pos \/ status.iTOW # velned
  BY <1>1 DEF recv_pos
<1>2. CASE status.iTOW = pos /\ velned = pos
  <2>1. CASE status.fix = TRUE
    BY <1>2, <2>1 DEF recv_pos, Program
  <2>2. CASE status.fix = FALSE
    BY <1>2, <2>2 DEF recv_pos, Program
  <2>3. status.fix \in BOOLEAN
    OBVIOUS
  <2> QED  BY <1>2, <2>1, <2>2, <2>3
<1> QED  BY <1>1, <1>2

(* A GGA line starts a program of its epoch.                                *)
LEMMA GgaStoresIs ==
  ASSUME NEW e \in Nat, NEW fix \in BOOLEAN
  PROVE  GgaStores(e, fix) \in {Program("gga", e), Program("nofix", e)}
<1>1. CASE fix = TRUE
  BY <1>1 DEF GgaStores, Program
<1>2. CASE fix = FALSE
  BY <1>2 DEF GgaStores, Program
<1> QED  BY <1>1, <1>2

(* Receiving a frame preserves IInv. *)
LEMMA ReceiveIInv == IInv /\ Receive => IInv'
<1> SUFFICES ASSUME IInv, Receive PROVE IInv'
  OBVIOUS
<1>1. PICK r \in uart : uart' = uart \ {r} /\ (ReceiveUbx(r) \/ ReceiveGga(r))
  BY DEF Receive
<1>2. /\ receiver' = receiver /\ epoch' = epoch /\ gps_data' = gps_data
      /\ gps_pos_active' = gps_pos_active /\ logged' = logged /\ todo = <<>>
  BY DEF Receive
<1>3. /\ r \in Frame /\ r.iTOW \in 1..epoch /\ epoch \in Nat
      /\ receiver \in {"ubx", "nmea", "worn"} /\ r.iTOW \in Nat
      /\ last_nav_posllh \in Nat /\ last_nav_velned \in Nat
      /\ last_nav_status \in [iTOW : Nat, fix : BOOLEAN] /\ last_nav_posllh <= epoch
  BY PosAssumption DEF IInv, Types, Past
<1>4. Idle
  <2>1. ~Running
    BY <1>2, RunningHasStores DEF IInv
  <2> QED  BY <2>1 DEF IInv
<1>5. ASSUME todo' = <<>> PROVE Idle'
  BY <1>2, <1>4, <1>5 DEF Idle, Whole, Known
<1>6. Programs' = Programs
  BY <1>2 DEF Programs
<1>7. /\ last_nav_posllh' \in Nat /\ last_nav_velned' \in Nat
      /\ last_nav_status' \in [iTOW : Nat, fix : BOOLEAN]
      /\ last_nav_posllh' <= epoch /\ (Idle' \/ Running')
  <2>1. CASE ReceiveUbx(r)
    <3>1. receiver = "ubx"
      BY <1>3, <2>1 DEF ReceiveUbx, Frame, Kinds
    <3>2. \/ /\ last_nav_posllh' = r.iTOW /\ last_nav_status' = last_nav_status
             /\ last_nav_velned' = last_nav_velned
          \/ /\ last_nav_status' = [iTOW |-> r.iTOW, fix |-> r.fix]
             /\ last_nav_posllh' = last_nav_posllh /\ last_nav_velned' = last_nav_velned
          \/ /\ last_nav_velned' = r.iTOW /\ last_nav_posllh' = last_nav_posllh
             /\ last_nav_status' = last_nav_status
      BY <2>1 DEF ReceiveUbx
    <3>3. r.fix \in BOOLEAN
      BY <1>3 DEF Frame
    <3>4. /\ last_nav_posllh' \in Nat /\ last_nav_velned' \in Nat
          /\ last_nav_status' \in [iTOW : Nat, fix : BOOLEAN]
          /\ last_nav_posllh' <= epoch
      BY <1>3, <3>2, <3>3
    <3>5. r.iTOW \in {last_nav_posllh', last_nav_status'.iTOW, last_nav_velned'}
      BY <3>2
    <3>6. todo' = recv_pos(last_nav_posllh', last_nav_status', last_nav_velned')
      BY <2>1 DEF ReceiveUbx
    <3>7. \/ todo' = <<>>
          \/ /\ last_nav_posllh' = r.iTOW
             /\ todo' \in {Program("ubx", r.iTOW), Program("nofix", r.iTOW)}
      BY <3>4, <3>5, <3>6, RecvPosIs
    <3>8. CASE todo' \in {Program("ubx", r.iTOW), Program("nofix", r.iTOW)}
      <4>1. PICK p \in {"ubx", "nofix"} : todo' = Program(p, r.iTOW)
        BY <3>8
      <4>2. p \in Programs'
        BY <1>6, <3>1 DEF Programs
      <4>3. Running'
        BY <1>2, <1>3, <4>1, <4>2, Started
      <4> QED  BY <3>4, <4>3
    <3> QED  BY <1>5, <3>4, <3>7, <3>8
  <2>2. CASE ReceiveGga(r)
    <3>1. receiver # "ubx"
      BY <1>3, <2>2 DEF ReceiveGga, Frame, Kinds
    <3>2. /\ last_nav_posllh' = last_nav_posllh /\ last_nav_status' = last_nav_status
          /\ last_nav_velned' = last_nav_velned
      BY <2>2 DEF ReceiveGga, navVars
    <3>3. r.fix \in BOOLEAN /\ (r.shape = "short" => receiver = "worn")
      BY <1>3 DEF Frame, Shapes
    <3>4. \/ r.shape = "short" /\ todo' = Program("short", r.iTOW)
          \/ todo' \in {Program("gga", r.iTOW), Program("nofix", r.iTOW)}
      <4>1. \/ r.shape = "short" /\ todo' = Memset
            \/ \E fix \in BOOLEAN : todo' = GgaStores(r.iTOW, fix)
        BY <2>2, <3>3 DEF ReceiveGga
      <4>2. Program("short", r.iTOW) = Memset
        BY <1>3, ProgramShort
      <4> QED  BY <1>3, <4>1, <4>2, GgaStoresIs
    <3>5. PICK p \in Programs : todo' = Program(p, r.iTOW)
      <4>1. {"gga", "nofix"} \subseteq Programs /\ (r.shape = "short" => "short" \in Programs)
        BY <1>3, <3>1, <3>3 DEF Programs
      <4> HIDE DEF Programs, Program
      <4> QED  BY <3>4, <4>1
    <3>6. Running'
      BY <1>2, <1>3, <1>6, <3>5, Started
    <3> QED  BY <1>3, <3>2, <3>6
  <2> QED  BY <1>1, <2>1, <2>2
<1>8. Types'
  BY <1>2 DEF IInv, Types
<1>9. Past'
  <2>1. uart' \subseteq Frame' /\ \A s \in uart' : s.iTOW \in 1..epoch'
    BY <1>1, <1>2 DEF IInv, Past, Frame, Kinds, Shapes
  <2> QED  BY <1>2, <1>7, <2>1 DEF Past
<1>10. Consistent' /\ FieldsOfOneEpoch'
  BY <1>2 DEF IInv, Consistent, OneEpoch, FieldsOfOneEpoch, Known
<1> QED  BY <1>7, <1>8, <1>9, <1>10 DEF IInv

(* A new epoch preserves IInv. *)
LEMMA MeasureIInv ==
  ASSUME IInv, NEW K \in SUBSET Kinds, NEW fix \in BOOLEAN, NEW shape \in Shapes,
         Measure(K, fix, shape)
  PROVE  IInv'
<1>1. /\ epoch' = epoch + 1 /\ epoch < MaxEpoch
      /\ uart' = uart \cup {[kind |-> k, iTOW |-> epoch', fix |-> fix, shape |-> shape] : k \in K}
      /\ receiver' = receiver /\ gps_data' = gps_data /\ gps_pos_active' = gps_pos_active
      /\ todo' = todo /\ logged' = logged
      /\ last_nav_posllh' = last_nav_posllh /\ last_nav_status' = last_nav_status
      /\ last_nav_velned' = last_nav_velned
  BY DEF Measure, navVars
<1>2. epoch \in Nat /\ epoch' \in 0..MaxEpoch /\ MaxEpoch \in Nat
  BY <1>1, PosAssumption DEF IInv, Types
<1>3. 1..epoch \subseteq 1..epoch' /\ 0..epoch \subseteq 0..epoch' /\ epoch' \in 1..epoch'
  BY <1>1, <1>2
<1>4. Types'
  BY <1>1, <1>2 DEF IInv, Types
<1>5. Past'
  <2>1. Frame' = Frame /\ uart \subseteq Frame /\ \A r \in uart : r.iTOW \in 1..epoch
    BY <1>1 DEF IInv, Past, Frame, Kinds, Shapes
  <2>2. ASSUME NEW k \in K
        PROVE  [kind |-> k, iTOW |-> epoch', fix |-> fix, shape |-> shape] \in Frame
    <3>1. k \in Kinds /\ epoch' \in Nat
      BY <1>2
    <3> QED  BY <3>1 DEF Frame
  <2>3. uart' \subseteq Frame' /\ \A r \in uart' : r.iTOW \in 1..epoch'
    BY <1>1, <1>3, <2>1, <2>2
  <2>4. last_nav_posllh <= epoch'
    BY <1>1, <1>2 DEF IInv, Past
  <2> QED  BY <1>1, <2>3, <2>4 DEF IInv, Past
<1>6. Known' = Known /\ Programs' = Programs
  BY <1>1 DEF Known, Programs
<1>7. Idle' \/ Running'
  <2>1. ASSUME Idle PROVE Idle'
    BY <1>1, <1>3, <1>6, <2>1 DEF Idle, Whole
  <2>2. ASSUME Running PROVE Running'
    <3>1. PICK p \in Programs, e \in 1..epoch : \E k \in 0..(Len(Program(p, e)) - 1) :
            /\ todo = SubSeq(Program(p, e), k + 1, Len(Program(p, e)))
            /\ After(p, e, k)
      BY <2>2 DEF Running
    <3>2. ASSUME NEW k, After(p, e, k) PROVE After(p, e, k)'
      BY <1>1, <3>2 DEF After, Wiped, Filled
    <3> HIDE DEF Program, After
    <3> QED  BY <1>1, <1>3, <1>6, <3>1, <3>2 DEF Running
  <2> QED  BY <2>1, <2>2 DEF IInv
<1>8. Consistent'
  <2>1. OneEpoch(gps_data)'
    BY <1>1, <1>3, <1>6 DEF IInv, Consistent, OneEpoch
  <2>2. epoch' >= 1
    BY <1>1, <1>2
  <2> QED  BY <2>1, <2>2 DEF Consistent
<1>9. FieldsOfOneEpoch'
  BY <1>1, <1>3, <1>6 DEF IInv, FieldsOfOneEpoch
<1> QED  BY <1>4, <1>5, <1>7, <1>8, <1>9 DEF IInv

(* What the timer task copies is of one epoch. *)
LEMMA LogIInv == IInv /\ gps_log_data => IInv'
<1> SUFFICES ASSUME IInv, gps_log_data PROVE IInv'
  OBVIOUS
<1>1. /\ receiver' = receiver /\ epoch' = epoch /\ uart' = uart /\ todo' = todo
      /\ gps_data' = gps_data /\ gps_pos_active' = gps_pos_active
      /\ last_nav_posllh' = last_nav_posllh /\ last_nav_status' = last_nav_status
      /\ last_nav_velned' = last_nav_velned
  BY DEF gps_log_data, navVars
<1>2. epoch \in Nat /\ gps_data \in [FieldNames -> Int] /\ gps_pos_active \in BOOLEAN
  BY PosAssumption DEF IInv, Types
<1>3. Known' = Known /\ Programs' = Programs /\ Frame' = Frame
  BY <1>1 DEF Known, Programs, Frame, Kinds, Shapes
<1>4. Past' /\ (Idle' \/ Running') /\ Consistent'
  <2>1. Past' /\ Consistent'
    BY <1>1, <1>3 DEF IInv, Past, Consistent, OneEpoch
  <2>2. ASSUME Idle PROVE Idle'
    BY <1>1, <1>3, <2>2 DEF Idle, Whole
  <2>3. ASSUME Running PROVE Running'
    BY <1>1, <1>3, <2>3 DEF Running, After, Wiped, Filled
  <2> QED  BY <2>1, <2>2, <2>3 DEF IInv
<1>5. Types' /\ FieldsOfOneEpoch'
  <2>1. CASE gps_pos_active = FALSE
    <3>1. logged' = NULL
      BY <2>1 DEF gps_log_data
    <3> QED  BY <1>1, <3>1 DEF IInv, Types, FieldsOfOneEpoch
  <2>2. CASE gps_pos_active = TRUE
    <3>1. logged' = [at |-> epoch, gps |-> gps_data]
      BY <2>2 DEF gps_log_data
    <3>2. Types'
      BY <1>1, <1>2, <3>1 DEF IInv, Types
    <3>3. epoch >= 1 /\ 1 \in 1..epoch
      BY <1>2, <2>2 DEF IInv, Consistent
    <3>4. PICK e \in 0..epoch :
            \A f \in Known : gps_data[f] \in {0, Measured(e)[f], -Measured(e)[f]}
      BY DEF IInv, Consistent, OneEpoch
    <3>5. \E d \in 1..epoch :
            \A f \in Known : gps_data[f] \in {0, Measured(d)[f], -Measured(d)[f]}
      <4>1. CASE e = 0
        <5>1. Known \subseteq {"latitude", "longitude", "altitudeMSL", "speed"}
          BY Fields DEF Known, FieldNames
        <5>2. \A f \in Known : Measured(0)[f] = 0
          BY <5>1 DEF Measured
        <5>3. \A f \in Known : gps_data[f] = 0
          BY <3>4, <4>1, <5>2
        <5> QED  BY <3>3, <5>3
      <4>2. CASE e # 0
        <5>1. e \in 1..epoch
          BY <4>2
        <5> QED  BY <3>4, <5>1
      <4> QED  BY <4>1, <4>2
    <3>6. logged'.gps = gps_data
      BY <3>1
    <3>7. FieldsOfOneEpoch'
      BY <1>1, <1>3, <3>5, <3>6 DEF FieldsOfOneEpoch
    <3> QED  BY <3>2, <3>7
  <2> QED  BY <1>2, <2>1, <2>2
<1> QED  BY <1>4, <1>5 DEF IInv

(* IInv holds initially. *)
LEMMA InitIInv == Init => IInv
<1> SUFFICES ASSUME Init PROVE IInv
  OBVIOUS
<1>1. Types
  <2>1. gps_data \in [FieldNames -> Int]
    <3>1. gps_data = [f \in FieldNames |-> 0]
      BY Fields DEF Init
    <3> HIDE DEF FieldNames
    <3> QED  BY <3>1
  <2>2. 0 \in 0..MaxEpoch
    BY PosAssumption
  <2> QED  BY <2>1, <2>2, PosAssumption DEF Init, Types
<1>2. Past
  BY DEF Init, Past, Frame
<1>3. Idle
  BY DEF Init, Idle
<1>4. Known \subseteq FieldNames
  BY Fields DEF Known, FieldNames
<1>5. Consistent
  <2>1. \A f \in Known : gps_data[f] = 0
    BY <1>4, Fields DEF Init
  <2>2. 0 \in 0..epoch
    BY DEF Init
  <2> QED  BY <2>1, <2>2 DEF Consistent, OneEpoch, Init
<1>6. FieldsOfOneEpoch
  BY DEF Init, FieldsOfOneEpoch
<1> QED  BY <1>1, <1>2, <1>3, <1>5, <1>6 DEF IInv

(* IInv is an invariant: the fields and the program counter of the read     *)
(* task belong together at every moment the timer task may look at them.    *)
THEOREM Invariance == Spec => []IInv
<1>1. Init => IInv
  BY InitIInv
<1>2. IInv /\ [Next]_vars => IInv'
  <2> SUFFICES ASSUME IInv, [Next]_vars PROVE IInv'
    OBVIOUS
  <2>1. CASE \E K \in SUBSET Kinds, fix \in BOOLEAN, shape \in Shapes : Measure(K, fix, shape)
    BY <2>1, MeasureIInv
  <2>2. CASE Receive
    BY <2>2, ReceiveIInv
  <2>3. CASE Store
    BY <2>3, StoreIInv
  <2>4. CASE gps_log_data
    BY <2>4, LogIInv
  <2>5. CASE UNCHANGED vars
    <3>1. /\ receiver' = receiver /\ epoch' = epoch /\ uart' = uart /\ todo' = todo
          /\ gps_data' = gps_data /\ gps_pos_active' = gps_pos_active /\ logged' = logged
          /\ last_nav_posllh' = last_nav_posllh /\ last_nav_status' = last_nav_status
          /\ last_nav_velned' = last_nav_velned
      BY <2>5 DEF vars, navVars
    <3>2. Known' = Known /\ Programs' = Programs /\ Frame' = Frame
      BY <3>1 DEF Known, Programs, Frame, Kinds, Shapes
    <3>3. Types' /\ Past' /\ Consistent' /\ FieldsOfOneEpoch'
      BY <3>1, <3>2 DEF IInv, Types, Past, Consistent, OneEpoch, FieldsOfOneEpoch
    <3>4. ASSUME Idle PROVE Idle'
      BY <3>1, <3>2, <3>4 DEF Idle, Whole
    <3>5. ASSUME Running PROVE Running'
      BY <3>1, <3>2, <3>5 DEF Running, After, Wiped, Filled
    <3> QED  BY <3>3, <3>4, <3>5 DEF IInv
  <2> QED  BY <2>1, <2>2, <2>3, <2>4, <2>5 DEF Next, read_task
<1> QED  BY <1>1, <1>2, PTL DEF Spec

(* Every variable keeps its type, whatever epochs there are. *)
THEOREM TypeCorrect == Spec => []TypeOK
<1>1. IInv => TypeOK
  <2> SUFFICES ASSUME IInv PROVE TypeOK
    OBVIOUS
  <2>1. \A i \in DOMAIN todo : todo[i].op \in {"set", "negate", "active"}
    <3>1. CASE todo = <<>>
      BY <3>1
    <3>2. CASE todo # <<>>
      <4>1. todo \in Seq(StoreSet)
        BY <3>2, RunningHasStores DEF IInv, Idle
      <4>2. \A s \in StoreSet : s.op \in {"set", "negate", "active"}
        BY DEF StoreSet
      <4> HIDE DEF StoreSet
      <4>3. \A i \in DOMAIN todo : todo[i] \in StoreSet
        BY <4>1, ElementOfSeq, LenProperties
      <4> QED  BY <4>2, <4>3
    <3> QED  BY <3>1, <3>2
  <2> QED  BY <2>1, Fields DEF IInv, Types, Past, TypeOK
<1> QED  BY <1>1, Invariance, PTL

(* When the read task is through with a frame, an active position is one    *)
(* measurement (recv_pos and the GGA branch).                               *)
THEOREM Assembled == Spec => []AssembledWhole
<1>1. IInv => AssembledWhole
  <2> SUFFICES ASSUME IInv PROVE AssembledWhole
    OBVIOUS
  <2>1. ASSUME todo = <<>> PROVE Idle
    BY <2>1, RunningHasStores DEF IInv
  <2> QED  BY <2>1 DEF AssembledWhole, Idle
<1> QED  BY <1>1, Invariance, PTL

(* Wherever gps_log_data preempts the read task, the fields it copies are   *)
(* of one epoch.                                                            *)
THEOREM NeverMixed == Spec => []FieldsOfOneEpoch
<1>1. IInv => FieldsOfOneEpoch
  BY DEF IInv
<1> QED  BY <1>1, Invariance, PTL
=============================================================================

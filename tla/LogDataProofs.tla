--------------------------- MODULE LogDataProofs ---------------------------
(***************************************************************************)
(* Both readers get the records in an order that agrees with real time,    *)
(* for queues of every size and any number of records.                     *)
(***************************************************************************)
EXTENDS LogData, SequenceTheorems, TLAPS

(* r may stand before t. *)
Before(r, t) == r # t /\ r.seen[t.src] < t.id
Ordered(s) == \A i \in DOMAIN s, j \in DOMAIN s : i < j => Before(s[i], s[j])
Crossed(a, q) == \A i \in DOMAIN a, j \in DOMAIN q : Before(a[i], q[j])
Elements(s) == {s[i] : i \in DOMAIN s}

(* What a reader has and what it will get. *)
Lined(a, q) == Ordered(a) /\ Ordered(q) /\ Crossed(a, q)

(* A record that is being logged is of the present call, stamped when the   *)
(* calls it has seen were over.                                             *)
InCall ==
  \A c \in Callers : at[c] # "idle" =>
    /\ data[c].src = c /\ data[c].id = finished[c] + 1
    /\ \A d \in Callers : data[c].seen[d] <= finished[d]
(* A record in a stream is of a call that is over or has passed its place.  *)
Entered(r, places) ==
  /\ r.id <= finished[r.src] + (IF at[r.src] \in places THEN 1 ELSE 0)
  /\ \A d \in Callers : r.seen[d] <= finished[d]
AllEntered ==
  /\ \A r \in Elements(to_host) \cup Elements(usb_queue) : Entered(r, {"active?", "sd"})
  /\ \A r \in Elements(to_card) \cup Elements(sdcard_queue) : Entered(r, {})
IInv ==
  /\ TypeOK /\ InCall /\ AllEntered
  /\ Lined(to_host, usb_queue) /\ Lined(to_card, sdcard_queue)

-----------------------------------------------------------------------------
(* Sequences. *)

(* A record that every other may stand before goes to the end.              *)
LEMMA LinedAppend ==
  ASSUME NEW a \in Seq(Record), NEW q \in Seq(Record), NEW r \in Record, Lined(a, q),
         \A t \in Elements(a) \cup Elements(q) : Before(t, r)
  PROVE  /\ Append(q, r) \in Seq(Record) /\ Len(Append(q, r)) = Len(q) + 1
         /\ Elements(Append(q, r)) \subseteq Elements(q) \cup {r}
         /\ Lined(a, Append(q, r))
<1> HIDE DEF Record
<1>1. /\ Append(q, r) \in Seq(Record) /\ Len(Append(q, r)) = Len(q) + 1
      /\ \A i \in 1..Len(q) : Append(q, r)[i] = q[i]
      /\ Append(q, r)[Len(q) + 1] = r
  BY AppendProperties
<1> DEFINE p == Append(q, r)
<1>2. p \in Seq(Record) /\ Len(p) = Len(q) + 1 /\ Len(q) \in Nat
      /\ (\A i \in 1..Len(q) : p[i] = q[i]) /\ p[Len(q) + 1] = r
      /\ DOMAIN q = 1..Len(q) /\ DOMAIN p = 1..(Len(q) + 1)
  <2>1. Len(q) \in Nat /\ DOMAIN q = 1..Len(q)
    BY LenProperties
  <2>2. DOMAIN p = 1..Len(p)
    BY <1>1, LenProperties
  <2> QED  BY <1>1, <2>1, <2>2
<1> HIDE DEF p
<1>3. \A i \in DOMAIN p : i \in DOMAIN q \/ i = Len(q) + 1
  BY <1>2
<1>4. Elements(p) \subseteq Elements(q) \cup {r}
  BY <1>2, <1>3 DEF Elements
<1>5. Ordered(p)
  <2> SUFFICES ASSUME NEW i \in DOMAIN p, NEW j \in DOMAIN p, i < j PROVE Before(p[i], p[j])
    BY DEF Ordered
  <2>1. i \in DOMAIN q
    BY <1>2
  <2>2. CASE j \in DOMAIN q
    BY <1>2, <2>1, <2>2 DEF Lined, Ordered
  <2>3. CASE j = Len(q) + 1
    <3>1. q[i] \in Elements(q)
      BY <2>1 DEF Elements
    <3> QED  BY <1>2, <2>1, <2>3, <3>1
  <2> QED  BY <1>3, <2>2, <2>3
<1>6. Crossed(a, p)
  <2> SUFFICES ASSUME NEW i \in DOMAIN a, NEW j \in DOMAIN p PROVE Before(a[i], p[j])
    BY DEF Crossed
  <2>1. CASE j \in DOMAIN q
    BY <1>2, <2>1 DEF Lined, Crossed
  <2>2. CASE j = Len(q) + 1
    <3>1. a[i] \in Elements(a)
      BY DEF Elements
    <3> QED  BY <1>2, <2>2, <3>1
  <2> QED  BY <1>3, <2>1, <2>2
<1> QED  BY <1>1, <1>4, <1>5, <1>6 DEF Lined, p

(* The first record of a queue leaves it.                                   *)
LEMMA LinedTail ==
  ASSUME NEW a \in Seq(Record), NEW q \in Seq(Record), Lined(a, q), q # <<>>
  PROVE  /\ Head(q) \in Record /\ Head(q) \in Elements(q)
         /\ Tail(q) \in Seq(Record) /\ Len(Tail(q)) = Len(q) - 1
         /\ Elements(Tail(q)) \subseteq Elements(q)
         /\ Lined(a, Tail(q))
         /\ Append(a, Head(q)) \in Seq(Record)
         /\ Elements(Append(a, Head(q))) \subseteq Elements(a) \cup {Head(q)}
         /\ Lined(Append(a, Head(q)), Tail(q))
<1> HIDE DEF Record
<1> DEFINE h == Head(q)
           t == Tail(q)
           b == Append(a, h)
<1>1. /\ h = q[1] /\ t \in Seq(Record) /\ Len(t) = Len(q) - 1
      /\ \A i \in 1..Len(t) : t[i] = q[i + 1]
  <2>1. t \in Seq(Record) /\ Len(t) = Len(q) - 1 /\ \A i \in 1..Len(t) : t[i] = q[i + 1]
    BY HeadTailProperties
  <2>2. h = q[1]
    OBVIOUS
  <2> QED  BY <2>1, <2>2
<1>2. /\ Len(q) \in Nat /\ DOMAIN q = 1..Len(q) /\ DOMAIN t = 1..Len(t)
      /\ Len(a) \in Nat /\ DOMAIN a = 1..Len(a) /\ Len(t) \in Nat
  BY <1>1, LenProperties
<1>3. 1 \in DOMAIN q
  <2>1. Len(q) # 0
    BY EmptySeq
  <2> QED  BY <1>2, <2>1
<1>4. h \in Record /\ h \in Elements(q)
  BY <1>1, <1>2, <1>3, ElementOfSeq DEF Elements
<1> HIDE DEF h, t
<1>5. \A i \in DOMAIN t : i + 1 \in DOMAIN q /\ t[i] = q[i + 1] /\ 1 < i + 1
  BY <1>1, <1>2
<1>6. Elements(t) \subseteq Elements(q)
  BY <1>5 DEF Elements
<1>7. Ordered(t)
  <2> SUFFICES ASSUME NEW i \in DOMAIN t, NEW j \in DOMAIN t, i < j PROVE Before(t[i], t[j])
    BY DEF Ordered
  <2>1. i + 1 < j + 1
    BY <1>2
  <2> QED  BY <1>5, <2>1 DEF Lined, Ordered
<1>8. Crossed(a, t)
  BY <1>5 DEF Lined, Crossed
<1>9. \A x \in Elements(a) : Before(x, h)
  BY <1>1, <1>3 DEF Lined, Crossed, Elements
<1>10. \A j \in DOMAIN t : Before(h, t[j])
  BY <1>1, <1>3, <1>5 DEF Lined, Ordered
<1>11. /\ b \in Seq(Record) /\ Elements(b) \subseteq Elements(a) \cup {h}
       /\ Ordered(b)
  <2>1. << >> \in Seq(Record) /\ Elements(<< >>) = {}
    BY EmptySeq DEF Elements
  <2>2. Lined(<< >>, a)
    BY EmptySeq DEF Lined, Ordered, Crossed
  <2>3. \A x \in Elements(<< >>) \cup Elements(a) : Before(x, h)
    BY <1>9, <2>1
  <2>4. b \in Seq(Record) /\ Elements(b) \subseteq Elements(a) \cup {h} /\ Lined(<< >>, b)
    BY <1>4, <2>1, <2>2, <2>3, LinedAppend
  <2> QED  BY <2>4 DEF Lined
<1> HIDE DEF b
<1>12. Crossed(b, t)
  <2> SUFFICES ASSUME NEW i \in DOMAIN b, NEW j \in DOMAIN t PROVE Before(b[i], t[j])
    BY DEF Crossed
  <2>1. b[i] \in Elements(a) \cup {h}
    BY <1>11 DEF Elements
  <2>2. CASE b[i] = h
    BY <1>10, <2>2
  <2>3. CASE b[i] \in Elements(a)
    BY <1>8, <2>3 DEF Crossed, Elements
  <2> QED  BY <2>1, <2>2, <2>3
<1>13. Lined(a, t) /\ Lined(b, t)
  BY <1>7, <1>8, <1>11, <1>12 DEF Lined
<1> QED  BY <1>1, <1>4, <1>6, <1>11, <1>13 DEF h, t, b

(* What a reader gets is in real time. *)
LEMMA LinedInRealTime ==
  ASSUME NEW a \in Seq(Record), NEW q \in Seq(Record), Lined(a, q)
  PROVE  InRealTime(a \o q)
<1> HIDE DEF Record
<1> DEFINE s == a \o q
<1>1. /\ s \in Seq(Record) /\ Len(s) = Len(a) + Len(q)
      /\ \A i \in 1..(Len(a) + Len(q)) : s[i] = IF i <= Len(a) THEN a[i] ELSE q[i - Len(a)]
  BY ConcatProperties
<1> HIDE DEF s
<1>2. /\ Len(a) \in Nat /\ Len(q) \in Nat /\ DOMAIN a = 1..Len(a) /\ DOMAIN q = 1..Len(q)
      /\ DOMAIN s = 1..(Len(a) + Len(q))
  BY <1>1, LenProperties
<1>3. \A i \in DOMAIN s : \/ i \in DOMAIN a /\ s[i] = a[i]
                          \/ i - Len(a) \in DOMAIN q /\ s[i] = q[i - Len(a)] /\ i > Len(a)
  BY <1>1, <1>2
<1>4. Ordered(s)
  <2> SUFFICES ASSUME NEW i \in DOMAIN s, NEW j \in DOMAIN s, i < j PROVE Before(s[i], s[j])
    BY DEF Ordered
  <2>1. CASE i \in DOMAIN a /\ s[i] = a[i] /\ j \in DOMAIN a /\ s[j] = a[j]
    BY <2>1 DEF Lined, Ordered
  <2>2. CASE i \in DOMAIN a /\ s[i] = a[i] /\ j - Len(a) \in DOMAIN q /\ s[j] = q[j - Len(a)]
    BY <2>2 DEF Lined, Crossed
  <2>3. CASE /\ i - Len(a) \in DOMAIN q /\ s[i] = q[i - Len(a)]
             /\ j - Len(a) \in DOMAIN q /\ s[j] = q[j - Len(a)]
    <3>1. i - Len(a) < j - Len(a)
      BY <1>2
    <3> QED  BY <2>3, <3>1 DEF Lined, Ordered
  <2>4. CASE i > Len(a) /\ j \in DOMAIN a
    BY <1>2, <2>4
  <2> QED  BY <1>3, <2>1, <2>2, <2>3, <2>4
<1> QED  BY <1>4 DEF Ordered, Before, InRealTime, s
-----------------------------------------------------------------------------
(* The steps of the callers. *)

(* The elements of a sequence of records are records. *)
LEMMA ElementsTyped ==
  ASSUME NEW s \in Seq(Record), NEW r \in Elements(s) PROVE r \in Record
<1> HIDE DEF Record
<1>1. PICK k \in DOMAIN s : r = s[k]
  BY DEF Elements
<1>2. DOMAIN s = 1..Len(s)
  BY LenProperties
<1> QED  BY <1>1, <1>2, ElementOfSeq

(* The queues and what was taken out of them hold records. *)
LEMMA StreamsTyped ==
  ASSUME IInv
  PROVE  /\ {to_host, usb_queue, to_card, sdcard_queue} \subseteq Seq(Record)
         /\ \A r \in Elements(to_host) \cup Elements(usb_queue) \cup
                     Elements(to_card) \cup Elements(sdcard_queue) : r \in Record
<1>1. {to_host, usb_queue, to_card, sdcard_queue} \subseteq Seq(Record)
  BY DEF IInv, TypeOK
<1> HIDE DEF Record
<1> QED  BY <1>1, ElementsTyped

(* A record being logged. *)
LEMMA DataTyped ==
  ASSUME IInv, NEW c \in Callers, at[c] # "idle"
  PROVE  /\ data[c] \in Record /\ data[c] # NULL /\ finished[c] \in Nat
         /\ data[c].src = c /\ data[c].id = finished[c] + 1
         /\ \A d \in Callers : data[c].seen[d] <= finished[d]
BY DEF IInv, TypeOK, InCall

(* What has entered a stream may stand before a record that has not.        *)
LEMMA FitsBehind ==
  ASSUME IInv, NEW c \in Callers, NEW places, at[c] # "idle", at[c] \notin places,
         NEW r \in Record, Entered(r, places)
  PROVE  Before(r, data[c])
<1>1. data[c].src = c /\ data[c].id = finished[c] + 1 /\ finished[c] \in Nat
  BY DataTyped
<1>2. r.id \in Nat /\ r.seen[c] \in Nat /\ r.seen[c] <= finished[c]
  BY DEF Record, Entered
<1>3. r.seen[c] < finished[c] + 1
  BY <1>1, <1>2
<1>4. ASSUME r = data[c] PROVE FALSE
  <2>1. r.src = c /\ r.id = finished[c] + 1
    BY <1>1, <1>4
  <2>2. r.id <= finished[c] + 0
    BY <2>1 DEF Entered
  <2> QED  BY <1>1, <2>1, <2>2
<1> QED  BY <1>1, <1>3, <1>4 DEF Before

(* log_data goes on: the other calls stay what they are. *)
LEMMA GotoStep ==
  ASSUME IInv, NEW c \in Callers, at[c] # "idle",
         NEW place \in {"idle", "usb", "active?", "sd"}, Goto(c, place)
  PROVE  /\ at' \in [Callers -> {"idle", "connected?", "usb", "active?", "sd"}]
         /\ at'[c] = place /\ \A d \in Callers \ {c} : at'[d] = at[d]
         /\ data' \in [Callers -> Record \cup {NULL}]
         /\ \A d \in Callers : data'[d] = NULL <=> at'[d] = "idle"
         /\ finished' \in [Callers -> Nat]
         /\ finished'[c] = IF place = "idle" THEN finished[c] + 1 ELSE finished[c]
         /\ \A d \in Callers \ {c} : finished'[d] = finished[d]
         /\ InCall'
<1> HIDE DEF Record
<1>1. /\ at \in [Callers -> {"idle", "connected?", "usb", "active?", "sd"}]
      /\ data \in [Callers -> Record \cup {NULL}] /\ finished \in [Callers -> Nat]
      /\ \A d \in Callers : data[d] = NULL <=> at[d] = "idle"
  BY DEF IInv, TypeOK
<1>2. /\ at' \in [Callers -> {"idle", "connected?", "usb", "active?", "sd"}]
      /\ at'[c] = place /\ \A d \in Callers \ {c} : at'[d] = at[d]
  BY <1>1 DEF Goto
<1>3. CASE place = "idle"
  <2>1. /\ data' = [data EXCEPT ![c] = NULL]
        /\ finished' = [finished EXCEPT ![c] = finished[c] + 1]
    BY <1>1, <1>3 DEF Goto
  <2>2. finished[c] \in Nat /\ finished[c] + 1 \in Nat
    BY <1>1
  <2>3. /\ data' \in [Callers -> Record \cup {NULL}] /\ finished' \in [Callers -> Nat]
        /\ data'[c] = NULL /\ finished'[c] = finished[c] + 1
        /\ \A d \in Callers \ {c} : finished'[d] = finished[d] /\ data'[d] = data[d]
    BY <1>1, <2>1, <2>2
  <2>4. \A d \in Callers :
        finished[d] \in Nat /\ finished'[d] \in Nat /\ finished[d] <= finished'[d]
    BY <1>1, <2>2, <2>3
  <2>5. InCall'
    <3> SUFFICES ASSUME NEW d \in Callers, at'[d] # "idle"
                 PROVE  /\ data'[d].src = d /\ data'[d].id = finished'[d] + 1
                        /\ \A e \in Callers : data'[d].seen[e] <= finished'[e]
      BY DEF InCall
    <3>1. d # c /\ at[d] # "idle" /\ data'[d] = data[d] /\ finished'[d] = finished[d]
      BY <1>2, <1>3, <2>3
    <3>2. /\ data[d] \in Record /\ data[d].src = d /\ data[d].id = finished[d] + 1
          /\ \A e \in Callers : data[d].seen[e] <= finished[e]
      BY <3>1, DataTyped
    <3>3. \A e \in Callers : data[d].seen[e] \in Nat
      BY <3>2 DEF Record
    <3> QED  BY <2>4, <3>1, <3>2, <3>3
  <2> QED  BY <1>1, <1>2, <1>3, <2>3, <2>5
<1>4. CASE place # "idle"
  <2>1. data' = data /\ finished' = finished
    BY <1>4 DEF Goto
  <2>2. InCall'
    <3> SUFFICES ASSUME NEW d \in Callers, at'[d] # "idle"
                 PROVE  /\ data'[d].src = d /\ data'[d].id = finished'[d] + 1
                        /\ \A e \in Callers : data'[d].seen[e] <= finished'[e]
      BY DEF InCall
    <3>1. at[d] # "idle"
      BY <1>2
    <3> QED  BY <2>1, <3>1, DataTyped
  <2> QED  BY <1>1, <1>2, <1>4, <2>1, <2>2
<1> QED  BY <1>3, <1>4

(* What has entered a stream stays entered. *)
LEMMA EnteredStays ==
  ASSUME IInv, NEW c \in Callers, at[c] # "idle", NEW places \in SUBSET {"active?", "sd"},
         NEW place \in {"idle", "usb", "active?", "sd"}, Goto(c, place),
         at[c] \in places => place \in places \cup {"idle"},
         NEW r \in Record, Entered(r, places)
  PROVE  Entered(r, places)'
<1>1. /\ r.src \in Callers /\ r.id \in Nat /\ \A d \in Callers : r.seen[d] \in Nat
  BY DEF Record
<1>2. /\ at'[c] = place /\ \A d \in Callers \ {c} : at'[d] = at[d]
      /\ finished'[c] = IF place = "idle" THEN finished[c] + 1 ELSE finished[c]
      /\ \A d \in Callers \ {c} : finished'[d] = finished[d]
  BY GotoStep
<1>3. \A d \in Callers : finished[d] \in Nat
  BY DEF IInv, TypeOK
<1>4. "idle" \notin places
  OBVIOUS
<1>5. \A d \in Callers : finished'[d] \in Nat /\ finished[d] <= finished'[d]
  BY <1>2, <1>3
<1>6. \A d \in Callers : r.seen[d] <= finished'[d]
  BY <1>1, <1>3, <1>5 DEF Entered
<1>7. r.id <= finished'[r.src] + (IF at'[r.src] \in places THEN 1 ELSE 0)
  <2>1. r.id <= finished[r.src] + (IF at[r.src] \in places THEN 1 ELSE 0)
    BY DEF Entered
  <2>2. CASE r.src # c
    BY <1>1, <1>2, <2>1, <2>2
  <2>3. CASE r.src = c /\ at[c] \in places
    <3>1. r.id <= finished[c] + 1
      BY <2>1, <2>3
    <3>2. CASE place \in places
      BY <1>2, <1>4, <2>3, <3>1, <3>2
    <3>3. CASE place = "idle"
      BY <1>2, <1>3, <1>4, <2>3, <3>1, <3>3
    <3> QED  BY <2>3, <3>2, <3>3
  <2>4. CASE r.src = c /\ at[c] \notin places
    <3>1. r.id <= finished[c] + 0
      BY <2>1, <2>4
    <3>2. r.id <= finished'[c]
      BY <1>1, <1>3, <1>5, <3>1
    <3> QED  BY <1>1, <1>5, <2>4, <3>2
  <2> QED  BY <1>1, <2>2, <2>3, <2>4
<1> QED  BY <1>6, <1>7 DEF Entered
(* The places behind the send of a queue. *)
Host == {"active?", "sd"}

(* A step of log_data that sends nothing preserves IInv. *)
LEMMA TestIInv ==
  ASSUME IInv, NEW c \in Callers, TestConnected(c) \/ TestActive(c) PROVE IInv'
<1>1. /\ at[c] # "idle"
      /\ connected' = connected /\ sdcard_active' = sdcard_active
      /\ usb_queue' = usb_queue /\ sdcard_queue' = sdcard_queue
      /\ to_host' = to_host /\ to_card' = to_card /\ switches' = switches /\ stamped' = stamped
  BY DEF TestConnected, TestActive, queueVars, readerVars, envVars
<1>2. PICK place \in {"idle", "usb", "active?", "sd"} :
        Goto(c, place) /\ (at[c] \in Host => place \in Host \cup {"idle"})
  BY DEF TestConnected, TestActive, Host
<1>3. TypeOK' /\ InCall'
  BY <1>1, <1>2, GotoStep DEF IInv, TypeOK
<1>4. AllEntered'
  <2>1. ASSUME NEW r \in Elements(to_host) \cup Elements(usb_queue) PROVE Entered(r, Host)'
    <3>1. r \in Record /\ Entered(r, Host)
      BY StreamsTyped DEF IInv, AllEntered, Host
    <3>2. Host \in SUBSET {"active?", "sd"}
      BY DEF Host
    <3> QED  BY <1>1, <1>2, <3>1, <3>2, EnteredStays
  <2>2. ASSUME NEW r \in Elements(to_card) \cup Elements(sdcard_queue) PROVE Entered(r, {})'
    <3>1. r \in Record /\ Entered(r, {})
      BY StreamsTyped DEF IInv, AllEntered
    <3> QED  BY <1>1, <1>2, <3>1, EnteredStays
  <2> HIDE DEF Entered, Elements
  <2> QED  BY <1>1, <2>1, <2>2 DEF AllEntered, Host
<1>5. Lined(to_host, usb_queue)' /\ Lined(to_card, sdcard_queue)'
  BY <1>1 DEF IInv, Lined, Ordered, Crossed
<1> QED  BY <1>3, <1>4, <1>5 DEF IInv

(* A send puts the record behind all others of the queue, or nowhere.       *)
LEMMA SendLined ==
  ASSUME IInv, NEW c \in Callers, NEW places, at[c] # "idle", at[c] \notin places,
         NEW a \in Seq(Record), NEW q \in Seq(Record), Lined(a, q), Len(q) <= QUEUE_SIZE,
         \A r \in Elements(a) \cup Elements(q) : r \in Record /\ Entered(r, places)
  PROVE  LET p == Send(q, data[c]) IN
         /\ p \in Seq(Record) /\ Len(p) <= QUEUE_SIZE /\ Lined(a, p)
         /\ Elements(p) \subseteq Elements(q) \cup {data[c]}
<1> HIDE DEF Record
<1>1. data[c] \in Record
  BY DataTyped
<1>2. \A r \in Elements(a) \cup Elements(q) : Before(r, data[c])
  BY FitsBehind
<1>3. /\ Append(q, data[c]) \in Seq(Record) /\ Len(Append(q, data[c])) = Len(q) + 1
      /\ Elements(Append(q, data[c])) \subseteq Elements(q) \cup {data[c]}
      /\ Lined(a, Append(q, data[c]))
  BY <1>1, <1>2, LinedAppend
<1>4. Len(q) \in Nat /\ QUEUE_SIZE \in Nat
  BY LogAssumption, LenProperties
<1>5. CASE Len(q) < QUEUE_SIZE
  <2>1. Send(q, data[c]) = Append(q, data[c])
    BY <1>5 DEF Send
  <2> HIDE DEF Send
  <2> QED  BY <1>3, <1>4, <1>5, <2>1
<1>6. CASE ~(Len(q) < QUEUE_SIZE)
  <2>1. Send(q, data[c]) = q
    BY <1>6 DEF Send
  <2> HIDE DEF Send
  <2> QED  BY <2>1
<1> QED  BY <1>5, <1>6

(* The send to the host preserves IInv. *)
LEMMA SendUsbIInv ==
  ASSUME IInv, NEW c \in Callers, SendUsb(c) PROVE IInv'
<1>1. /\ at[c] = "usb" /\ Goto(c, "active?") /\ usb_queue' = Send(usb_queue, data[c])
      /\ connected' = connected /\ sdcard_active' = sdcard_active
      /\ sdcard_queue' = sdcard_queue
      /\ to_host' = to_host /\ to_card' = to_card /\ switches' = switches /\ stamped' = stamped
  BY DEF SendUsb, readerVars, envVars
<1>2. /\ at[c] # "idle" /\ at[c] \notin Host /\ Host \in SUBSET {"active?", "sd"}
  BY <1>1 DEF Host
<1>a. /\ to_host \in Seq(Record) /\ usb_queue \in Seq(Record) /\ Lined(to_host, usb_queue)
      /\ Len(usb_queue) <= QUEUE_SIZE
      /\ \A r \in Elements(to_host) \cup Elements(usb_queue) : r \in Record /\ Entered(r, Host)
  BY StreamsTyped DEF IInv, TypeOK, AllEntered, Host
<1>3. /\ usb_queue' \in Seq(Record) /\ Len(usb_queue') <= QUEUE_SIZE
      /\ Lined(to_host, usb_queue')
      /\ Elements(usb_queue') \subseteq Elements(usb_queue) \cup {data[c]}
  <2>1. LET p == Send(usb_queue, data[c]) IN
         /\ p \in Seq(Record) /\ Len(p) <= QUEUE_SIZE /\ Lined(to_host, p)
         /\ Elements(p) \subseteq Elements(usb_queue) \cup {data[c]}
    BY <1>2, <1>a, SendLined
  <2> QED  BY <1>1, <2>1, Zenon
<1>4. TypeOK' /\ InCall'
  BY <1>1, <1>2, <1>3, GotoStep DEF IInv, TypeOK
<1>b. PICK r \in Record : r = data[c]
  BY <1>2, DataTyped
<1>5. Entered(r, Host)'
  <2>1. /\ data[c].src = c /\ data[c].id = finished[c] + 1 /\ finished[c] \in Nat
        /\ \A d \in Callers : data[c].seen[d] <= finished[d]
    BY <1>2, DataTyped
  <2>2. finished' = finished /\ at'[c] = "active?" /\ "active?" \in Host
    BY <1>1, <1>2, GotoStep DEF Goto, Host
  <2> QED  BY <1>b, <2>1, <2>2 DEF Entered
<1>6. AllEntered'
  <2>1. ASSUME NEW s \in Elements(to_host) \cup Elements(usb_queue) PROVE Entered(s, Host)'
    BY <1>1, <1>2, <1>a, EnteredStays
  <2>2. ASSUME NEW s \in Elements(to_card) \cup Elements(sdcard_queue) PROVE Entered(s, {})'
    <3>1. s \in Record /\ Entered(s, {})
      BY StreamsTyped DEF IInv, AllEntered
    <3> QED  BY <1>1, <1>2, <3>1, EnteredStays
  <2> HIDE DEF Entered, Elements
  <2>3. \A s \in Elements(to_host') \cup Elements(usb_queue') : Entered(s, Host)'
    BY <1>1, <1>3, <1>5, <1>b, <2>1
  <2>4. \A s \in Elements(to_card') \cup Elements(sdcard_queue') : Entered(s, {})'
    BY <1>1, <2>2
  <2> USE DEF Elements
  <2> QED  BY <2>3, <2>4 DEF AllEntered, Host
<1>7. Lined(to_host, usb_queue)' /\ Lined(to_card, sdcard_queue)'
  BY <1>1, <1>3 DEF IInv, Lined, Ordered, Crossed
<1> QED  BY <1>4, <1>6, <1>7 DEF IInv

(* The send to the card preserves IInv. *)
LEMMA SendSdIInv ==
  ASSUME IInv, NEW c \in Callers, SendSd(c) PROVE IInv'
<1>1. /\ at[c] = "sd" /\ Goto(c, "idle") /\ sdcard_queue' = Send(sdcard_queue, data[c])
      /\ connected' = connected /\ sdcard_active' = sdcard_active
      /\ usb_queue' = usb_queue
      /\ to_host' = to_host /\ to_card' = to_card /\ switches' = switches /\ stamped' = stamped
  BY DEF SendSd, readerVars, envVars
<1>2. /\ at[c] # "idle" /\ at[c] \notin {} /\ {} \in SUBSET {"active?", "sd"}
  BY <1>1
<1>a. /\ to_card \in Seq(Record) /\ sdcard_queue \in Seq(Record) /\ Lined(to_card, sdcard_queue)
      /\ Len(sdcard_queue) <= QUEUE_SIZE
      /\ \A r \in Elements(to_card) \cup Elements(sdcard_queue) : r \in Record /\ Entered(r, {})
  BY StreamsTyped DEF IInv, TypeOK, AllEntered
<1>3. /\ sdcard_queue' \in Seq(Record) /\ Len(sdcard_queue') <= QUEUE_SIZE
      /\ Lined(to_card, sdcard_queue')
      /\ Elements(sdcard_queue') \subseteq Elements(sdcard_queue) \cup {data[c]}
  <2>1. LET p == Send(sdcard_queue, data[c]) IN
         /\ p \in Seq(Record) /\ Len(p) <= QUEUE_SIZE /\ Lined(to_card, p)
         /\ Elements(p) \subseteq Elements(sdcard_queue) \cup {data[c]}
    BY <1>2, <1>a, SendLined
  <2> QED  BY <1>1, <2>1, Zenon
<1>4. TypeOK' /\ InCall'
  BY <1>1, <1>2, <1>3, GotoStep DEF IInv, TypeOK
<1>b. PICK r \in Record : r = data[c]
  BY <1>2, DataTyped
<1>5. Entered(r, {})'
  <2>1. /\ data[c].src = c /\ data[c].id = finished[c] + 1 /\ finished[c] \in Nat
        /\ \A d \in Callers : data[c].seen[d] <= finished[d]
        /\ \A d \in Callers : data[c].seen[d] \in Nat
    BY <1>2, DataTyped DEF Record
  <2>2. /\ finished'[c] = finished[c] + 1 /\ \A d \in Callers \ {c} : finished'[d] = finished[d]
    BY <1>1, <1>2, GotoStep
  <2>3. \A d \in Callers : data[c].seen[d] <= finished'[d]
    BY <2>1, <2>2
  <2>4. data[c].id <= finished'[data[c].src] + 0
    BY <2>1, <2>2
  <2>5. r.id <= finished'[r.src] + (IF at'[r.src] \in {} THEN 1 ELSE 0)
    BY <1>b, <2>4
  <2> QED  BY <1>b, <2>3, <2>5 DEF Entered
<1>6. AllEntered'
  <2>1. ASSUME NEW s \in Elements(to_host) \cup Elements(usb_queue) PROVE Entered(s, Host)'
    <3>1. s \in Record /\ Entered(s, Host)
      BY StreamsTyped DEF IInv, AllEntered, Host
    <3>2. Host \in SUBSET {"active?", "sd"}
      BY DEF Host
    <3> QED  BY <1>1, <1>2, <3>1, <3>2, EnteredStays
  <2>2. ASSUME NEW s \in Elements(to_card) \cup Elements(sdcard_queue) PROVE Entered(s, {})'
    BY <1>1, <1>2, <1>a, EnteredStays
  <2> HIDE DEF Entered, Elements
  <2>3. \A s \in Elements(to_host') \cup Elements(usb_queue') : Entered(s, Host)'
    BY <1>1, <2>1
  <2>4. \A s \in Elements(to_card') \cup Elements(sdcard_queue') : Entered(s, {})'
    BY <1>1, <1>3, <1>5, <1>b, <2>2
  <2> USE DEF Elements
  <2> QED  BY <2>3, <2>4 DEF AllEntered, Host
<1>7. Lined(to_host, usb_queue)' /\ Lined(to_card, sdcard_queue)'
  BY <1>1, <1>3 DEF IInv, Lined, Ordered, Crossed
<1> QED  BY <1>4, <1>6, <1>7 DEF IInv

(* A new record preserves IInv. *)
LEMMA StampIInv ==
  ASSUME IInv, NEW c \in Callers, NEW t \in Types(c), Stamp(c, t) PROVE IInv'
<1>1. /\ at[c] = "idle" /\ at' = [at EXCEPT ![c] = "connected?"]
      /\ stamped < MaxRecord /\ stamped' = stamped + 1
      /\ data' = [data EXCEPT ![c] =
                   [src |-> c, type |-> t, id |-> finished[c] + 1, seen |-> finished]]
      /\ connected' = connected /\ sdcard_active' = sdcard_active
      /\ usb_queue' = usb_queue /\ sdcard_queue' = sdcard_queue
      /\ to_host' = to_host /\ to_card' = to_card /\ switches' = switches
      /\ finished' = finished
  BY DEF Stamp, queueVars, readerVars
<1>2. /\ at \in [Callers -> {"idle", "connected?", "usb", "active?", "sd"}]
      /\ data \in [Callers -> Record \cup {NULL}] /\ finished \in [Callers -> Nat]
      /\ \A d \in Callers : data[d] = NULL <=> at[d] = "idle"
      /\ stamped \in 0..MaxRecord /\ MaxRecord \in Nat
  BY LogAssumption DEF IInv, TypeOK
<1> DEFINE r == [src |-> c, type |-> t, id |-> finished[c] + 1, seen |-> finished]
<1>3. /\ r \in Record /\ r # NULL
      /\ r.src = c /\ r.id = finished[c] + 1 /\ \A d \in Callers : r.seen[d] <= finished[d]
  <2>1. t \in {"its", "gps", "time"}
    BY DEF Types
  <2>2. finished[c] + 1 \in Nat /\ \A d \in Callers : finished[d] <= finished[d]
    BY <1>2
  <2>3. r \in Record
    BY <1>2, <2>1, <2>2 DEF Record
  <2> QED  BY <2>2, <2>3, NullAssumption
<1> HIDE DEF r, Record
<1>4. /\ data'[c] = r /\ at'[c] = "connected?"
      /\ \A d \in Callers \ {c} : data'[d] = data[d] /\ at'[d] = at[d]
      /\ data' \in [Callers -> Record \cup {NULL}]
      /\ at' \in [Callers -> {"idle", "connected?", "usb", "active?", "sd"}]
  BY <1>1, <1>2, <1>3 DEF r
<1>5. TypeOK'
  <2>1. \A d \in Callers : data'[d] = NULL <=> at'[d] = "idle"
    BY <1>2, <1>3, <1>4
  <2>2. stamped' \in 0..MaxRecord
    BY <1>1, <1>2
  <2> QED  BY <1>1, <1>4, <2>1, <2>2 DEF IInv, TypeOK
<1>6. InCall'
  <2> SUFFICES ASSUME NEW d \in Callers, at'[d] # "idle"
               PROVE  /\ data'[d].src = d /\ data'[d].id = finished'[d] + 1
                      /\ \A e \in Callers : data'[d].seen[e] <= finished'[e]
    BY DEF InCall
  <2>1. CASE d = c
    BY <1>1, <1>3, <1>4, <2>1
  <2>2. CASE d # c
    BY <1>1, <1>4, <2>2, DataTyped
  <2> QED  BY <2>1, <2>2
<1>7. AllEntered'
  <2>1. ASSUME NEW s \in Record, NEW places \in SUBSET {"active?", "sd"}, Entered(s, places)
        PROVE  Entered(s, places)'
    <3>1. s.src \in Callers
      BY DEF Record
    <3>2. at'[s.src] \in places <=> at[s.src] \in places
      BY <1>1, <1>4, <3>1
    <3> QED  BY <1>1, <2>1, <3>2 DEF Entered
  <2>2. \A s \in Elements(to_host) \cup Elements(usb_queue) : Entered(s, {"active?", "sd"})'
    BY <2>1, StreamsTyped DEF IInv, AllEntered
  <2>3. \A s \in Elements(to_card) \cup Elements(sdcard_queue) : Entered(s, {})'
    BY <2>1, StreamsTyped DEF IInv, AllEntered
  <2> QED  BY <1>1, <2>2, <2>3 DEF AllEntered, Elements
<1>8. Lined(to_host, usb_queue)' /\ Lined(to_card, sdcard_queue)'
  BY <1>1 DEF IInv, Lined, Ordered, Crossed
<1> QED  BY <1>5, <1>6, <1>7, <1>8 DEF IInv
-----------------------------------------------------------------------------
(* The steps of the readers. *)

(* Nothing happens to the calls: who has entered stays so. *)
LEMMA EnteredKept ==
  ASSUME UNCHANGED <<at, finished>>, NEW r, NEW places, Entered(r, places)
  PROVE  Entered(r, places)'
BY DEF Entered

(* The USB task takes a record, for the host or for nobody. *)
LEMMA UsbReceiveIInv ==
  ASSUME IInv, UsbReceive PROVE IInv'
<1>1. /\ usb_queue # <<>> /\ usb_queue' = Tail(usb_queue)
      /\ to_host' = to_host \/ to_host' = Append(to_host, Head(usb_queue))
      /\ at' = at /\ data' = data /\ connected' = connected /\ sdcard_active' = sdcard_active
      /\ sdcard_queue' = sdcard_queue /\ to_card' = to_card /\ finished' = finished
      /\ stamped' = stamped /\ switches' = switches
  BY DEF UsbReceive, envVars
<1>2. /\ to_host \in Seq(Record) /\ usb_queue \in Seq(Record) /\ Lined(to_host, usb_queue)
      /\ Len(usb_queue) <= QUEUE_SIZE /\ Len(usb_queue) \in Nat
  BY LenProperties DEF IInv, TypeOK
<1> DEFINE h == Head(usb_queue)
           q == Tail(usb_queue)
           a == Append(to_host, h)
<1>3. /\ h \in Elements(usb_queue) /\ q \in Seq(Record) /\ Len(q) = Len(usb_queue) - 1
      /\ Elements(q) \subseteq Elements(usb_queue) /\ Lined(to_host, q)
      /\ a \in Seq(Record) /\ Elements(a) \subseteq Elements(to_host) \cup {h} /\ Lined(a, q)
  <2> HIDE DEF Record, Lined, Elements
  <2> QED  BY <1>1, <1>2, LinedTail
<1> HIDE DEF h, q, a
<1>4. usb_queue' = q /\ (to_host' = to_host \/ to_host' = a)
  BY <1>1 DEF h, q, a
<1>5. /\ to_host' \in Seq(Record) /\ usb_queue' \in Seq(Record) /\ Len(usb_queue') <= QUEUE_SIZE
      /\ Lined(to_host', usb_queue')
      /\ Elements(to_host') \cup Elements(usb_queue') \subseteq
           Elements(to_host) \cup Elements(usb_queue)
  <2>1. Len(q) <= QUEUE_SIZE
    BY <1>2, <1>3, LogAssumption
  <2> HIDE DEF Record, Lined, Elements
  <2> QED  BY <1>2, <1>3, <1>4, <2>1
<1>6. TypeOK' /\ InCall'
  BY <1>1, <1>5 DEF IInv, TypeOK, InCall
<1>7. AllEntered'
  <2>1. \A r \in Elements(to_host) \cup Elements(usb_queue) : Entered(r, {"active?", "sd"})'
    BY <1>1, EnteredKept DEF IInv, AllEntered
  <2>2. \A r \in Elements(to_card) \cup Elements(sdcard_queue) : Entered(r, {})'
    BY <1>1, EnteredKept DEF IInv, AllEntered
  <2> HIDE DEF Entered
  <2>3. /\ \A r \in Elements(to_host') \cup Elements(usb_queue') : Entered(r, {"active?", "sd"})'
        /\ \A r \in Elements(to_card') \cup Elements(sdcard_queue') : Entered(r, {})'
    BY <1>1, <1>5, <2>1, <2>2
  <2> QED  BY <2>3 DEF AllEntered, Elements
<1>8. Lined(to_host, usb_queue)' /\ Lined(to_card, sdcard_queue)'
  BY <1>1, <1>5 DEF IInv, Lined, Ordered, Crossed
<1> QED  BY <1>6, <1>7, <1>8 DEF IInv

(* The writer task takes a record. *)
LEMMA SdReceiveIInv ==
  ASSUME IInv, SdReceive PROVE IInv'
<1>1. /\ sdcard_queue # <<>> /\ sdcard_queue' = Tail(sdcard_queue)
      /\ to_card' = Append(to_card, Head(sdcard_queue))
      /\ at' = at /\ data' = data /\ connected' = connected /\ sdcard_active' = sdcard_active
      /\ usb_queue' = usb_queue /\ to_host' = to_host /\ finished' = finished
      /\ stamped' = stamped /\ switches' = switches
  BY DEF SdReceive, envVars
<1>2. /\ to_card \in Seq(Record) /\ sdcard_queue \in Seq(Record) /\ Lined(to_card, sdcard_queue)
      /\ Len(sdcard_queue) <= QUEUE_SIZE /\ Len(sdcard_queue) \in Nat
  BY LenProperties DEF IInv, TypeOK
<1> DEFINE h == Head(sdcard_queue)
           q == Tail(sdcard_queue)
           a == Append(to_card, h)
<1>3. /\ h \in Elements(sdcard_queue) /\ q \in Seq(Record) /\ Len(q) = Len(sdcard_queue) - 1
      /\ Elements(q) \subseteq Elements(sdcard_queue)
      /\ a \in Seq(Record) /\ Elements(a) \subseteq Elements(to_card) \cup {h} /\ Lined(a, q)
  <2> HIDE DEF Record, Lined, Elements
  <2> QED  BY <1>1, <1>2, LinedTail
<1> HIDE DEF h, q, a
<1>4. sdcard_queue' = q /\ to_card' = a
  BY <1>1 DEF h, q, a
<1>5. /\ to_card' \in Seq(Record) /\ sdcard_queue' \in Seq(Record)
      /\ Len(sdcard_queue') <= QUEUE_SIZE /\ Lined(to_card', sdcard_queue')
      /\ Elements(to_card') \cup Elements(sdcard_queue') \subseteq
           Elements(to_card) \cup Elements(sdcard_queue)
  <2>1. Len(q) <= QUEUE_SIZE
    BY <1>2, <1>3, LogAssumption
  <2> HIDE DEF Record, Lined, Elements
  <2> QED  BY <1>2, <1>3, <1>4, <2>1
<1>6. TypeOK' /\ InCall'
  BY <1>1, <1>5 DEF IInv, TypeOK, InCall
<1>7. AllEntered'
  <2>1. \A r \in Elements(to_host) \cup Elements(usb_queue) : Entered(r, {"active?", "sd"})'
    BY <1>1, EnteredKept DEF IInv, AllEntered
  <2>2. \A r \in Elements(to_card) \cup Elements(sdcard_queue) : Entered(r, {})'
    BY <1>1, EnteredKept DEF IInv, AllEntered
  <2> HIDE DEF Entered
  <2>3. /\ \A r \in Elements(to_host') \cup Elements(usb_queue') : Entered(r, {"active?", "sd"})'
        /\ \A r \in Elements(to_card') \cup Elements(sdcard_queue') : Entered(r, {})'
    BY <1>1, <1>5, <2>1, <2>2
  <2> QED  BY <2>3 DEF AllEntered, Elements
<1>8. Lined(to_host, usb_queue)' /\ Lined(to_card, sdcard_queue)'
  BY <1>1, <1>5 DEF IInv, Lined, Ordered, Crossed
<1> QED  BY <1>6, <1>7, <1>8 DEF IInv

(* Neither cable, button nor a stutter touches calls and streams. *)
LEMMA OtherIInv ==
  ASSUME IInv, Switch \/ UNCHANGED vars PROVE IInv'
<1>1. /\ at' = at /\ data' = data /\ usb_queue' = usb_queue /\ sdcard_queue' = sdcard_queue
      /\ to_host' = to_host /\ to_card' = to_card /\ finished' = finished
      /\ stamped' = stamped
  BY DEF Switch, vars, queueVars, readerVars, envVars
<1>2. connected' \in BOOLEAN /\ sdcard_active' \in BOOLEAN /\ switches' \in 0..MaxSwitch
  <2>1. connected \in BOOLEAN /\ sdcard_active \in BOOLEAN /\ switches \in 0..MaxSwitch
    BY DEF IInv, TypeOK
  <2>2. CASE UNCHANGED vars
    BY <2>1, <2>2 DEF vars, envVars
  <2>3. CASE Switch
    <3>1. connected' \in BOOLEAN /\ sdcard_active' \in BOOLEAN
      BY <2>1, <2>3, Zenon DEF Switch
    <3>2. switches' \in 0..MaxSwitch
      BY <2>1, <2>3, LogAssumption DEF Switch
    <3> QED  BY <3>1, <3>2
  <2> QED  BY <2>2, <2>3
<1>3. TypeOK' /\ InCall'
  BY <1>1, <1>2 DEF IInv, TypeOK, InCall
<1>4. AllEntered'
  BY <1>1 DEF IInv, AllEntered, Elements, Entered
<1>5. Lined(to_host, usb_queue)' /\ Lined(to_card, sdcard_queue)'
  BY <1>1 DEF IInv, Lined, Ordered, Crossed
<1> QED  BY <1>3, <1>4, <1>5 DEF IInv

(* IInv holds initially. *)
LEMMA InitIInv == Init => IInv
<1> SUFFICES ASSUME Init PROVE IInv
  OBVIOUS
<1>1. TypeOK
  <2>1. <<>> \in Seq(Record) /\ Len(<<>>) = 0 /\ 0 <= QUEUE_SIZE
    BY EmptySeq, LogAssumption
  <2> HIDE DEF Record
  <2> QED  BY <2>1, LogAssumption DEF Init, TypeOK
<1>2. InCall
  BY DEF Init, InCall
<1>3. DOMAIN <<>> = {}
  OBVIOUS
<1>4. /\ to_host = <<>> /\ usb_queue = <<>> /\ to_card = <<>> /\ sdcard_queue = <<>>
  BY DEF Init
<1>5. AllEntered /\ Lined(to_host, usb_queue) /\ Lined(to_card, sdcard_queue)
  BY <1>3, <1>4 DEF AllEntered, Elements, Lined, Ordered, Crossed
<1> QED  BY <1>1, <1>2, <1>5 DEF IInv

(* IInv is an invariant: how far each call is says what of its record is in *)
(* which stream, and every record knows which calls it may not precede.     *)
THEOREM Invariance == Spec => []IInv
<1>1. Init => IInv
  BY InitIInv
<1>2. IInv /\ [Next]_vars => IInv'
  <2> SUFFICES ASSUME IInv, [Next]_vars PROVE IInv'
    OBVIOUS
  <2>1. ASSUME NEW c \in Callers, log_data(c) PROVE IInv'
    <3>1. CASE TestConnected(c) \/ TestActive(c)
      BY <2>1, <3>1, TestIInv
    <3>2. CASE SendUsb(c)
      BY <2>1, <3>2, SendUsbIInv
    <3>3. CASE SendSd(c)
      BY <2>1, <3>3, SendSdIInv
    <3> QED  BY <2>1, <3>1, <3>2, <3>3 DEF log_data
  <2>2. ASSUME NEW c \in Callers, NEW t \in Types(c), Stamp(c, t) PROVE IInv'
    BY <2>2, StampIInv
  <2>6. ASSUME its_log_data PROVE IInv'
    BY <2>2, <2>6 DEF its_log_data, Callers, Types
  <2>7. ASSUME gps_log_data PROVE IInv'
    BY <2>2, <2>7 DEF gps_log_data, Callers, Types
  <2>3. CASE UsbReceive
    BY <2>3, UsbReceiveIInv
  <2>4. CASE SdReceive
    BY <2>4, SdReceiveIInv
  <2>5. CASE Switch \/ UNCHANGED vars
    BY <2>5, OtherIInv
  <2> QED  BY <2>1, <2>6, <2>7, <2>3, <2>4, <2>5 DEF Next
<1> QED  BY <1>1, <1>2, PTL DEF Spec

(* Every variable keeps its type and both queues their bound. *)
THEOREM TypeCorrect == Spec => []TypeOK
<1>1. IInv => TypeOK
  BY DEF IInv
<1> QED  BY <1>1, Invariance, PTL

(* Both readers get the records in an order that agrees with real time,     *)
(* wherever the callers of log_data interrupt each other.                   *)
THEOREM InOrderOfCalls == Spec => []RealTimeOrder
<1>1. IInv => RealTimeOrder
  <2> SUFFICES ASSUME IInv PROVE RealTimeOrder
    OBVIOUS
  <2>1. /\ to_host \in Seq(Record) /\ usb_queue \in Seq(Record) /\ Lined(to_host, usb_queue)
        /\ to_card \in Seq(Record) /\ sdcard_queue \in Seq(Record)
        /\ Lined(to_card, sdcard_queue)
    BY DEF IInv, TypeOK
  <2> HIDE DEF Record
  <2>2. InRealTime(to_host \o usb_queue) /\ InRealTime(to_card \o sdcard_queue)
    BY <2>1, LinedInRealTime
  <2> QED  BY <2>2 DEF RealTimeOrder, HostStream, CardStream
<1> QED  BY <1>1, Invariance, PTL
=============================================================================

----------------------------- MODULE BootProofs -----------------------------
(***************************************************************************)
(* What Boot and its step gps_ubx_init (UbxInit) promise, for every number *)
(* of rounds, of frames read for a command and of messages in a burst, and *)
(* whatever is lost or refused: the UBX read task is started only over a   *)
(* receiver that speaks UBX at the UART's baud rate, a receiver that knows *)
(* UBX and loses nothing ends configured, nothing is used before app_main  *)
(* has made it, and version and the whole info text come first.            *)
(***************************************************************************)
EXTENDS Boot, SequenceTheorems, TLAPS

Frame ==
  [type : {"cfg_prt", "ack_prt", "mon_ver", "ack_msg", "nav"}, baud : Nat, rate : Nat, ok : BOOLEAN]
NavSet == {"status", "posllh", "velned", "timeutc"}
Answers == {"ack_prt", "mon_ver", "ack_msg"}  \* the last frame of an answer

Places ==
  {"try", "set_baud", "retry_115200", "retry_9600", "set_proto", "version", "messages", "done"}

LinkType ==
  /\ pc \in Places /\ attempt \in Nat /\ (pc = "messages" => attempt \in 0..3)
  /\ rxq \in Seq(Frame) /\ frame \in Nat \cup {NULL} /\ baud \in Nat
  /\ gps \in [baud : Nat, out : {"nmea", "ubx"}, msgs : SUBSET NavSet]
  /\ {sent, found} \subseteq BOOLEAN /\ try \in Nat
(* Only a receiver that knows UBX sends messages. *)
Quiet == world \in Worlds /\ build \subseteq BOOLEAN /\ (~Ublox => gps.msgs = {})
(* A damaged frame leaves the answer to come: harmless before a poll that   *)
(* flushes it and where no result is looked at any more.                    *)
Loose == Lossy /\ (pc \in {"version", "messages", "done"} \/ (Trying /\ ~sent))
(* The command on its way is that of the place in gps_ubx_init.             *)
WireFits ==
  wire # NULL =>
    /\ sent \/ Loose
    /\ wire.type \in {"poll_prt", "poll_ver", "set_prt", "set_msg", "garbage"}
    /\ wire.type = "set_msg" => wire.msg \in NavSet
    /\ pc \in {"version", "messages"} \/ result = TRUE => wire.type \in {"poll_ver", "set_msg"}
    /\ pc = "set_proto" => wire.type \in {"set_prt", "garbage"}
    /\ wire.type = "set_prt" =>
         /\ wire.rate \in Nat /\ wire.out \in {"nmea", "ubx"}
         /\ pc = "set_proto" => wire.out = "ubx"
(* An answer comes only to a command that was sent and is no longer on its  *)
(* way; nothing comes after it, and so nothing of it is left for the next   *)
(* command.                                                                 *)
AnswerLast ==
  ~Loose =>
    \A i \in DOMAIN rxq :
      /\ rxq[i].type # "nav" => sent /\ wire = NULL
      /\ rxq[i].type \in Answers => i = Len(rxq)
(* Before a command at most one burst waits, and no command reads as many   *)
(* frames as it may.                                                        *)
Budget ==
  /\ try <= Tries
  /\ ~sent => try = 0
  /\ ~Loose => /\ ~sent => Len(rxq) <= MaxPending
               /\ try + Len(rxq) + (IF wire = NULL THEN 0 ELSE 2) <= MaxPending + 2
(* An acknowledge of set_proto at the UART's rate is of the settings kept.  *)
AckFits ==
  \A i \in DOMAIN rxq :
    pc = "set_proto" /\ rxq[i].type = "ack_prt" /\ rxq[i].ok =>
      rxq[i].baud = gps.baud /\ gps.out = "ubx"
Heard ==
  /\ pc \in {"version", "messages"} \/ result = TRUE => gps.baud = baud /\ gps.out = "ubx"
  /\ pc = "done" => ~sent
  /\ result # NULL => pc = "done"
IInv == LinkType /\ Quiet /\ WireFits /\ AnswerLast /\ Budget /\ AckFits /\ Heard

-----------------------------------------------------------------------------

(* What the proofs need of the constants. *)
LEMMA Consts ==
  /\ MaxPending \in Nat /\ Tries \in Nat /\ Tries > MaxPending + 2
  /\ NULL \notin Nat /\ NULL # TRUE /\ NULL # FALSE
BY InitAssumption

(* The bauds are numbers, the messages are those of NavSet. *)
LEMMA Tables ==
  /\ \A i \in 1..5 : Bauds[i] \in Nat
  /\ Len(Bauds) = 5
  /\ \A i \in 0..3 : NavMsgs[i + 1] \in NavSet
  /\ Len(NavMsgs) = 4
<1>1. \A i \in 1..5 : i = 1 \/ i = 2 \/ i = 3 \/ i = 4 \/ i = 5
  OBVIOUS
<1>2. \A i \in 0..3 : i = 0 \/ i = 1 \/ i = 2 \/ i = 3
  OBVIOUS
<1> QED  BY <1>1, <1>2 DEF Bauds, NavMsgs, NavSet

(* gps_ubx_init before its first command, over any receiver. *)
Fresh ==
  /\ pc = "try" /\ attempt = 0 /\ baud = 9600
  /\ frame = NULL /\ sent = FALSE /\ found = FALSE /\ try = 0
  /\ wire = NULL /\ rxq = <<>> /\ result = NULL
GpsType == gps \in [baud : Nat, out : {"nmea", "ubx"}, msgs : SUBSET NavSet]

(* The invariant holds when gps_ubx_init starts. *)
LEMMA FreshIInv == Fresh /\ GpsType /\ Quiet => IInv
<1> SUFFICES ASSUME Fresh, GpsType, Quiet PROVE IInv
  OBVIOUS
<1>1. LinkType
  <2>1. pc = "try" /\ attempt = 0 /\ baud = 9600 /\ try = 0 /\ rxq = <<>> /\ frame = NULL
    BY DEF Fresh
  <2>2. sent \in BOOLEAN /\ found \in BOOLEAN
    BY DEF Fresh
  <2>3. pc \in Places /\ pc # "messages"
    BY <2>1 DEF Places
  <2>4. <<>> \in Seq(Frame)
    BY EmptySeq
  <2>5. attempt \in Nat /\ try \in Nat /\ baud \in Nat /\ frame \in Nat \cup {NULL}
    BY <2>1
  <2> QED  BY <2>1, <2>2, <2>3, <2>4, <2>5 DEF LinkType, GpsType
<1>2. Len(rxq) = 0 /\ DOMAIN rxq = {} /\ wire = NULL /\ ~sent /\ try = 0
  BY EmptySeq DEF Fresh
<1>3. WireFits /\ AnswerLast /\ AckFits
  BY <1>2 DEF WireFits, AnswerLast, AckFits
<1>4. Budget
  BY <1>2, Consts DEF Budget
<1>5. Heard
  <2>1. pc = "try" /\ result = NULL
    BY DEF Fresh
  <2>2. result # TRUE
    BY <2>1, Consts
  <2> QED  BY <2>1, <2>2 DEF Heard
<1> QED  BY <1>1, <1>3, <1>4, <1>5 DEF IInv

(* gps_ubx_init starts in it. *)
LEMMA InitIInv == Init => IInv
<1> SUFFICES ASSUME Init PROVE IInv
  OBVIOUS
<1>1. GpsType
  <2>1. CASE gps = [baud |-> 115200, out |-> "ubx", msgs |-> {"status", "posllh"}]
    BY <2>1 DEF NavSet, GpsType
  <2>2. CASE \E i \in DOMAIN Bauds : gps = [baud |-> Bauds[i], out |-> "nmea", msgs |-> {}]
    <3>1. DOMAIN Bauds = 1..5
      BY DEF Bauds
    <3> QED  BY <2>2, <3>1, Tables DEF GpsType
  <2> QED  BY <2>1, <2>2 DEF Init
<1>2. Quiet
  <2>1. \A b \in Builds : b \subseteq BOOLEAN
    BY InitAssumption
  <2> QED  BY <2>1 DEF Init, Quiet
<1>3. Fresh
  BY DEF Init, Fresh
<1> QED  BY <1>1, <1>2, <1>3, FreshIInv

-----------------------------------------------------------------------------
(* The receiver. *)

(* Appending a frame to the queue. *)
LEMMA FrameAppended ==
  ASSUME LinkType, NEW f \in Frame
  PROVE  /\ Append(rxq, f) \in Seq(Frame) /\ Len(Append(rxq, f)) = Len(rxq) + 1
         /\ DOMAIN Append(rxq, f) = 1..(Len(rxq) + 1) /\ Len(rxq) \in Nat
         /\ Append(rxq, f)[Len(rxq) + 1] = f
         /\ DOMAIN rxq = 1..Len(rxq)
         /\ \A i \in 1..Len(rxq) : Append(rxq, f)[i] = rxq[i]
<1>1. rxq \in Seq(Frame) /\ DOMAIN rxq = 1..Len(rxq) /\ Len(rxq) \in Nat
  BY LenProperties DEF LinkType
<1> HIDE DEF Frame
<1>2. /\ Append(rxq, f) \in Seq(Frame) /\ Len(Append(rxq, f)) = Len(rxq) + 1
      /\ Append(rxq, f)[Len(rxq) + 1] = f
      /\ \A i \in 1..Len(rxq) : Append(rxq, f)[i] = rxq[i]
  BY <1>1, AppendProperties
<1>3. DOMAIN Append(rxq, f) = 1..(Len(rxq) + 1)
  BY <1>2, LenProperties
<1> QED  BY <1>1, <1>2, <1>3

(* What the receiver appends are frames. *)
LEMMA FramesAppended ==
  ASSUME LinkType, NEW a \in Frame,
         \/ rxq' = Append(rxq, a)
         \/ \E c \in Frame : rxq' = rxq \o <<c, a>>
  PROVE  rxq' \in Seq(Frame)
<1>1. CASE rxq' = Append(rxq, a)
  BY <1>1, FrameAppended
<1>2. ASSUME NEW c \in Frame, rxq' = rxq \o <<c, a>>
      PROVE  rxq' \in Seq(Frame)
  <2> HIDE DEF Frame
  <2>1. rxq \in Seq(Frame) /\ <<c, a>> \in Seq(Frame)
    BY DEF LinkType
  <2> QED  BY <1>2, <2>1, ConcatProperties
<1> QED  BY <1>1, <1>2

(* One frame of an answer that ends it, or an answer of two. *)
LEMMA Answered ==
  ASSUME IInv, ~Loose, wire # NULL, wire' = NULL, sent' = sent, try' = try,
         NEW a \in Frame, a.type \in Answers,
         \/ rxq' = Append(rxq, a)
         \/ \E c \in Frame : c.type = "cfg_prt" /\ rxq' = rxq \o <<c, a>>
  PROVE  /\ rxq' \in Seq(Frame) /\ AnswerLast' /\ Budget'
         /\ \A i \in DOMAIN rxq' : rxq'[i].type \in Answers => rxq'[i] = a
<1>1. /\ rxq \in Seq(Frame) /\ DOMAIN rxq = 1..Len(rxq) /\ Len(rxq) \in Nat /\ try \in Nat
      /\ sent /\ \A i \in 1..Len(rxq) : rxq[i].type = "nav"
  BY LenProperties DEF IInv, LinkType, WireFits, AnswerLast
<1>2. Len(rxq) + try <= MaxPending /\ try <= Tries
  BY <1>1, Consts DEF IInv, Budget
<1>3. CASE rxq' = Append(rxq, a)
  <2>1. /\ rxq' \in Seq(Frame) /\ Len(rxq') = Len(rxq) + 1 /\ DOMAIN rxq' = 1..(Len(rxq) + 1)
        /\ rxq'[Len(rxq) + 1] = a /\ \A i \in 1..Len(rxq) : rxq'[i] = rxq[i]
    BY <1>3, FrameAppended DEF IInv
  <2>2. \A i \in DOMAIN rxq' : i = Len(rxq') \/ i \in 1..Len(rxq)
    BY <1>1, <2>1
  <2>3. \A i \in DOMAIN rxq' :
          rxq'[i].type \in Answers => i = Len(rxq') /\ rxq'[i] = a
    BY <1>1, <2>1, <2>2 DEF Answers
  <2>4. AnswerLast'
    BY <1>1, <2>3 DEF AnswerLast
  <2>5. Budget'
    BY <1>1, <1>2, <2>1, Consts DEF Budget
  <2> QED  BY <2>1, <2>3, <2>4, <2>5
<1>4. ASSUME NEW c \in Frame, c.type = "cfg_prt", rxq' = rxq \o <<c, a>>
      PROVE  /\ rxq' \in Seq(Frame) /\ AnswerLast' /\ Budget'
             /\ \A i \in DOMAIN rxq' : rxq'[i].type \in Answers => rxq'[i] = a
  <2>1. <<c, a>> \in Seq(Frame) /\ Len(<<c, a>>) = 2 /\ <<c, a>>[1] = c /\ <<c, a>>[2] = a
    <3> HIDE DEF Frame
    <3> QED  OBVIOUS
  <2>2. /\ rxq' \in Seq(Frame) /\ Len(rxq') = Len(rxq) + 2
        /\ \A i \in 1..(Len(rxq) + 2) :
             rxq'[i] = IF i <= Len(rxq) THEN rxq[i] ELSE <<c, a>>[i - Len(rxq)]
    BY <1>1, <1>4, <2>1, ConcatProperties
  <2>3. DOMAIN rxq' = 1..(Len(rxq) + 2)
    BY <2>2, LenProperties
  <2>4. \A i \in DOMAIN rxq' : i \in 1..Len(rxq) \/ i = Len(rxq) + 1 \/ i = Len(rxq')
    BY <1>1, <2>2, <2>3
  <2>5. rxq'[Len(rxq) + 1] = c /\ rxq'[Len(rxq')] = a /\ \A i \in 1..Len(rxq) : rxq'[i] = rxq[i]
    <3>1. Len(rxq) + 1 \in 1..(Len(rxq) + 2) /\ Len(rxq) + 2 \in 1..(Len(rxq) + 2)
          /\ Len(rxq) + 1 - Len(rxq) = 1 /\ Len(rxq) + 2 - Len(rxq) = 2
          /\ ~(Len(rxq) + 1 <= Len(rxq)) /\ ~(Len(rxq) + 2 <= Len(rxq))
          /\ \A i \in 1..Len(rxq) : i \in 1..(Len(rxq) + 2) /\ i <= Len(rxq)
      BY <1>1
    <3> QED  BY <2>1, <2>2, <3>1
  <2>6. \A i \in DOMAIN rxq' :
          rxq'[i].type \in Answers => i = Len(rxq') /\ rxq'[i] = a
    BY <1>1, <1>4, <2>4, <2>5 DEF Answers
  <2>7. AnswerLast'
    BY <1>1, <2>6 DEF AnswerLast
  <2>8. Budget'
    BY <1>1, <1>2, <2>2, Consts DEF Budget
  <2> QED  BY <2>2, <2>6, <2>7, <2>8
<1> QED  BY <1>3, <1>4

(* The first frame is taken, by the ESP or by nobody. *)
LEMMA FrameTaken ==
  ASSUME IInv, rxq # <<>>, rxq' = Tail(rxq)
  PROVE  /\ rxq' \in Seq(Frame) /\ Head(rxq) = rxq[1] /\ Head(rxq) \in Frame
         /\ Len(rxq) \in Nat /\ Len(rxq) >= 1 /\ Len(rxq') = Len(rxq) - 1
         /\ 1 \in DOMAIN rxq
         /\ \A i \in DOMAIN rxq' : i + 1 \in DOMAIN rxq /\ rxq'[i] = rxq[i + 1]
                                   /\ i \in Nat
<1> HIDE DEF Frame
<1>1. rxq \in Seq(Frame) /\ DOMAIN rxq = 1..Len(rxq) /\ Len(rxq) \in Nat
  BY LenProperties DEF IInv, LinkType
<1>2. Tail(rxq) \in Seq(Frame) /\ Len(Tail(rxq)) = Len(rxq) - 1
      /\ Head(rxq) \in Frame /\ Head(rxq) = rxq[1]
      /\ \A i \in 1..(Len(rxq) - 1) : Tail(rxq)[i] = rxq[i + 1]
  BY <1>1, HeadTailProperties
<1>3. DOMAIN Tail(rxq) = 1..(Len(rxq) - 1)
  BY <1>2, LenProperties
<1>4. Len(rxq) >= 1
  BY <1>1, EmptySeq
<1> QED  BY <1>1, <1>2, <1>3, <1>4

(* What is left after one frame is still an answer with nothing after it.   *)
LEMMA RestFits ==
  ASSUME IInv, rxq # <<>>, rxq' = Tail(rxq), wire' = wire, sent' = sent, pc' = pc, gps' = gps,
         world' = world
  PROVE  /\ rxq' \in Seq(Frame) /\ AnswerLast' /\ AckFits' /\ Loose' = Loose
<1>1. /\ rxq' \in Seq(Frame) /\ Len(rxq) \in Nat /\ Len(rxq') = Len(rxq) - 1
      /\ \A i \in DOMAIN rxq' : i + 1 \in DOMAIN rxq /\ rxq'[i] = rxq[i + 1] /\ i \in Nat
  BY FrameTaken
<1>0. Loose' = Loose
  BY DEF Loose, Lossy, Trying
<1>2. AnswerLast'
  BY <1>0, <1>1 DEF IInv, AnswerLast
<1>3. AckFits'
  BY <1>1 DEF IInv, AckFits
<1> QED  BY <1>0, <1>1, <1>2, <1>3

(* The receiver takes a command, and answers it or not. *)
LEMMA HandleIInv == IInv /\ Handle => IInv'
<1> SUFFICES ASSUME IInv, Handle PROVE IInv'
  OBVIOUS
<1>1. /\ wire # NULL /\ wire' = NULL /\ world' = world /\ build' = build /\ pc' = pc
      /\ attempt' = attempt /\ baud' = baud /\ frame' = frame /\ sent' = sent
      /\ found' = found /\ try' = try
      /\ result' = result
  BY DEF Handle, constVars, cmdVars
<1>2. Loose' = Loose /\ (~Loose => sent)
  BY <1>1 DEF IInv, WireFits, Loose, Lossy, Trying
<1>3. WireFits'
  BY <1>1 DEF WireFits
<1>4. CASE UNCHANGED <<gps, rxq>>
  <2>1. gps' = gps /\ rxq' = rxq
    BY <1>4
  <2>2. LinkType' /\ Quiet' /\ Heard'
    BY <1>1, <2>1 DEF IInv, LinkType, Quiet, Ublox, Heard
  <2>3. AnswerLast' /\ AckFits'
    BY <1>1, <1>2, <2>1 DEF IInv, AnswerLast, AckFits
  <2>4. Len(rxq) \in Nat /\ try \in Nat
    BY LenProperties DEF IInv, LinkType
  <2>5. Budget'
    BY <1>1, <1>2, <2>1, <2>4, Consts DEF IInv, Budget
  <2> QED  BY <1>3, <2>2, <2>3, <2>5 DEF IInv
<1>5. ASSUME Ublox, Obey \/ Refuse
      PROVE  IInv'
  <2>1. /\ gps' \in [baud : Nat, out : {"nmea", "ubx"}, msgs : SUBSET NavSet]
        /\ (wire.type # "set_prt" => gps'.baud = gps.baud /\ gps'.out = gps.out)
        /\ (wire.type = "set_prt" => gps' = gps \/ gps'.out = wire.out)
    <3>1. /\ gps \in [baud : Nat, out : {"nmea", "ubx"}, msgs : SUBSET NavSet]
          /\ wire.type = "set_prt" => wire.rate \in Nat /\ wire.out \in {"nmea", "ubx"}
          /\ wire.type = "set_msg" => wire.msg \in NavSet
      BY <1>1 DEF IInv, LinkType, WireFits
    <3>2. CASE gps' = gps
      BY <3>1, <3>2
    <3>3. CASE wire.type = "set_prt" /\ gps' = [gps EXCEPT !.baud = wire.rate, !.out = wire.out]
      BY <3>1, <3>3
    <3>4. CASE wire.type = "set_msg" /\ gps' = [gps EXCEPT !.msgs = @ \cup {wire.msg}]
      BY <3>1, <3>4
    <3> QED  BY <1>5, <3>2, <3>3, <3>4 DEF Obey, Refuse
  <2>2. PICK a \in Frame :
          /\ a.type \in Answers /\ a.baud = gps'.baud
          /\ (a.ok => wire.type # "set_prt" \/ gps'.out = wire.out)
          /\ \/ rxq' = Append(rxq, a)
             \/ \E c \in Frame : c.type = "cfg_prt" /\ rxq' = rxq \o <<c, a>>
    <3>1. /\ \A t \in {"ack_prt", "mon_ver", "ack_msg"}, o \in BOOLEAN :
               Other(t, o) \in Frame /\ Other(t, o).type = t /\ Other(t, o).ok = o
               /\ Other(t, o).baud = gps'.baud
          /\ Reply(gps.baud) \in Frame /\ Reply(gps.baud).type = "cfg_prt"
      BY <2>1 DEF Other, Reply, Frame, IInv, LinkType
    <3>2. CASE wire.type = "poll_prt" /\ rxq' = rxq \o <<Reply(gps.baud), Other("ack_prt", TRUE)>>
      BY <3>1, <3>2 DEF Answers
    <3>3. CASE wire.type = "poll_ver" /\ rxq' = Append(rxq, Other("mon_ver", TRUE))
      BY <3>1, <3>3 DEF Answers
    <3>4. CASE /\ wire.type = "set_prt" /\ gps' = [gps EXCEPT !.baud = wire.rate, !.out = wire.out]
               /\ rxq' = Append(rxq, Other("ack_prt", TRUE))
      <4>1. gps'.out = wire.out
        BY <3>4 DEF IInv, LinkType
      <4> QED  BY <3>1, <3>4, <4>1 DEF Answers
    <3>5. CASE wire.type = "set_msg" /\ rxq' = Append(rxq, Other("ack_msg", TRUE))
      BY <3>1, <3>5 DEF Answers
    <3>6. CASE Refuse
      BY <3>1, <3>6 DEF Answers, Refuse
    <3> QED  BY <1>5, <3>2, <3>3, <3>4, <3>5, <3>6 DEF Obey
  <2>3. /\ rxq' \in Seq(Frame) /\ AnswerLast' /\ Budget'
        /\ ~Loose => \A i \in DOMAIN rxq' : rxq'[i].type \in Answers => rxq'[i] = a
    <3>1. CASE ~Loose
      BY <1>1, <2>2, <3>1, Answered
    <3>2. CASE Loose
      <4>1. rxq' \in Seq(Frame)
        BY <2>2, FramesAppended DEF IInv
      <4>2. AnswerLast'
        BY <1>2, <3>2 DEF AnswerLast
      <4>3. Budget'
        BY <1>1, <1>2, <3>2 DEF IInv, Budget
      <4> QED  BY <3>2, <4>1, <4>2, <4>3
    <3> QED  BY <3>1, <3>2
  <2>4. LinkType' /\ Quiet'
    BY <1>1, <1>5, <2>1, <2>3 DEF IInv, LinkType, Quiet, Ublox
  <2>5. AckFits'
    <3> SUFFICES ASSUME NEW i \in DOMAIN rxq', pc = "set_proto", rxq'[i].type = "ack_prt",
                        rxq'[i].ok
                 PROVE  rxq'[i].baud = gps'.baud /\ gps'.out = "ubx"
      BY <1>1 DEF AckFits
    <3>0. ~Loose
      BY DEF Loose, Trying
    <3>1. rxq'[i] = a
      BY <2>3, <3>0 DEF Answers
    <3>2. wire.type \in {"set_prt", "garbage"} /\ (wire.type = "set_prt" => wire.out = "ubx")
      BY <1>1 DEF IInv, WireFits
    <3>3. wire.type # "garbage"
      BY <1>5 DEF Obey, Refuse
    <3> QED  BY <2>2, <3>1, <3>2, <3>3
  <2>6. Heard'
    <3>1. pc \in {"version", "messages"} \/ result = TRUE => wire.type # "set_prt"
      BY <1>1 DEF IInv, WireFits
    <3> QED  BY <1>1, <2>1, <3>1 DEF IInv, Heard
  <2> QED  BY <1>3, <2>3, <2>4, <2>5, <2>6 DEF IInv
<1> QED  BY <1>4, <1>5 DEF Handle

(* A message between commands, or between a command and its answer.         *)
LEMMA SendNavIInv == IInv /\ SendNav => IInv'
<1> SUFFICES ASSUME IInv, SendNav PROVE IInv'
  OBVIOUS
<1>1. /\ wire' = wire /\ world' = world /\ build' = build /\ pc' = pc /\ gps' = gps
      /\ attempt' = attempt
      /\ baud' = baud /\ frame' = frame /\ sent' = sent /\ found' = found /\ try' = try
      /\ result' = result /\ rxq' = Append(rxq, Nav)
  BY DEF SendNav, constVars, cmdVars
<1>2. Ublox /\ ~Chatter
  BY DEF SendNav, IInv, Quiet, Ublox, Chatter
<1>3. (wire # NULL \/ rxq = <<>>) /\ Len(rxq) + try < MaxPending
  BY <1>2 DEF SendNav
<1>4. Nav \in Frame /\ Nav.type = "nav"
  BY DEF IInv, LinkType, Frame, Nav
<1>5. /\ rxq' \in Seq(Frame) /\ Len(rxq') = Len(rxq) + 1 /\ DOMAIN rxq' = 1..(Len(rxq) + 1)
      /\ rxq'[Len(rxq) + 1] = Nav /\ \A i \in 1..Len(rxq) : rxq'[i] = rxq[i]
      /\ DOMAIN rxq = 1..Len(rxq) /\ Len(rxq) \in Nat
  BY <1>1, <1>4, FrameAppended DEF IInv
<1>6. ~Loose => \A i \in 1..Len(rxq) : rxq[i].type = "nav"
  <2>1. CASE rxq = <<>>
    BY <2>1, <1>5, EmptySeq
  <2>2. CASE wire # NULL
    BY <2>2, <1>5 DEF IInv, AnswerLast
  <2> QED  BY <1>3, <2>1, <2>2
<1>a. Loose' = Loose
  BY <1>1 DEF Loose, Lossy, Trying
<1>7. ~Loose => \A i \in DOMAIN rxq' : rxq'[i].type = "nav"
  <2>1. \A i \in DOMAIN rxq' : i = Len(rxq) + 1 \/ i \in 1..Len(rxq)
    BY <1>5
  <2> QED  BY <1>4, <1>5, <1>6, <2>1
<1>8. AnswerLast' /\ AckFits'
  <2>1. AnswerLast'
    BY <1>7, <1>a DEF AnswerLast, Answers
  <2>2. Loose => pc # "set_proto"
    BY DEF Loose, Trying
  <2>3. AckFits'
    BY <1>1, <1>7, <2>2 DEF AckFits
  <2> QED  BY <2>1, <2>3
<1>9. try \in Nat /\ try <= Tries /\ (~sent => try = 0)
  BY DEF IInv, LinkType, Budget
<1>10. Budget'
  BY <1>1, <1>3, <1>5, <1>9, Consts DEF Budget
<1>11. LinkType' /\ Quiet' /\ WireFits' /\ Heard'
  BY <1>1, <1>5, <1>a DEF IInv, LinkType, Quiet, Ublox, WireFits, Heard
<1> QED  BY <1>8, <1>10, <1>11 DEF IInv

(* A frame is lost. *)
LEMMA LoseIInv == IInv /\ Lose => IInv'
<1> SUFFICES ASSUME IInv, Lose PROVE IInv'
  OBVIOUS
<1>1. /\ wire' = wire /\ world' = world /\ build' = build /\ pc' = pc /\ gps' = gps
      /\ attempt' = attempt
      /\ baud' = baud /\ frame' = frame /\ sent' = sent /\ found' = found /\ try' = try
      /\ result' = result /\ rxq # <<>> /\ rxq' = Tail(rxq)
  BY DEF Lose, constVars, cmdVars
<1>2. rxq' \in Seq(Frame) /\ AnswerLast' /\ AckFits' /\ Loose' = Loose
  BY <1>1, RestFits
<1>3. Len(rxq) \in Nat /\ Len(rxq') = Len(rxq) - 1 /\ Len(rxq) >= 1
  BY <1>1, FrameTaken
<1>4. Budget'
  BY <1>1, <1>2, <1>3, Consts DEF IInv, Budget, LinkType
<1>5. LinkType' /\ Quiet' /\ WireFits' /\ Heard'
  BY <1>1, <1>2 DEF IInv, LinkType, Quiet, Ublox, WireFits, Heard
<1> QED  BY <1>2, <1>4, <1>5 DEF IInv

-----------------------------------------------------------------------------
(* The ESP. *)

(* A command is sent. *)
LEMMA TxIInv == IInv /\ Tx /\ UNCHANGED constVars => IInv'
<1> SUFFICES ASSUME IInv, Tx, UNCHANGED constVars PROVE IInv'
  OBVIOUS
<1>1. /\ pc # "done" /\ ~sent /\ wire = NULL /\ wire' = Message /\ sent' = TRUE
      /\ pc' = pc /\ attempt' = attempt /\ frame' = frame /\ found' = found /\ try' = try
      /\ gps' = gps /\ result' = result /\ world' = world /\ build' = build
  BY DEF Tx, constVars
<1>2. /\ ~Trying => baud' = baud /\ rxq' = rxq
      /\ Trying => baud' = TryBaud /\ rxq' = <<>>
  BY DEF Tx
<1>3. /\ rxq \in Seq(Frame) /\ Len(rxq) \in Nat /\ try = 0
      /\ ~Loose => /\ Len(rxq) <= MaxPending
                   /\ \A i \in DOMAIN rxq : rxq[i].type = "nav"
  BY <1>1, LenProperties DEF IInv, LinkType, Budget, AnswerLast
<1>4. /\ rxq' \in Seq(Frame) /\ Len(rxq') \in Nat
      /\ ~Loose' => /\ Len(rxq') <= MaxPending
                    /\ \A i \in DOMAIN rxq' : rxq'[i].type = "nav"
  <2>1. CASE Trying
    BY <1>2, <2>1, EmptySeq, Consts
  <2>2. CASE ~Trying
    <3>1. Loose' = Loose
      BY <1>1, <2>2 DEF Loose, Lossy, Trying
    <3> QED  BY <1>2, <1>3, <2>2, <3>1
  <2> QED  BY <2>1, <2>2
<1>5. AnswerLast' /\ AckFits'
  <2>1. AnswerLast'
    BY <1>4 DEF AnswerLast, Answers
  <2>2. pc = "set_proto" => ~Loose'
    BY <1>1 DEF Loose, Trying
  <2>3. AckFits'
    BY <1>1, <1>4, <2>2 DEF AckFits
  <2> QED  BY <2>1, <2>3
<1>6. Budget'
  BY <1>1, <1>3, <1>4, Consts DEF Budget
<1>7. TryBaud \in Nat
  <2>1. (attempt % Len(Bauds)) + 1 \in 1..5
    BY Tables DEF IInv, LinkType
  <2>2. Bauds[(attempt % Len(Bauds)) + 1] \in Nat
    BY <2>1, Tables
  <2> QED  BY <2>2 DEF TryBaud
<1>8. LinkType' /\ Quiet'
  BY <1>1, <1>2, <1>4, <1>7 DEF IInv, LinkType, Quiet, Ublox
<1>9. WireFits'
  <2>0. result' # TRUE /\ sent'
    BY <1>1, Consts DEF IInv, Heard
  <2>1. /\ frame \in Nat \cup {NULL} /\ gps.out \in {"nmea", "ubx"} /\ pc \in Places
        /\ pc = "messages" => attempt \in 0..3
    BY DEF IInv, LinkType
  <2>2. CASE Trying
    <3>1. wire' = [type |-> "poll_prt", baud |-> TryBaud]
      BY <1>1, <2>2 DEF Message, Trying
    <3>2. pc' \notin {"version", "messages", "set_proto"}
      BY <1>1, <2>2 DEF Trying
    <3> QED  BY <2>0, <3>1, <3>2 DEF WireFits
  <2>3. CASE pc = "version"
    BY <1>1, <2>0, <2>3 DEF Message, Trying, WireFits
  <2>4. CASE pc = "messages"
    BY <1>1, <2>0, <2>1, <2>4, Tables DEF Message, Trying, WireFits
  <2>5. CASE pc = "set_baud"
    <3>1. wire' = set_prt(115200, gps.out)
      BY <1>1, <2>5 DEF Message, Trying
    <3>2. CASE frame = NULL
      <4>1. wire' = [type |-> "garbage", baud |-> baud]
        BY <3>1, <3>2 DEF set_prt
      <4>2. wire'.type = "garbage" /\ pc' = "set_baud"
        BY <1>1, <2>5, <4>1
      <4> QED  BY <2>0, <4>2 DEF WireFits
    <3>3. CASE frame # NULL
      <4>1. wire' = [type |-> "set_prt", baud |-> baud, rate |-> 115200, out |-> gps.out]
        BY <3>1, <3>3 DEF set_prt
      <4>2. 115200 \in Nat
        BY <2>1, <3>3
      <4>3. /\ wire'.type = "set_prt" /\ wire'.rate \in Nat /\ wire'.out = gps.out
            /\ pc' = "set_baud" /\ gps.out \in {"nmea", "ubx"}
        BY <1>1, <2>1, <2>5, <4>1, <4>2
      <4> QED  BY <2>0, <4>3 DEF WireFits
    <3> QED  BY <3>2, <3>3
  <2>6. CASE pc = "set_proto"
    <3>1. wire' = set_prt(frame, "ubx")
      BY <1>1, <2>6 DEF Message, Trying
    <3>2. CASE frame = NULL
      <4>1. wire' = [type |-> "garbage", baud |-> baud]
        BY <3>1, <3>2 DEF set_prt
      <4>2. wire'.type = "garbage" /\ pc' = "set_proto"
        BY <1>1, <2>6, <4>1
      <4> QED  BY <2>0, <4>2 DEF WireFits
    <3>3. CASE frame # NULL
      <4>1. wire' = [type |-> "set_prt", baud |-> baud, rate |-> frame, out |-> "ubx"]
        BY <3>1, <3>3 DEF set_prt
      <4>2. frame \in Nat
        BY <2>1, <3>3
      <4>3. /\ wire'.type = "set_prt" /\ wire'.rate \in Nat /\ wire'.out = "ubx"
            /\ pc' = "set_proto" /\ gps.out \in {"nmea", "ubx"}
        BY <1>1, <2>1, <2>6, <4>1, <4>2
      <4> QED  BY <2>0, <4>3 DEF WireFits
    <3> QED  BY <3>2, <3>3
  <2> QED  BY <1>1, <2>1, <2>2, <2>3, <2>4, <2>5, <2>6 DEF Places, Trying
<1>10. Heard'
  <2>1. result = NULL
    BY <1>1 DEF IInv, Heard
  <2> QED  BY <1>1, <1>2, <2>1, Consts DEF IInv, Heard, Trying
<1> QED  BY <1>5, <1>6, <1>8, <1>9, <1>10 DEF IInv

(* A command returns with nothing left of its answer, or where that does no *)
(* harm; after a success of set_proto the receiver speaks UBX at the UART's *)
(* baud rate.                                                               *)
LEMMA ReturnIInv ==
  ASSUME IInv, sent, wire' = wire, rxq' \in Seq(Frame), gps' = gps, baud' = baud,
         world' = world, build' = build, frame' \in Nat \cup {NULL},
         NEW r \in BOOLEAN, Return(r),
         \/ wire = NULL /\ rxq' = <<>>
         \/ Lossy /\ (~r \/ pc \in {"version", "messages"}),
         pc = "set_proto" /\ r => gps.baud = baud /\ gps.out = "ubx"
  PROVE  IInv'
<1>1. pc # "done" /\ result = NULL /\ sent' = FALSE /\ found' = FALSE /\ try' = 0
  BY DEF IInv, Heard, Return
<1>2. PICK v \in BOOLEAN :
        /\ v = r \/ (Trying /\ r)
        /\ Tried(v) \/ BaudSet(v) \/ Retried(v) \/ ProtoSet(v) \/ Told(v)
  BY DEF Return, FallOff, IInv, Quiet
<1>3. /\ pc' \in Places
      /\ attempt' \in Nat /\ (pc' = "messages" => attempt' \in 0..3)
      /\ pc' \in {"version", "messages"} \/ result' = TRUE =>
           \/ pc \in {"version", "messages"}
           \/ pc = "set_proto" /\ r
      /\ result' # NULL => pc' = "done"
  <2>a. \A n \in Nat : n + 1 \in Nat
    OBVIOUS
  <2>b. FALSE # TRUE
    OBVIOUS
  <2>c. attempt + 1 \in Nat /\ 0 \in Nat
    BY <2>a DEF IInv, LinkType
  <2>d. ASSUME End(FALSE)
        PROVE  pc' = "done" /\ attempt' = 0 /\ result' # TRUE
    BY <2>b, <2>d DEF End
  <2>e. ASSUME NEW p \in {"try", "set_proto", "set_baud", "retry_9600", "retry_115200"},
               NEW n \in Nat, Step(p, n)
        PROVE  pc' = p /\ attempt' = n /\ result' = NULL
    BY <1>1, <2>e DEF Step
  <2>1. CASE Tried(v)
    <3>1. CASE v = TRUE
      <4>1. Step("set_proto", 0) \/ Step("set_baud", 0)
        BY <2>1, <3>1 DEF Tried
      <4> QED  BY <2>c, <2>e, <4>1, Consts DEF Places
    <3>2. CASE v = FALSE
      <4>1. Tried(FALSE)
        BY <2>1, <3>2
      <4>2. \/ pc' = "try" /\ attempt' = attempt + 1 /\ result' = NULL
            \/ pc' = "done" /\ attempt' = 0 /\ result' = FALSE
        BY <1>1, <4>1 DEF Tried, Step, End
      <4>3. CASE pc' = "try" /\ attempt' = attempt + 1 /\ result' = NULL
        <5>1. result' # TRUE
          BY <4>3, Consts
        <5> QED  BY <2>c, <4>3, <5>1 DEF Places
      <4>4. CASE pc' = "done" /\ attempt' = 0 /\ result' = FALSE
        BY <2>b, <4>4 DEF Places
      <4> QED  BY <4>2, <4>3, <4>4
    <3> QED  BY <3>1, <3>2
  <2>2. CASE BaudSet(v)
    BY <1>1, <2>2, Consts DEF BaudSet, Step, End, Places
  <2>3. CASE Retried(v)
    <3>1. Step("set_proto", 0) \/ Step("retry_9600", 0) \/ End(FALSE)
      BY <2>3 DEF Retried
    <3> QED  BY <2>c, <2>d, <2>e, <3>1, Consts DEF Places
  <2>4. CASE ProtoSet(v)
    BY <1>1, <1>2, <2>4, Consts DEF ProtoSet, Step, End, Places, Trying
  <2>5. CASE Told(v)
    BY <1>1, <2>5, Consts, Tables DEF Told, Step, End, Places, IInv, LinkType
  <2> QED  BY <1>2, <2>1, <2>2, <2>3, <2>4, <2>5
<1>4. LinkType' /\ Quiet' /\ Heard'
  <2>1. LinkType' /\ Quiet'
    BY <1>1, <1>3 DEF IInv, LinkType, Quiet, Ublox
  <2>2. Heard'
    BY <1>1, <1>3 DEF IInv, Heard
  <2> QED  BY <2>1, <2>2
<1>5. CASE wire = NULL /\ rxq' = <<>>
  <2>1. Len(rxq') = 0 /\ DOMAIN rxq' = {}
    BY <1>5, EmptySeq
  <2>2. AnswerLast' /\ AckFits'
    BY <2>1 DEF AnswerLast, AckFits
  <2>3. Budget'
    BY <1>1, <2>1, <1>5, Consts DEF Budget
  <2>4. WireFits'
    BY <1>5 DEF WireFits
  <2> QED  BY <1>4, <2>2, <2>3, <2>4 DEF IInv
<1>6. CASE Lossy /\ (~r \/ pc \in {"version", "messages"})
  <2>1. pc' \in {"try", "retry_115200", "retry_9600", "version", "messages", "done"}
    <3>1. CASE pc \in {"version", "messages"}
      BY <1>2, <3>1 DEF Tried, BaudSet, Retried, ProtoSet, Told, Step, End
    <3>2. CASE ~r
      <4>1. ~v
        BY <1>2, <3>2
      <4> QED  BY <1>2, <4>1 DEF Tried, BaudSet, Retried, ProtoSet, Told, Step, End
    <3> QED  BY <1>6, <3>1, <3>2
  <2>2. Loose' /\ pc' # "set_proto"
    BY <1>1, <1>6, <2>1 DEF Loose, Lossy, Trying
  <2>3. AnswerLast' /\ AckFits'
    BY <2>2 DEF AnswerLast, AckFits
  <2>4. Budget'
    BY <1>1, <2>2, Consts DEF Budget
  <2>5. pc' \in {"version", "messages"} \/ result' = TRUE => pc \in {"version", "messages"}
    BY <1>3, <1>6
  <2>6. WireFits'
    BY <2>2, <2>5 DEF IInv, WireFits
  <2> QED  BY <1>4, <2>3, <2>4, <2>6 DEF IInv
<1> QED  BY <1>5, <1>6

(* A frame is read: of another baud rate, one more of a command that goes   *)
(* on, or the last one of a command.                                        *)
LEMMA RxIInv == IInv /\ Rx /\ UNCHANGED constVars => IInv'
<1> SUFFICES ASSUME IInv, Rx, UNCHANGED constVars PROVE IInv'
  OBVIOUS
<1> DEFINE f == Head(rxq)
           answer == IsPoll /\ f.type = Command
           ack == f.type = AckOf
<1>1. sent /\ rxq # <<>> /\ rxq' = Tail(rxq) /\ baud' = baud /\ wire' = wire /\ gps' = gps
      /\ world' = world /\ build' = build
  BY DEF Rx, constVars
<1>2. /\ rxq' \in Seq(Frame) /\ f = rxq[1] /\ f \in Frame /\ 1 \in DOMAIN rxq
      /\ Len(rxq) \in Nat /\ Len(rxq) >= 1 /\ Len(rxq') = Len(rxq) - 1
  BY <1>1, FrameTaken
<1>0. Loose => Lossy /\ pc \in {"version", "messages"}
  BY <1>1 DEF Loose, IInv, Heard
<1>3. CASE /\ pc' = pc /\ attempt' = attempt /\ sent' = sent /\ result' = result
           /\ frame' \in Nat \cup {NULL} /\ found' \in BOOLEAN /\ try' \in {try, try + 1}
           /\ try' <= Tries
  <2>1. AnswerLast' /\ AckFits' /\ Loose' = Loose
    BY <1>1, <1>3, RestFits
  <2>2. try \in Nat
    BY DEF IInv, LinkType
  <2>3. Budget'
    BY <1>1, <1>2, <1>3, <2>1, <2>2, Consts DEF IInv, Budget
  <2>4. LinkType'
    BY <1>1, <1>2, <1>3, <2>2 DEF IInv, LinkType
  <2>5. Quiet' /\ WireFits' /\ Heard'
    BY <1>1, <1>3, <2>1 DEF IInv, Quiet, Ublox, WireFits, Heard
  <2> QED  BY <2>1, <2>3, <2>4, <2>5 DEF IInv
<1>4. ASSUME frame' \in Nat \cup {NULL}, f.type \in Answers, NEW r \in BOOLEAN, Return(r),
             pc = "set_proto" /\ r => gps.baud = baud /\ gps.out = "ubx"
      PROVE  IInv'
  <2>1. CASE ~Loose
    <3>1. Len(rxq) = 1 /\ wire = NULL
      BY <1>2, <1>4, <2>1 DEF IInv, AnswerLast, Answers
    <3>2. rxq' = <<>>
      BY <1>2, <3>1, EmptySeq
    <3> QED  BY <1>1, <1>2, <1>4, <3>1, <3>2, ReturnIInv
  <2>2. CASE Loose
    <3>1. Lossy /\ pc \in {"version", "messages"}
      BY <1>0, <2>2
    <3> QED  BY <1>1, <1>2, <1>4, <3>1, ReturnIInv
  <2> QED  BY <2>1, <2>2
<1>5. ~Loose => try + 1 < Tries
  <2>1. ~Loose => try \in Nat /\ try + Len(rxq) <= MaxPending + 2
    BY <1>2, Consts DEF IInv, LinkType, Budget
  <2> QED  BY <1>2, <2>1, Consts
<1>6. CASE UNCHANGED <<pc, attempt, frame, cmdVars, result>>
  BY <1>3, <1>6 DEF cmdVars, IInv, LinkType, Budget
<1>7. CASE f.baud = baud /\ frame' = IF answer /\ Command = "cfg_prt" THEN f.rate ELSE frame
  <2>1. frame' \in Nat \cup {NULL}
    BY <1>2, <1>7 DEF Frame, IInv, LinkType
  <2>2. CASE answer /\ Command = "mon_ver" /\ Return(TRUE)
    <3>1. f.type \in Answers /\ pc # "set_proto"
      BY <2>2 DEF Answers, Command, Trying
    <3> QED  BY <1>4, <2>1, <2>2, <3>1
  <2>3. CASE ack /\ Return((IsPoll => found) /\ f.ok)
    <3>1. f.type \in Answers
      BY <1>2, <2>3 DEF Answers, AckOf, Frame
    <3>2. pc = "set_proto" /\ f.ok => gps.baud = baud /\ gps.out = "ubx"
      BY <1>2, <1>7, <2>3 DEF AckOf, Command, IInv, AckFits
    <3> DEFINE r == (IsPoll => found) /\ f.ok
    <3>3. Return(r) /\ (pc = "set_proto" /\ r => gps.baud = baud /\ gps.out = "ubx")
      BY <2>3, <3>2
    <3>4. r \in BOOLEAN
      BY <1>2 DEF Frame
    <3> HIDE DEF r
    <3> QED  BY <1>4, <2>1, <3>1, <3>3, <3>4
  <2>4. CASE /\ try + 1 < Tries /\ found' = (found \/ answer) /\ try' = try + 1
             /\ UNCHANGED <<pc, attempt, sent, result>>
    <3>1. found' \in BOOLEAN
      BY <2>4
    <3>2. try' <= Tries
      BY <2>4, Consts DEF IInv, LinkType
    <3> QED  BY <1>3, <2>1, <2>4, <3>1, <3>2
  <2>5. ASSUME ~(try + 1 < Tries), NEW v \in FallOff, Return(v)
        PROVE  IInv'
    <3>1. Lossy /\ pc \in {"version", "messages"}
      BY <1>0, <1>5, <2>5
    <3>2. v \in BOOLEAN
      BY DEF FallOff, IInv, Quiet
    <3> QED  BY <1>1, <1>2, <2>1, <2>5, <3>1, <3>2, ReturnIInv
  <2> QED  BY <1>7, <2>2, <2>3, <2>4, <2>5 DEF Rx
<1> QED  BY <1>6, <1>7 DEF Rx

(* So does a frame that is damaged. *)
LEMMA DamagedIInv == IInv /\ Damaged /\ UNCHANGED constVars => IInv'
<1> SUFFICES ASSUME IInv, Damaged, UNCHANGED constVars PROVE IInv'
  OBVIOUS
<1>1. /\ sent /\ Lossy /\ wire' = wire /\ gps' = gps /\ baud' = baud /\ rxq # <<>>
      /\ rxq' = Tail(rxq)
      /\ world' = world /\ build' = build /\ frame' = frame /\ Return(FALSE)
  BY DEF Damaged, constVars
<1>2. frame' \in Nat \cup {NULL} /\ rxq' \in Seq(Frame)
  BY <1>1, FrameTaken DEF IInv, LinkType
<1> QED  BY <1>1, <1>2, ReturnIInv

(* Silence ends a command. *)
LEMMA TimeoutIInv == IInv /\ Timeout /\ UNCHANGED constVars => IInv'
<1> SUFFICES ASSUME IInv, Timeout, UNCHANGED constVars PROVE IInv'
  OBVIOUS
<1>1. /\ sent /\ wire = NULL /\ wire' = wire /\ rxq' = <<>> /\ gps' = gps /\ baud' = baud
      /\ world' = world /\ build' = build /\ frame' = frame /\ Return(FALSE)
  BY DEF Timeout, constVars
<1>2. frame' \in Nat \cup {NULL} /\ rxq' \in Seq(Frame)
  BY <1>1, EmptySeq DEF IInv, LinkType
<1> QED  BY <1>1, <1>2, ReturnIInv

-----------------------------------------------------------------------------

(* The receiver and gps_ubx_init keep it. *)
LEMMA NextIInv == IInv /\ [Next]_vars => IInv'
<1> SUFFICES ASSUME IInv, [Next]_vars PROVE IInv'
  OBVIOUS
<1>1. CASE UNCHANGED vars
  <2>1. /\ world' = world /\ build' = build /\ pc' = pc /\ attempt' = attempt /\ baud' = baud
        /\ frame' = frame
        /\ sent' = sent /\ found' = found /\ try' = try /\ wire' = wire /\ rxq' = rxq
        /\ gps' = gps /\ result' = result
    BY <1>1 DEF vars, constVars, cmdVars
  <2>2. Loose' = Loose /\ Ublox' = Ublox
    BY <2>1 DEF Loose, Lossy, Trying, Ublox
  <2>3. LinkType' /\ Quiet'
    BY <2>1, <2>2 DEF IInv, LinkType, Quiet
  <2>4. WireFits'
    BY <2>1, <2>2 DEF IInv, WireFits
  <2>5. AnswerLast'
    BY <2>1, <2>2 DEF IInv, AnswerLast
  <2>6. Budget'
    BY <2>1, <2>2 DEF IInv, Budget
  <2>7. AckFits' /\ Heard'
    BY <2>1, <2>2 DEF IInv, AckFits, Heard
  <2> QED  BY <2>3, <2>4, <2>5, <2>6, <2>7 DEF IInv
<1>2. CASE gps_ubx_init
  BY <1>2, TxIInv, RxIInv, DamagedIInv, TimeoutIInv DEF gps_ubx_init
<1> QED  BY <1>1, <1>2, HandleIInv, SendNavIInv, LoseIInv DEF Next

(* gps_ubx_init alone keeps its invariant. *)
LEMMA InitInvariance == Spec => []IInv
  BY InitIInv, NextIInv, PTL DEF Spec

(* The UBX read task starts only over a receiver that speaks UBX at the     *)
(* UART's baud rate (gps.c:117, gps_ubx.c:466), for every burst and every   *)
(* number of frames read that is larger than a burst and an answer.         *)
THEOREM UbxTaskHearsUbxHolds == Spec => []UbxTaskHearsUbx
<1>1. IInv => UbxTaskHearsUbx
  BY DEF IInv, Heard, UbxTaskHearsUbx
<1> QED  BY <1>1, InitInvariance, PTL

-----------------------------------------------------------------------------
(* A receiver that knows UBX, of which nothing is lost. *)

Perfect == world = "ublox" /\ build = {TRUE}
Rates == {Bauds[i] : i \in 1..5}
Settled == {"set_proto", "version", "messages", "done"}

(* The search: no baud rate tried so far is the receiver's.                 *)
Searching ==
  /\ gps.baud \in Rates
  /\ pc = "try" => attempt \in 0..4 /\ \A i \in 1..attempt : Bauds[i] # gps.baud
(* The UART is at the rate the place says, and so is the receiver; a        *)
(* command that is no longer on its way has been obeyed.                    *)
Tuned ==
  /\ pc # "retry_9600"
  /\ Trying /\ sent => baud = TryBaud
  /\ pc = "set_baud" /\ sent /\ wire = NULL => gps.baud = 115200
  /\ pc = "set_baud" /\ ~(sent /\ wire = NULL) => gps.baud = baud /\ frame # NULL
  /\ pc = "retry_115200" => gps.baud = 115200
  /\ pc \in Settled => gps.baud = 115200 /\ baud = 115200
  /\ pc = "set_proto" => frame = 115200
(* The messages asked for so far are on. *)
MessagesOn ==
  /\ pc = "messages" => /\ \A i \in 1..attempt : NavMsgs[i] \in gps.msgs
                        /\ sent /\ wire = NULL => NavMsgs[attempt + 1] \in gps.msgs
  /\ pc = "done" => result = TRUE /\ \A i \in 1..4 : NavMsgs[i] \in gps.msgs
(* The command is that of the place, at the UART's rate.                    *)
WireExact ==
  wire # NULL =>
    /\ wire.baud = baud
    /\ Trying => wire.type = "poll_prt"
    /\ pc \in {"set_baud", "set_proto"} => wire.type = "set_prt" /\ wire.rate = 115200
    /\ pc = "messages" => wire.type = "set_msg" /\ wire.msg = NavMsgs[attempt + 1]
(* What comes in while the ESP tries a rate is of the receiver's own rate,   *)
(* and the configuration among it, or read already, names that rate.        *)
Polled ==
  /\ Trying /\ sent => \A i \in DOMAIN rxq :
       rxq[i].baud = gps.baud /\ (rxq[i].type = "cfg_prt" => rxq[i].rate = gps.baud)
  /\ Trying /\ found => frame = gps.baud
(* The answer to a command sent at the receiver's rate is on its way until   *)
(* it is read: an acknowledge, for a poll behind the configuration.         *)
AnswerComes ==
  sent /\ wire = NULL /\ baud = gps.baud /\ (Trying \/ pc = "set_proto") =>
    /\ Len(rxq) >= 1 /\ rxq[Len(rxq)].type = "ack_prt" /\ rxq[Len(rxq)].ok
    /\ rxq[Len(rxq)].baud = gps.baud
    /\ Trying => found \/ (Len(rxq) >= 2 /\ rxq[Len(rxq) - 1].type = "cfg_prt")
Found == Searching /\ Tuned /\ MessagesOn /\ WireExact /\ Polled /\ AnswerComes
PInv == Perfect => Found

(* Nothing damaged leaves an answer to come. *)
LEMMA PerfectNotLoose == Perfect => ~Loose
  BY DEF Perfect, Loose, Lossy

(* The rates are five, and an index of 1..5 is one of five numbers. *)
LEMMA RateFacts ==
  /\ 115200 \in Rates
  /\ \A i \in 1..5 : Bauds[i] \in Rates /\ Bauds[i] \in Nat
  /\ Attempts \in Nat /\ Attempts >= 5
<1>1. \A i \in 1..5 : Bauds[i] \in Rates /\ Bauds[i] \in Nat
  BY Tables DEF Rates
<1>2. Bauds[2] = 115200
  BY DEF Bauds
<1>3. Attempts \in Nat /\ Attempts >= 5
  <2>1. Rounds \in Nat \ {0}
    BY InitAssumption, Zenon
  <2>2. Attempts = Rounds * 5
    BY Tables DEF Attempts
  <2> QED  BY <2>1, <2>2
<1> QED  BY <1>1, <1>2, <1>3

(* NULL is no command. *)
LEMMA NullIsNone == \A m \in Commands : m # NULL
<1>1. NULL \notin Nat \cup BOOLEAN \cup Commands
  BY InitAssumption, Zenon
<1> QED  BY <1>1

(* In the first round the rate tried is that of the attempt. *)
LEMMA FirstRound ==
  ASSUME pc = "try", attempt \in 0..4
  PROVE  TryBaud = Bauds[attempt + 1]
<1>1. attempt % 5 = attempt
  OBVIOUS
<1> QED  BY <1>1, Tables DEF TryBaud

(* Before the first command nothing has been tried. *)
LEMMA FreshFound == Fresh /\ gps.baud \in Rates => Found
<1> SUFFICES ASSUME Fresh, gps.baud \in Rates PROVE Found
  OBVIOUS
<1>1. /\ pc = "try" /\ attempt = 0 /\ wire = NULL /\ ~sent /\ ~found
  BY DEF Fresh
<1>2. Searching
  BY <1>1 DEF Searching
<1>3. Tuned
  BY <1>1 DEF Tuned, Settled
<1>4. MessagesOn /\ WireExact /\ Polled /\ AnswerComes
  BY <1>1 DEF MessagesOn, WireExact, Polled, AnswerComes
<1> QED  BY <1>2, <1>3, <1>4 DEF Found

(* Nor when gps_ubx_init starts. *)
LEMMA InitFound == Init => Found
<1> SUFFICES ASSUME Init PROVE Found
  OBVIOUS
<1>1. gps.baud \in Rates
  <2>1. CASE gps = [baud |-> 115200, out |-> "ubx", msgs |-> {"status", "posllh"}]
    BY <2>1, RateFacts
  <2>2. CASE \E i \in DOMAIN Bauds : gps = [baud |-> Bauds[i], out |-> "nmea", msgs |-> {}]
    <3>1. DOMAIN Bauds = 1..5
      BY DEF Bauds
    <3> QED  BY <2>2, <3>1, RateFacts
  <2> QED  BY <2>1, <2>2 DEF Init
<1>2. Fresh
  BY DEF Init, Fresh
<1> QED  BY <1>1, <1>2, FreshFound

(* Two frames of an answer behind what is queued. *)
LEMMA TwoAppended ==
  ASSUME rxq \in Seq(Frame), NEW c \in Frame, NEW a \in Frame, rxq' = rxq \o <<c, a>>
  PROVE  /\ Len(rxq) \in Nat /\ Len(rxq') = Len(rxq) + 2 /\ DOMAIN rxq' = 1..(Len(rxq) + 2)
         /\ DOMAIN rxq = 1..Len(rxq)
         /\ rxq'[Len(rxq) + 1] = c /\ rxq'[Len(rxq) + 2] = a
         /\ \A i \in 1..Len(rxq) : rxq'[i] = rxq[i]
<1> HIDE DEF Frame
<1>1. <<c, a>> \in Seq(Frame) /\ Len(<<c, a>>) = 2 /\ <<c, a>>[1] = c /\ <<c, a>>[2] = a
  OBVIOUS
<1>2. Len(rxq) \in Nat /\ DOMAIN rxq = 1..Len(rxq)
  BY LenProperties
<1>3. /\ rxq' \in Seq(Frame) /\ Len(rxq') = Len(rxq) + 2
      /\ \A i \in 1..(Len(rxq) + 2) :
           rxq'[i] = IF i <= Len(rxq) THEN rxq[i] ELSE <<c, a>>[i - Len(rxq)]
  BY <1>1, ConcatProperties
<1>4. DOMAIN rxq' = 1..(Len(rxq) + 2)
  BY <1>3, LenProperties
<1>5. /\ Len(rxq) + 1 \in 1..(Len(rxq) + 2) /\ Len(rxq) + 2 \in 1..(Len(rxq) + 2)
      /\ (Len(rxq) + 1) - Len(rxq) = 1 /\ (Len(rxq) + 2) - Len(rxq) = 2
      /\ ~(Len(rxq) + 1 <= Len(rxq)) /\ ~(Len(rxq) + 2 <= Len(rxq))
      /\ \A i \in 1..Len(rxq) : i \in 1..(Len(rxq) + 2) /\ i <= Len(rxq)
  BY <1>2
<1> QED  BY <1>1, <1>2, <1>3, <1>4, <1>5

(* What the receiver does for each kind of command. *)
PollTaken == gps' = gps /\ rxq' = rxq \o <<Reply(gps.baud), Other("ack_prt", TRUE)>>
VersionTaken == gps' = gps /\ rxq' = Append(rxq, Other("mon_ver", TRUE))
PortTaken ==
  /\ gps' = [gps EXCEPT !.baud = wire.rate, !.out = wire.out]
  /\ rxq' = Append(rxq, Other("ack_prt", TRUE))
MsgTaken ==
  /\ gps' = [gps EXCEPT !.msgs = @ \cup {wire.msg}]
  /\ rxq' = Append(rxq, Other("ack_msg", TRUE))

(* The kind of the command decides. *)
LEMMA Obeyed ==
  ASSUME Obey
  PROVE  /\ wire.type = "poll_prt" => PollTaken
         /\ wire.type = "poll_ver" => VersionTaken
         /\ wire.type = "set_prt" => PortTaken
         /\ wire.type = "set_msg" => MsgTaken
<1>1. \/ wire.type = "poll_prt" /\ PollTaken
      \/ wire.type = "poll_ver" /\ VersionTaken
      \/ wire.type = "set_prt" /\ PortTaken
      \/ wire.type = "set_msg" /\ MsgTaken
  <2>1. CASE wire.type = "poll_prt" /\ UNCHANGED gps
             /\ rxq' = rxq \o <<Reply(gps.baud), Other("ack_prt", TRUE)>>
    BY <2>1 DEF PollTaken
  <2>2. CASE wire.type = "poll_ver" /\ UNCHANGED gps /\ rxq' = Append(rxq, Other("mon_ver", TRUE))
    BY <2>2 DEF VersionTaken
  <2>3. CASE wire.type = "set_prt" /\ gps' = [gps EXCEPT !.baud = wire.rate, !.out = wire.out]
             /\ rxq' = Append(rxq, Other("ack_prt", TRUE))
    BY <2>3 DEF PortTaken
  <2>4. CASE wire.type = "set_msg" /\ gps' = [gps EXCEPT !.msgs = @ \cup {wire.msg}]
             /\ rxq' = Append(rxq, Other("ack_msg", TRUE))
    BY <2>4 DEF MsgTaken
  <2> QED  BY <2>1, <2>2, <2>3, <2>4 DEF Obey
<1> QED  BY <1>1

(* The receiver takes a command, obeys it and answers at its rate. *)
LEMMA HandleFound ==
  ASSUME IInv, Perfect, Found, Handle
  PROVE  Found'
<1>1. /\ wire # NULL /\ wire' = NULL /\ pc' = pc /\ attempt' = attempt /\ baud' = baud
      /\ frame' = frame /\ sent' = sent /\ found' = found /\ result' = result
  BY DEF Handle, constVars, cmdVars
<1>2. /\ sent /\ pc # "done" /\ wire.baud = baud /\ pc \in Places
      /\ pc = "version" => wire.type \in {"poll_ver", "set_msg"}
      /\ pc = "set_proto" => wire.out = "ubx"
      /\ wire.type # "garbage"
  <2>1. sent /\ pc # "done" /\ pc \in Places /\ wire.baud = baud
    BY <1>1, PerfectNotLoose DEF IInv, WireFits, LinkType, Found, WireExact, Heard
  <2>2. pc = "version" => wire.type \in {"poll_ver", "set_msg"}
    BY <1>1 DEF IInv, WireFits
  <2>3. Trying \/ pc \in {"set_baud", "set_proto", "messages", "version"}
    BY <2>1 DEF Places, Trying
  <2>4. wire.type \in {"poll_prt", "set_prt", "set_msg", "poll_ver"}
    BY <1>1, <2>2, <2>3 DEF Found, WireExact
  <2>5. pc = "set_proto" => wire.out = "ubx"
    BY <1>1 DEF IInv, WireFits, Found, WireExact
  <2> QED  BY <2>1, <2>2, <2>4, <2>5
<1>3. Ublox /\ ~Lossy
  BY DEF Perfect, Ublox, Lossy
<1>4. gps \in [baud : Nat, out : {"nmea", "ubx"}, msgs : SUBSET NavSet] /\ rxq \in Seq(Frame)
  BY DEF IInv, LinkType
<1>5. baud = gps.baud => Obey
  BY <1>2, <1>3 DEF Handle
<1>6. baud # gps.baud => gps' = gps /\ rxq' = rxq
  BY <1>2 DEF Handle
<1>7. Searching /\ Tuned /\ MessagesOn /\ WireExact /\ Polled /\ AnswerComes
  BY DEF Found
<1>8. TryBaud' = TryBaud /\ (Trying' <=> Trying)
  BY <1>1 DEF TryBaud, Trying
<1>9. WireExact'
  BY <1>1 DEF WireExact
<1>10. CASE Trying
  <2>1. gps' = gps
    <3>1. wire.type = "poll_prt"
      BY <1>1, <1>7, <1>10 DEF WireExact
    <3>2. CASE baud = gps.baud
      BY <3>1, <3>2, <1>5, Obeyed DEF PollTaken
    <3> QED  BY <3>2, <1>6
  <2>2. Searching' /\ Tuned' /\ MessagesOn'
    <3>1. Searching'
      BY <2>1, <1>1, <1>7 DEF Searching
    <3>2. ~(pc \in Settled) /\ pc # "set_baud" /\ pc # "messages"
      BY <1>10 DEF Trying, Settled
    <3>3. Tuned'
      BY <3>2, <2>1, <1>1, <1>7, <1>8 DEF Tuned
    <3>4. MessagesOn'
      BY <3>2, <1>1, <1>7 DEF MessagesOn, Settled
    <3> QED  BY <3>1, <3>3, <3>4
  <2>3. CASE baud # gps.baud
    <3>1. Polled' /\ AnswerComes'
      BY <2>3, <2>1, <1>1, <1>6, <1>7, <1>8 DEF Polled, AnswerComes
    <3> QED  BY <3>1, <2>2, <1>9 DEF Found
  <2>4. CASE baud = gps.baud
    <3> DEFINE c == Reply(gps.baud)
               a == Other("ack_prt", TRUE)
    <3>1. rxq' = rxq \o <<c, a>>
      <4>1. wire.type = "poll_prt"
        BY <1>1, <1>7, <1>10 DEF WireExact
      <4> QED  BY <4>1, <2>4, <1>5, Obeyed DEF PollTaken
    <3>2. /\ c \in Frame /\ c.type = "cfg_prt" /\ c.baud = gps.baud /\ c.rate = gps.baud
          /\ a \in Frame /\ a.type = "ack_prt" /\ a.baud = gps.baud /\ a.ok
      <4>1. gps'.baud \in Nat /\ gps.baud \in Nat /\ gps'.baud = gps.baud
        BY <2>1, <1>4
      <4> QED  BY <4>1 DEF Reply, Other, Frame
    <3> HIDE DEF c, a
    <3>3. /\ Len(rxq) \in Nat /\ Len(rxq') = Len(rxq) + 2 /\ DOMAIN rxq' = 1..(Len(rxq) + 2)
          /\ DOMAIN rxq = 1..Len(rxq)
          /\ rxq'[Len(rxq) + 1] = c /\ rxq'[Len(rxq) + 2] = a
          /\ \A i \in 1..Len(rxq) : rxq'[i] = rxq[i]
      BY <3>1, <3>2, <1>4, TwoAppended
    <3>4. \A i \in DOMAIN rxq' : i \in DOMAIN rxq \/ i = Len(rxq) + 1 \/ i = Len(rxq) + 2
      BY <3>3
    <3>5. Polled'
      <4>1. \A i \in DOMAIN rxq : 
              rxq[i].baud = gps.baud /\ (rxq[i].type = "cfg_prt" => rxq[i].rate = gps.baud)
        BY <1>2, <1>7, <1>10 DEF Polled
      <4>2. \A i \in DOMAIN rxq' : 
              rxq'[i].baud = gps.baud /\ (rxq'[i].type = "cfg_prt" => rxq'[i].rate = gps.baud)
        BY <4>1, <3>2, <3>3, <3>4
      <4> QED  BY <4>2, <2>1, <1>1, <1>7, <1>8 DEF Polled
    <3>6. AnswerComes'
      <4>1. /\ Len(rxq') >= 2 /\ rxq'[Len(rxq')] = a /\ Len(rxq') - 1 = Len(rxq) + 1
        BY <3>3
      <4> QED  BY <4>1, <3>2, <3>3, <2>1 DEF AnswerComes
    <3> QED  BY <3>5, <3>6, <2>2, <1>9 DEF Found
  <2> QED  BY <2>3, <2>4
<1>11. ASSUME pc \in {"set_baud", "set_proto"}
       PROVE  Found'
  <2>1. wire.type = "set_prt" /\ wire.rate = 115200 /\ baud = gps.baud
    BY <1>1, <1>7, <1>11 DEF WireExact, Tuned, Settled
  <2>2. PortTaken
    BY <2>1, <1>5, Obeyed
  <2>3. gps'.baud = 115200
    <3>1. gps' = [gps EXCEPT !.baud = 115200, !.out = wire.out]
      BY <2>1, <2>2 DEF PortTaken
    <3>2. gps \in [baud : Nat, out : {"nmea", "ubx"}, msgs : SUBSET NavSet]
      BY DEF IInv, LinkType
    <3> QED  BY <3>1, <3>2
  <2>4. rxq' = Append(rxq, Other("ack_prt", TRUE))
    BY <2>2 DEF PortTaken
  <2>5. ~Trying
    BY <1>11 DEF Trying
  <2>6. Searching' /\ Tuned' /\ MessagesOn'
    <3>1. Searching'
      BY <2>3, <1>1, <1>7, <1>11, RateFacts DEF Searching
    <3>2. Tuned'
      <4>1. pc = "set_baud" => sent' /\ wire' = NULL /\ pc # "retry_9600" /\ pc # "set_proto"
        BY <1>1, <1>2
      <4>2. pc = "set_proto" => frame = 115200 /\ baud = 115200
        BY <1>7 DEF Tuned, Settled
      <4> QED  BY <4>1, <4>2, <2>3, <2>5, <1>1, <1>8, <1>11 DEF Tuned, Settled, Trying
    <3>3. MessagesOn'
      BY <1>1, <1>7, <1>11 DEF MessagesOn
    <3> QED  BY <3>1, <3>2, <3>3
  <2>7. Polled'
    BY <2>5, <1>8 DEF Polled
  <2>8. AnswerComes'
    <3> DEFINE a == Other("ack_prt", TRUE)
    <3>1. a \in Frame /\ a.type = "ack_prt" /\ a.baud = 115200 /\ a.ok
      <4>1. gps'.baud = 115200
        BY <2>3
      <4> QED  BY <4>1 DEF Other, Frame
    <3> HIDE DEF a
    <3>2. Len(rxq) \in Nat /\ Len(rxq') = Len(rxq) + 1 /\ rxq'[Len(rxq) + 1] = a
      <4>1. rxq' = Append(rxq, a) /\ LinkType
        BY <2>4 DEF IInv, a
      <4> QED  BY <3>1, <4>1, FrameAppended
    <3>3. Len(rxq') >= 1 /\ rxq'[Len(rxq')] = a
      BY <3>2
    <3> QED  BY <3>1, <3>3, <2>3, <2>5, <1>8 DEF AnswerComes
  <2> QED  BY <2>6, <2>7, <2>8, <1>9 DEF Found
<1>12. ASSUME pc \in {"version", "messages"}
       PROVE  Found'
  <2>1. baud = gps.baud /\ baud = 115200
    BY <1>7, <1>12 DEF Tuned, Settled
  <2>2. /\ wire.type \in {"poll_ver", "set_msg"}
        /\ pc = "messages" => wire.type = "set_msg" /\ wire.msg = NavMsgs[attempt + 1]
    BY <1>1, <1>2, <1>7, <1>12 DEF WireExact
  <2>3. /\ gps' = gps \/ gps' = [gps EXCEPT !.msgs = @ \cup {wire.msg}]
        /\ pc = "messages" => gps' = [gps EXCEPT !.msgs = @ \cup {wire.msg}]
    <3>1. wire.type = "poll_ver" => VersionTaken
      BY <2>1, <1>5, Obeyed
    <3>2. wire.type = "set_msg" => MsgTaken
      BY <2>1, <1>5, Obeyed
    <3>3. CASE wire.type = "set_msg"
      BY <3>2, <3>3, Zenon DEF MsgTaken
    <3>4. CASE wire.type = "poll_ver"
      BY <3>1, <3>4, <2>2, Zenon DEF VersionTaken
    <3> QED  BY <3>3, <3>4, <2>2
  <2>4. /\ gps'.baud = gps.baud /\ gps.msgs \subseteq gps'.msgs
        /\ pc = "messages" => wire.msg \in gps'.msgs
    BY <2>3, <1>4
  <2>5. ~Trying
    BY <1>12 DEF Trying
  <2>6. Searching' /\ Tuned'
    <3>1. Searching'
      BY <2>4, <1>1, <1>7, <1>12 DEF Searching
    <3>2. Tuned'
      BY <2>4, <2>5, <1>1, <1>7, <1>8, <1>12 DEF Tuned, Settled
    <3> QED  BY <3>1, <3>2
  <2>7. MessagesOn'
    BY <2>2, <2>4, <1>1, <1>7, <1>12 DEF MessagesOn
  <2>8. Polled' /\ AnswerComes'
    BY <2>5, <1>1, <1>8, <1>12 DEF Polled, AnswerComes
  <2> QED  BY <2>6, <2>7, <2>8, <1>9 DEF Found
<1> QED  BY <1>2, <1>10, <1>11, <1>12 DEF Places, Trying

(* A message that comes in between is of the receiver's rate, and comes     *)
(* before an answer or when none is expected.                               *)
LEMMA SendNavFound ==
  ASSUME IInv, Perfect, Found, SendNav
  PROVE  Found'
<1>1. /\ wire' = wire /\ pc' = pc /\ gps' = gps /\ attempt' = attempt
      /\ baud' = baud /\ frame' = frame /\ sent' = sent /\ found' = found
      /\ result' = result /\ rxq' = Append(rxq, Nav)
  BY DEF SendNav, constVars, cmdVars
<1>2. wire # NULL \/ rxq = <<>>
  BY DEF SendNav, Perfect, Chatter
<1>3. Searching /\ Tuned /\ MessagesOn /\ WireExact /\ Polled /\ AnswerComes
  BY DEF Found
<1>4. TryBaud' = TryBaud /\ (Trying' <=> Trying)
  BY <1>1 DEF TryBaud, Trying
<1>5. Searching' /\ Tuned' /\ MessagesOn' /\ WireExact'
  <2>1. Searching'
    BY <1>1, <1>3 DEF Searching
  <2>2. Tuned'
    BY <1>1, <1>3, <1>4 DEF Tuned, Settled
  <2>3. MessagesOn'
    BY <1>1, <1>3 DEF MessagesOn
  <2>4. WireExact'
    BY <1>1, <1>3, <1>4 DEF WireExact
  <2> QED  BY <2>1, <2>2, <2>3, <2>4
<1>6. Nav \in Frame /\ Nav.type = "nav" /\ Nav.baud = gps.baud
  BY DEF IInv, LinkType, Frame, Nav
<1>7. /\ DOMAIN rxq' = 1..(Len(rxq) + 1) /\ rxq'[Len(rxq) + 1] = Nav
      /\ \A i \in 1..Len(rxq) : rxq'[i] = rxq[i]
      /\ DOMAIN rxq = 1..Len(rxq) /\ Len(rxq) \in Nat
  BY <1>1, <1>6, FrameAppended DEF IInv
<1>8. \A i \in DOMAIN rxq' : i \in DOMAIN rxq \/ i = Len(rxq) + 1
  BY <1>7
<1>9. Polled'
  <2>1. ASSUME Trying, sent
        PROVE  \A i \in DOMAIN rxq' : rxq'[i].baud = gps.baud
                 /\ (rxq'[i].type = "cfg_prt" => rxq'[i].rate = gps.baud)
    <3>1. \A i \in DOMAIN rxq : 
            rxq[i].baud = gps.baud /\ (rxq[i].type = "cfg_prt" => rxq[i].rate = gps.baud)
      BY <2>1, <1>3 DEF Polled
    <3> QED  BY <3>1, <1>6, <1>7, <1>8
  <2> QED  BY <2>1, <1>1, <1>3, <1>4 DEF Polled
<1>10. AnswerComes'
  <2>1. rxq = <<>> => ~(sent /\ wire = NULL /\ baud = gps.baud /\ (Trying \/ pc = "set_proto"))
    BY <1>3, EmptySeq DEF AnswerComes
  <2> QED  BY <2>1, <1>1, <1>2, <1>4 DEF AnswerComes
<1> QED  BY <1>5, <1>9, <1>10 DEF Found

(* A command is sent; a poll sets the UART and forgets what came before.    *)
LEMMA TxFound ==
  ASSUME IInv, Perfect, Found, Tx
  PROVE  Found'
<1>1. /\ pc # "done" /\ ~sent /\ wire = NULL /\ wire' = Message /\ sent' = TRUE
      /\ pc' = pc /\ attempt' = attempt /\ frame' = frame /\ found' = found
      /\ gps' = gps /\ result' = result
  BY DEF Tx
<1>2. /\ ~Trying => baud' = baud
      /\ Trying => baud' = TryBaud /\ rxq' = <<>>
  BY DEF Tx
<1>3. Searching /\ Tuned /\ MessagesOn /\ Polled
  BY DEF Found
<1>4. TryBaud' = TryBaud /\ (Trying' <=> Trying) /\ pc \in Places
  BY <1>1 DEF TryBaud, Trying, IInv, LinkType
<1>5. (frame # NULL /\ gps.out \in {"nmea", "ubx"}) \/ pc \notin {"set_baud", "set_proto"}
  BY <1>1, <1>3, Consts DEF Tuned, IInv, LinkType
<1>6. WireExact' /\ wire' # NULL
  <2>1. CASE Trying
    <3>1. Message = [type |-> "poll_prt", baud |-> TryBaud]
      BY <2>1 DEF Message, Trying
    <3>2. TryBaud \in Nat
      <4>1. attempt \in Nat /\ (attempt % 5) + 1 \in 1..5
        BY DEF IInv, LinkType
      <4> QED  BY <4>1, Tables DEF TryBaud
    <3>3. Message \in Commands
      BY <3>1, <3>2 DEF Commands
    <3>4. ~(pc \in {"set_baud", "set_proto", "messages"})
      BY <2>1 DEF Trying
    <3>5. wire' # NULL
      BY <3>3, <1>1, NullIsNone
    <3>6. wire' = Message /\ baud' = TryBaud
      BY <1>1, <1>2, <2>1
    <3> QED  BY <3>1, <3>5, <3>6, <3>3, <3>4, <2>1, <1>1, <1>4 DEF WireExact
  <2>2. CASE pc = "version"
    <3>1. Message = [type |-> "poll_ver", baud |-> baud]
      BY <2>2 DEF Message, Trying
    <3>2. Message \in Commands /\ ~Trying
      BY <3>1, <2>2 DEF Commands, IInv, LinkType, Trying
    <3>5. wire' # NULL
      BY <3>2, <1>1, NullIsNone
    <3>6. wire' = Message /\ baud' = baud
      BY <1>1, <1>2, <3>2
    <3> QED  BY <3>1, <3>5, <3>6, <3>2, <2>2, <1>1, <1>4 DEF WireExact
  <2>3. CASE pc = "messages"
    <3>1. Message = [type |-> "set_msg", baud |-> baud, msg |-> NavMsgs[attempt + 1]]
      BY <2>3 DEF Message, Trying
    <3>2. NavMsgs[attempt + 1] \in NavSet
      BY <2>3, Tables DEF IInv, LinkType
    <3>3. Message \in Commands /\ ~Trying
      BY <3>1, <3>2, <2>3 DEF Commands, IInv, LinkType, Trying, NavSet
    <3>5. wire' # NULL
      BY <3>3, <1>1, NullIsNone
    <3>6. wire' = Message /\ baud' = baud
      BY <1>1, <1>2, <3>3
    <3> QED  BY <3>1, <3>5, <3>6, <3>3, <2>3, <1>1, <1>4 DEF WireExact
  <2>4. CASE pc \in {"set_baud", "set_proto"}
    <3>1. PICK o \in {"nmea", "ubx"} :
            Message = [type |-> "set_prt", baud |-> baud, rate |-> 115200, out |-> o]
      <4>1. CASE pc = "set_baud"
        BY <4>1, <1>5 DEF Message, Trying, set_prt
      <4>2. CASE pc = "set_proto"
        BY <4>2, <1>3, <1>5 DEF Message, Trying, set_prt, Tuned
      <4> QED  BY <2>4, <4>1, <4>2
    <3>2. Message \in Commands /\ ~Trying
      BY <3>1, <2>4 DEF Commands, IInv, LinkType, Trying
    <3>5. wire' # NULL
      BY <3>2, <1>1, NullIsNone
    <3>6. wire' = Message /\ baud' = baud
      BY <1>1, <1>2, <3>2
    <3> QED  BY <3>1, <3>5, <3>6, <3>2, <2>4, <1>1, <1>4 DEF WireExact
  <2> QED  BY <2>1, <2>2, <2>3, <2>4, <1>1, <1>4 DEF Places, Trying
<1>7. Searching' /\ MessagesOn'
  BY <1>1, <1>3, <1>6 DEF Searching, MessagesOn
<1>8. Tuned'
  BY <1>1, <1>2, <1>3, <1>4, <1>6 DEF Tuned, Settled, Trying
<1>9. Polled'
  <2>1. Trying => DOMAIN rxq' = {}
    BY <1>2
  <2> QED  BY <2>1, <1>1, <1>3, <1>4 DEF Polled
<1>10. AnswerComes'
  BY <1>6 DEF AnswerComes
<1> QED  BY <1>6, <1>7, <1>8, <1>9, <1>10 DEF Found

(* A command returns, with nothing left of its answer: a poll succeeds      *)
(* exactly at the receiver's rate, and the change of protocol always.       *)
LEMMA ReturnFound ==
  ASSUME IInv, Perfect, Found, sent, wire = NULL, wire' = wire, rxq' = <<>>, gps' = gps,
         baud' = baud, frame' = frame,
         NEW r \in BOOLEAN, Return(r),
         Trying => r = (baud = gps.baud),
         Trying /\ r => frame = gps.baud,
         pc = "set_proto" => r
  PROVE  Found'
<1>1. Searching /\ Tuned /\ MessagesOn
  BY DEF Found
<1>2. pc # "done" /\ result = NULL /\ sent' = FALSE /\ found' = FALSE /\ pc \in Places
  BY DEF IInv, Heard, LinkType, Return
<1>3. Tried(r) \/ BaudSet(r) \/ Retried(r) \/ ProtoSet(r) \/ Told(r)
  <2>1. PICK v \in (IF Trying /\ r THEN FallOff ELSE {r}) :
          Tried(v) \/ BaudSet(v) \/ Retried(v) \/ ProtoSet(v) \/ Told(v)
    BY DEF Return
  <2>2. v = r
    BY DEF FallOff, Perfect
  <2> QED  BY <2>1, <2>2
<1>4. WireExact' /\ Polled' /\ AnswerComes'
  BY <1>2 DEF WireExact, Polled, AnswerComes
<1>5. gps.baud \in Rates /\ gps.baud # NULL /\ NULL # 115200
  <2>1. gps.baud \in Nat
    BY DEF IInv, LinkType
  <2> QED  BY <2>1, <1>1, Consts DEF Searching
<1>6. CASE pc = "try" /\ r
  <2>1. baud = gps.baud /\ frame = gps.baud
    BY <1>6 DEF Trying
  <2>2. \/ pc' = "set_proto" /\ frame = 115200
        \/ pc' = "set_baud" /\ frame # 115200
    BY <1>3, <1>5, <1>6, <2>1 DEF Tried, BaudSet, Retried, ProtoSet, Told, Step
  <2>3. ~Trying'
    BY <2>2 DEF Trying
  <2>4. Searching' /\ MessagesOn'
    BY <1>5, <2>2 DEF Searching, MessagesOn
  <2>5. CASE pc' = "set_proto" /\ frame = 115200
    <3>1. Tuned'
      BY <1>5, <2>1, <2>3, <2>5 DEF Tuned, Settled
    <3> QED  BY <1>4, <2>4, <3>1 DEF Found
  <2>6. CASE pc' = "set_baud" /\ frame # 115200
    <3>1. ~sent' /\ gps'.baud = baud' /\ frame' # NULL
      BY <1>2, <1>5, <2>1
    <3>2. Tuned'
      BY <2>3, <2>6, <3>1 DEF Tuned, Settled
    <3> QED  BY <1>4, <2>4, <3>2 DEF Found
  <2> QED  BY <2>2, <2>5, <2>6
<1>7. CASE pc = "try" /\ ~r
  <2>1. attempt \in 0..4 /\ \A i \in 1..attempt : Bauds[i] # gps.baud
    BY <1>1, <1>7 DEF Searching
  <2>2. baud = Bauds[attempt + 1] /\ baud # gps.baud
    <3>1. Trying
      BY <1>7 DEF Trying
    <3>2. baud = TryBaud
      BY <1>1, <3>1 DEF Tuned
    <3>3. TryBaud = Bauds[attempt + 1]
      BY <1>7, <2>1, FirstRound
    <3>4. (~r) = TRUE /\ ~(baud = gps.baud)
      BY <1>7, <3>1
    <3> QED  BY <3>2, <3>3, <3>4
  <2>3. \A i \in 1..(attempt + 1) : Bauds[i] # gps.baud
    <3>1. \A i \in 1..(attempt + 1) : i \in 1..attempt \/ i = attempt + 1
      BY <2>1
    <3> QED  BY <2>1, <2>2, <3>1
  <2>4. attempt + 1 \in 0..4
    <3>1. attempt # 4
      <4>1. PICK i \in 1..5 : Bauds[i] = gps.baud
        BY <1>1 DEF Searching, Rates
      <4>2. attempt = 4 => i \in 1..(attempt + 1)
        OBVIOUS
      <4> QED  BY <2>3, <4>1, <4>2
    <3> QED  BY <2>1, <3>1
  <2>5. attempt + 1 < Attempts
    BY <2>4, RateFacts
  <2>6. pc' = "try" /\ attempt' = attempt + 1
    BY <1>3, <1>7, <2>5 DEF Tried, BaudSet, Retried, ProtoSet, Told, Step
  <2>7. Searching'
    BY <1>1, <2>3, <2>4, <2>6 DEF Searching
  <2>8. ~sent' /\ pc' \notin {"retry_9600", "set_baud", "retry_115200", "set_proto", "messages"}
        /\ pc' \notin Settled
    BY <1>2, <2>6 DEF Settled
  <2>9. Tuned'
    BY <2>8 DEF Tuned
  <2>10. MessagesOn'
    BY <2>8 DEF MessagesOn, Settled
  <2> QED  BY <1>4, <2>7, <2>9, <2>10 DEF Found
<1>8. CASE pc = "set_baud"
  <2>1. gps.baud = 115200
    BY <1>1, <1>8 DEF Tuned
  <2>2. pc' = "retry_115200"
    BY <1>3, <1>8 DEF Tried, BaudSet, Retried, ProtoSet, Told, Step
  <2>3. Searching' /\ Tuned' /\ MessagesOn'
    BY <1>2, <1>5, <2>1, <2>2 DEF Searching, Tuned, Settled, MessagesOn
  <2> QED  BY <1>4, <2>3 DEF Found
<1>9. CASE pc = "retry_115200"
  <2>1. gps.baud = 115200 /\ baud = 115200 /\ r /\ frame = 115200
    <3>1. Trying /\ TryBaud = 115200
      BY <1>9 DEF Trying, TryBaud
    <3>2. gps.baud = 115200 /\ baud = TryBaud
      BY <1>1, <1>9, <3>1 DEF Tuned
    <3>3. baud = gps.baud /\ Trying
      BY <3>1, <3>2
    <3>4. r
      BY <3>3
    <3>5. frame = gps.baud
      BY <3>3, <3>4
    <3> QED  BY <3>1, <3>2, <3>4, <3>5
  <2>2. pc' = "set_proto"
    BY <1>3, <1>9, <2>1 DEF Tried, BaudSet, Retried, ProtoSet, Told, Step
  <2>3. Searching' /\ MessagesOn'
    BY <1>5, <2>2 DEF Searching, MessagesOn
  <2>4. Tuned'
    BY <2>1, <2>2 DEF Tuned, Settled, Trying
  <2> QED  BY <1>4, <2>3, <2>4 DEF Found
<1>10. CASE pc = "set_proto"
  <2>1. gps.baud = 115200 /\ baud = 115200 /\ r
    BY <1>1, <1>10 DEF Tuned, Settled
  <2>2. pc' = "version"
    BY <1>3, <1>10, <2>1 DEF Tried, BaudSet, Retried, ProtoSet, Told, Step
  <2>3. Searching' /\ MessagesOn'
    BY <1>5, <2>2 DEF Searching, MessagesOn
  <2>4. Tuned'
    BY <2>1, <2>2 DEF Tuned, Settled, Trying
  <2> QED  BY <1>4, <2>3, <2>4 DEF Found
<1>11. CASE pc = "version"
  <2>1. gps.baud = 115200 /\ baud = 115200
    BY <1>1, <1>11 DEF Tuned, Settled
  <2>2. pc' = "messages" /\ attempt' = 0
    BY <1>3, <1>11 DEF Tried, BaudSet, Retried, ProtoSet, Told, Step
  <2>3. Searching' /\ MessagesOn'
    BY <1>2, <1>5, <2>2 DEF Searching, MessagesOn
  <2>4. Tuned'
    BY <2>1, <2>2 DEF Tuned, Settled, Trying
  <2> QED  BY <1>4, <2>3, <2>4 DEF Found
<1>12. CASE pc = "messages"
  <2>1. gps.baud = 115200 /\ baud = 115200
    BY <1>1, <1>12 DEF Tuned, Settled
  <2>2. attempt \in 0..3
    BY <1>12 DEF IInv, LinkType
  <2>3. \A i \in 1..(attempt + 1) : NavMsgs[i] \in gps.msgs
    <3>1. \A i \in 1..(attempt + 1) : i \in 1..attempt \/ i = attempt + 1
      BY <2>2
    <3>2. /\ \A i \in 1..attempt : NavMsgs[i] \in gps.msgs
          /\ NavMsgs[attempt + 1] \in gps.msgs
      BY <1>1, <1>12 DEF MessagesOn
    <3> QED  BY <3>1, <3>2
  <2>4. Told(r)
    BY <1>3, <1>12 DEF Tried, BaudSet, Retried, ProtoSet
  <2>5. CASE attempt + 1 < 4
    <3>1. pc' = "messages" /\ attempt' = attempt + 1
      BY <1>12, <2>4, <2>5, Tables DEF Told, Step
    <3>2. Searching' /\ MessagesOn'
      BY <1>2, <1>5, <2>3, <3>1 DEF Searching, MessagesOn
    <3>3. Tuned'
      BY <2>1, <3>1 DEF Tuned, Settled, Trying
    <3> QED  BY <1>4, <3>2, <3>3 DEF Found
  <2>6. CASE ~(attempt + 1 < 4)
    <3>1. pc' = "done" /\ result' = TRUE
      BY <1>12, <2>4, <2>6, Tables DEF Told, End
    <3>2. attempt + 1 = 4
      BY <2>2, <2>6
    <3>3. Searching'
      BY <1>5, <3>1 DEF Searching
    <3>4. MessagesOn'
      <4>1. \A i \in 1..4 : NavMsgs[i] \in gps'.msgs
        BY <2>3, <3>2
      <4> QED  BY <4>1, <3>1 DEF MessagesOn
    <3>5. Tuned'
      BY <2>1, <3>1 DEF Tuned, Settled, Trying
    <3> QED  BY <1>4, <3>3, <3>4, <3>5 DEF Found
  <2> QED  BY <2>5, <2>6
<1>13. pc # "retry_9600"
  BY <1>1 DEF Tuned
<1> QED  BY <1>2, <1>6, <1>7, <1>8, <1>9, <1>10, <1>11, <1>12, <1>13 DEF Places

(* A frame that does not end the command leaves the answer behind it. *)
LEMMA ReadFound ==
  ASSUME IInv, Perfect, Found, sent, rxq # <<>>, rxq' = Tail(rxq), baud' = baud, wire' = wire,
         gps' = gps, pc' = pc, attempt' = attempt, sent' = sent, result' = result,
         frame' = frame \/ Trying,
         Trying /\ found' => frame' = gps.baud,
         Trying /\ baud = gps.baud => (found \/ Head(rxq).type = "cfg_prt" => found'),
         Trying \/ pc = "set_proto" => Head(rxq).type # "ack_prt" \/ Head(rxq).baud # baud
  PROVE  Found'
<1>1. Searching /\ Tuned /\ MessagesOn /\ WireExact /\ Polled /\ AnswerComes
  BY DEF Found
<1>2. TryBaud' = TryBaud /\ (Trying' <=> Trying)
  BY DEF TryBaud, Trying
<1>3. Searching' /\ MessagesOn'
  BY <1>1 DEF Searching, MessagesOn
<1>4. WireExact'
  BY <1>1, <1>2 DEF WireExact
<1>5. Tuned'
  <2>1. pc \in {"set_baud", "set_proto"} => frame' = frame
    BY DEF Trying
  <2> QED  BY <1>1, <1>2, <2>1 DEF Tuned, Settled
<1>6. /\ Head(rxq) = rxq[1] /\ Len(rxq) \in Nat /\ Len(rxq) >= 1 /\ Len(rxq') = Len(rxq) - 1
      /\ 1 \in DOMAIN rxq
      /\ \A i \in DOMAIN rxq' : i + 1 \in DOMAIN rxq /\ rxq'[i] = rxq[i + 1] /\ i \in Nat
  BY FrameTaken
<1>7. Polled'
  BY <1>1, <1>2, <1>6 DEF Polled
<1>8. AnswerComes'
  <2> SUFFICES ASSUME wire = NULL, baud = gps.baud, Trying \/ pc = "set_proto"
               PROVE  /\ Len(rxq') >= 1 /\ rxq'[Len(rxq')].type = "ack_prt"
                      /\ rxq'[Len(rxq')].ok /\ rxq'[Len(rxq')].baud = gps.baud
                      /\ Trying => \/ found'
                                   \/ Len(rxq') >= 2 /\ rxq'[Len(rxq') - 1].type = "cfg_prt"
    BY <1>2 DEF AnswerComes
  <2>1. /\ rxq[Len(rxq)].type = "ack_prt" /\ rxq[Len(rxq)].ok
        /\ rxq[Len(rxq)].baud = gps.baud
        /\ Trying => found \/ (Len(rxq) >= 2 /\ rxq[Len(rxq) - 1].type = "cfg_prt")
    BY <1>1 DEF AnswerComes
  <2>2. Len(rxq) # 1
    BY <2>1, <1>6
  <2>3. DOMAIN rxq' = 1..Len(rxq')
    <3>1. rxq' \in Seq(Frame)
      BY FrameTaken
    <3> QED  BY <3>1, LenProperties
  <2>4. Len(rxq') >= 1 /\ rxq'[Len(rxq')] = rxq[Len(rxq)]
    BY <1>6, <2>2, <2>3
  <2>5. Trying => found' \/ (Len(rxq') >= 2 /\ rxq'[Len(rxq') - 1].type = "cfg_prt")
    <3>1. CASE found
      BY <3>1
    <3>2. CASE Len(rxq) = 2
      <4>1. Len(rxq) - 1 = 1
        BY <3>2
      <4> QED  BY <4>1, <1>6, <2>1
    <3>3. CASE Len(rxq) > 2
      <4>1. Len(rxq') - 1 \in DOMAIN rxq' /\ Len(rxq') - 1 + 1 = Len(rxq) - 1
        BY <3>3, <1>6, <2>3
      <4> QED  BY <4>1, <3>3, <1>6, <2>1
    <3> QED  BY <3>1, <3>2, <3>3, <1>6, <2>2
  <2> QED  BY <2>1, <2>4, <2>5
<1> QED  BY <1>3, <1>4, <1>5, <1>7, <1>8 DEF Found

(* A frame is read: of another rate, in between, or the last of the answer. *)
LEMMA RxFound ==
  ASSUME IInv, Perfect, Found, Rx
  PROVE  Found'
<1> DEFINE f == Head(rxq)
           answer == IsPoll /\ f.type = Command
           ack == f.type = AckOf
<1>1. sent /\ rxq # <<>> /\ rxq' = Tail(rxq) /\ baud' = baud /\ wire' = wire /\ gps' = gps
  BY DEF Rx
<1>2. /\ f = rxq[1] /\ f \in Frame /\ 1 \in DOMAIN rxq
      /\ Len(rxq) \in Nat /\ Len(rxq) >= 1 /\ Len(rxq') = Len(rxq) - 1 /\ rxq' \in Seq(Frame)
  BY <1>1, FrameTaken
<1>3. Searching /\ Tuned /\ MessagesOn /\ WireExact /\ Polled /\ AnswerComes
  BY DEF Found
<1>4. pc \in Places /\ pc # "done" /\ Command \in {"cfg_prt", "mon_ver", "cfg_msg"}
  BY <1>1 DEF IInv, LinkType, Heard, Command
<1>5. /\ Trying => f.baud = gps.baud /\ (f.type = "cfg_prt" => f.rate = gps.baud)
      /\ Trying => IsPoll /\ Command = "cfg_prt" /\ AckOf = "ack_prt"
      /\ pc \in {"set_baud", "set_proto"} => ~IsPoll /\ AckOf = "ack_prt"
      /\ pc = "version" => AckOf = "none" /\ Command = "mon_ver"
      /\ pc = "messages" => ~IsPoll
  <2>1. Trying => f.baud = gps.baud /\ (f.type = "cfg_prt" => f.rate = gps.baud)
    BY <1>1, <1>2, <1>3 DEF Polled
  <2>2. Trying => IsPoll /\ Command = "cfg_prt" /\ AckOf = "ack_prt"
    BY DEF Trying, IsPoll, Command, AckOf
  <2>3. pc \in {"set_baud", "set_proto"} => ~IsPoll /\ AckOf = "ack_prt"
    BY DEF Trying, IsPoll, Command, AckOf
  <2>4. pc = "version" => AckOf = "none" /\ Command = "mon_ver"
    BY DEF Command, AckOf
  <2>5. pc = "messages" => ~IsPoll
    BY DEF Trying, IsPoll
  <2> QED  BY <2>1, <2>2, <2>3, <2>4, <2>5
<1>6. f.type \in Answers => Len(rxq) = 1 /\ wire = NULL /\ rxq' = <<>>
  <2>1. f.type \in Answers => Len(rxq) = 1 /\ wire = NULL
    BY <1>2, PerfectNotLoose DEF IInv, AnswerLast, Answers
  <2> QED  BY <2>1, <1>2, EmptySeq
<1>7. try + 1 < Tries
  <2>1. try \in Nat /\ try + Len(rxq) <= MaxPending + 2
    BY <1>2, Consts, PerfectNotLoose DEF IInv, LinkType, Budget
  <2> QED  BY <1>2, <2>1, Consts
<1>8. CASE f.baud # baud /\ UNCHANGED <<pc, attempt, frame, cmdVars, result>>
  <2>1. pc' = pc /\ attempt' = attempt /\ frame' = frame /\ sent' = sent /\ found' = found
        /\ result' = result
    BY <1>8 DEF cmdVars
  <2>2. Trying /\ found' => frame' = gps.baud
    BY <2>1, <1>3 DEF Polled
  <2>3. Trying /\ baud = gps.baud => (found \/ f.type = "cfg_prt" => found')
    BY <1>5, <1>8
  <2> QED  BY <1>1, <1>8, <2>1, <2>2, <2>3, ReadFound
<1>9. ASSUME f.baud = baud, f.type \in Answers, frame' = frame, NEW r \in BOOLEAN, Return(r),
             Trying => r = found, pc = "set_proto" => r
      PROVE  Found'
  <2>1. Len(rxq) = 1 /\ wire = NULL /\ rxq' = <<>> /\ wire' = wire
    BY <1>1, <1>6, <1>9
  <2>2. Trying => found /\ baud = gps.baud
    <3> SUFFICES ASSUME Trying PROVE found /\ baud = gps.baud
      OBVIOUS
    <3>1. baud = gps.baud
      BY <1>5, <1>9
    <3>2. found \/ Len(rxq) >= 2
      BY <3>1, <2>1, <1>1, <1>3 DEF AnswerComes
    <3> QED  BY <3>1, <3>2, <2>1
  <2>3. Trying => r = (baud = gps.baud)
    BY <2>2, <1>9
  <2>4. Trying /\ r => frame = gps.baud
    BY <2>2, <1>3 DEF Polled
  <2> QED  BY <1>1, <1>9, <2>1, <2>3, <2>4, ReturnFound
<1>10. CASE f.baud = baud /\ frame' = IF answer /\ Command = "cfg_prt" THEN f.rate ELSE frame
  <2>1. CASE answer /\ Command = "mon_ver" /\ Return(TRUE)
    <3>1. f.type = "mon_ver" /\ ~Trying /\ frame' = frame
      BY <2>1, <1>5, <1>10
    <3> QED  BY <3>1, <2>1, <1>9, <1>10 DEF Answers
  <2>2. CASE ack /\ Return((IsPoll => found) /\ f.ok)
    <3> DEFINE r == (IsPoll => found) /\ f.ok
    <3>1. f.type \in {"ack_prt", "ack_msg"} /\ f.ok \in BOOLEAN /\ found \in BOOLEAN
      <4>1. f.ok \in BOOLEAN /\ f.type \in {"cfg_prt", "ack_prt", "mon_ver", "ack_msg", "nav"}
        BY <1>2 DEF Frame
      <4>2. AckOf \in {"ack_prt", "ack_msg", "none"}
        BY DEF AckOf
      <4>3. found \in BOOLEAN
        BY DEF IInv, LinkType
      <4> QED  BY <4>1, <4>2, <4>3, <2>2
    <3>2. f.type \in Answers /\ frame' = frame
      <4>1. f.type # Command
        BY <3>1, <1>4
      <4> QED  BY <3>1, <4>1, <1>10 DEF Answers
    <3>3. Len(rxq) = 1 /\ wire = NULL
      BY <3>2, <1>6
    <3>4. f.type = "ack_prt" /\ baud = gps.baud /\ (Trying \/ pc = "set_proto") => f.ok
      BY <3>3, <1>1, <1>2, <1>3 DEF AnswerComes
    <3>5. Trying => r = found
      BY <3>1, <3>4, <2>2, <1>5, <1>10
    <3>6. pc = "set_proto" => r
      <4>1. pc = "set_proto" => baud = gps.baud
        BY <1>3 DEF Tuned, Settled
      <4>2. pc = "set_proto" => f.type = "ack_prt" /\ ~IsPoll
        BY <1>5, <2>2
      <4> QED  BY <4>1, <4>2, <3>4
    <3>7. r \in BOOLEAN /\ Return(r)
      BY <2>2
    <3> HIDE DEF r
    <3> QED  BY <3>2, <3>5, <3>6, <3>7, <1>9, <1>10
  <2>3. CASE /\ ~ack /\ ~(answer /\ Command = "mon_ver")
             /\ found' = (found \/ answer) /\ UNCHANGED <<pc, attempt, sent, result>>
    <3>1. pc' = pc /\ attempt' = attempt /\ sent' = sent /\ result' = result
      BY <2>3
    <3>2. frame' = frame \/ Trying
      <4>1. answer /\ Command = "cfg_prt" => Trying
        BY <1>4 DEF IsPoll, Command, Trying
      <4> QED  BY <4>1, <1>10
    <3>3. Trying /\ found' => frame' = gps.baud
      <4> SUFFICES ASSUME Trying, found' PROVE frame' = gps.baud
        OBVIOUS
      <4>1. CASE answer
        BY <4>1, <1>5, <1>10
      <4>2. CASE ~answer
        <5>1. found /\ frame' = frame
          BY <4>2, <2>3, <1>10
        <5> QED  BY <5>1, <1>3 DEF Polled
      <4> QED  BY <4>1, <4>2
    <3>4. Trying /\ baud = gps.baud => (found \/ f.type = "cfg_prt" => found')
      BY <2>3, <1>5
    <3>5. Trying \/ pc = "set_proto" => f.type # "ack_prt"
      BY <2>3, <1>5
    <3> QED  BY <1>1, <3>1, <3>2, <3>3, <3>4, <3>5, ReadFound
  <2> QED  BY <1>7, <1>10, <2>1, <2>2, <2>3 DEF Rx
<1> QED  BY <1>8, <1>10 DEF Rx

(* Silence: the answer to what was sent at the receiver's rate would not    *)
(* have let the ESP wait.                                                   *)
LEMMA TimeoutFound ==
  ASSUME IInv, Perfect, Found, Timeout
  PROVE  Found'
<1>1. /\ sent /\ rxq = <<>> /\ wire = NULL /\ frame' = frame /\ Return(FALSE)
      /\ baud' = baud /\ wire' = wire /\ rxq' = rxq /\ gps' = gps
  BY DEF Timeout
<1>2. ~(baud = gps.baud /\ (Trying \/ pc = "set_proto"))
  BY <1>1, EmptySeq DEF Found, AnswerComes
<1>3. pc # "set_proto"
  BY <1>2 DEF Found, Tuned, Settled
<1> QED  BY <1>1, <1>2, <1>3, ReturnFound

(* The receiver and gps_ubx_init keep what was found. *)
LEMMA NextPInv == IInv /\ PInv /\ [Next]_vars => PInv'
<1> SUFFICES ASSUME IInv, PInv, [Next]_vars, Perfect' PROVE Found'
  BY DEF PInv
<1>1. world' = world /\ build' = build
  BY DEF Next, Handle, SendNav, Lose, gps_ubx_init, vars, constVars
<1>2. Perfect /\ Found
  BY <1>1 DEF Perfect, PInv
<1>3. CASE UNCHANGED vars
  <2>1. /\ pc' = pc /\ attempt' = attempt /\ baud' = baud /\ frame' = frame
        /\ sent' = sent /\ found' = found /\ wire' = wire /\ rxq' = rxq
        /\ gps' = gps /\ result' = result
    BY <1>3 DEF vars, cmdVars
  <2>2. Searching' /\ MessagesOn' /\ Polled' /\ AnswerComes'
    BY <1>2, <2>1 DEF Found, Searching, MessagesOn, Polled, AnswerComes, Trying
  <2>3. Tuned' /\ WireExact'
    BY <1>2, <2>1 DEF Found, Tuned, Settled, WireExact, Trying, TryBaud
  <2> QED  BY <2>2, <2>3 DEF Found
<1>4. CASE Lose \/ Damaged
  <2>1. world = "flaky ublox"
    BY <1>4 DEF Lose, Damaged, Lossy
  <2>2. world = "ublox"
    BY <1>2 DEF Perfect
  <2> QED  BY <2>1, <2>2
<1>5. CASE Handle
  BY <1>2, <1>5, HandleFound
<1>6. CASE SendNav
  BY <1>2, <1>6, SendNavFound
<1>7. CASE gps_ubx_init
  BY <1>2, <1>4, <1>7, TxFound, RxFound, TimeoutFound DEF gps_ubx_init
<1> QED  BY <1>3, <1>4, <1>5, <1>6, <1>7 DEF Next

(* Found and the types at the end say what Configured does. *)
LEMMA FoundIsConfigured == IInv /\ PInv => Configured
<1> SUFFICES ASSUME IInv, PInv, pc = "done", Perfect
             PROVE  /\ result = TRUE /\ baud = 115200 /\ gps.baud = 115200
                    /\ gps.msgs = {NavMsgs[i] : i \in DOMAIN NavMsgs}
  BY DEF Configured, Perfect
<1>1. gps.baud = 115200 /\ baud = 115200
  BY DEF PInv, Found, Tuned, Settled
<1>2. result = TRUE /\ \A i \in 1..4 : NavMsgs[i] \in gps.msgs
  BY DEF PInv, Found, MessagesOn
<1>3. gps.msgs \subseteq NavSet
  BY DEF IInv, LinkType
<1>4. DOMAIN NavMsgs = 1..4 /\ NavSet = {NavMsgs[i] : i \in 1..4}
  BY DEF NavMsgs, NavSet
<1> QED  BY <1>1, <1>2, <1>3, <1>4

(* A receiver that knows UBX is found at whichever rate it talks, and ends  *)
(* at 115200 baud with all four messages on (gps_ubx_init), for every       *)
(* number of rounds and every burst shorter than the frames read for a      *)
(* command.                                                                 *)
THEOREM ConfiguredHolds == Spec => []Configured
<1>1. Init => PInv
  BY InitFound DEF PInv
<1> QED  BY <1>1, NextPInv, FoundIsConfigured, InitInvariance, PTL DEF Spec


-----------------------------------------------------------------------------
(* The order of app_main. *)

(* What is in front keeps its place, what is behind moves by the length. *)
LEMMA Joined ==
  ASSUME NEW S, NEW s \in Seq(S), NEW t \in Seq(S)
  PROVE  /\ s \o t \in Seq(S) /\ Len(s \o t) = Len(s) + Len(t)
         /\ Len(s) \in Nat /\ Len(t) \in Nat
         /\ \A i \in 1..Len(s) : (s \o t)[i] = s[i]
         /\ \A i \in (Len(s) + 1)..(Len(s) + Len(t)) : (s \o t)[i] = t[i - Len(s)]
BY ConcatProperties, LenProperties

(* What stands where in the order of app_main. *)
LEMMA Path ==
  /\ Len(app_main) = 15
  /\ app_main[1] = "info" /\ app_main[2] = "led_timer"
  /\ app_main[3] = "gps_ubx_init" /\ app_main[4] = "gps_timer" /\ app_main[5] = "gps_read_task"
  /\ app_main[6] = "sdcard_task_handle" /\ app_main[7] = "button_isr" /\ app_main[8] = "spi_bus"
  /\ app_main[9] = "sdcard_queue" /\ app_main[10] = "writer_task"
  /\ app_main[11] = "logFileMutex"
  /\ app_main[12] = "led_flash_task" /\ app_main[13] = "usb_queue"
  /\ app_main[14] = "usb_task" /\ app_main[15] = "its_callback"
<1> DEFINE S == {"info", "gps_timer", "usb_queue", "usb_task", "its_callback"}
                  \cup Gps \cup Sd \cup Led
           a == <<"info", "led_timer">>
           d == <<"led_flash_task", "usb_queue", "usb_task", "its_callback">>
<1>1. a \in Seq(S) /\ Len(a) = 2 /\ a[1] = "info" /\ a[2] = "led_timer"
  BY DEF Led
<1>2. /\ init_gps \in Seq(S) /\ Len(init_gps) = 3
      /\ init_gps[1] = "gps_ubx_init" /\ init_gps[2] = "gps_timer"
      /\ init_gps[3] = "gps_read_task"
  BY DEF init_gps, Gps
<1>3. /\ init_sdcard \in Seq(S) /\ Len(init_sdcard) = 6
      /\ init_sdcard[1] = "sdcard_task_handle" /\ init_sdcard[2] = "button_isr"
      /\ init_sdcard[3] = "spi_bus" /\ init_sdcard[4] = "sdcard_queue"
      /\ init_sdcard[5] = "writer_task" /\ init_sdcard[6] = "logFileMutex"
  BY DEF init_sdcard, Sd
<1>4. /\ d \in Seq(S) /\ Len(d) = 4
      /\ d[1] = "led_flash_task" /\ d[2] = "usb_queue" /\ d[3] = "usb_task"
      /\ d[4] = "its_callback"
  BY DEF Led
<1> DEFINE b == a \o init_gps
           c == b \o init_sdcard
           e == c \o d
<1>0. app_main = e
  BY DEF app_main
<1> HIDE DEF S, a, d, b, c, e
<1>j. \A s, t \in Seq(S) :
        /\ s \o t \in Seq(S) /\ Len(s \o t) = Len(s) + Len(t)
        /\ \A i \in 1..Len(s) : (s \o t)[i] = s[i]
        /\ \A i \in (Len(s) + 1)..(Len(s) + Len(t)) : (s \o t)[i] = t[i - Len(s)]
  BY Joined
<1>5. /\ b \in Seq(S) /\ Len(b) = 5
      /\ b[1] = a[1] /\ b[2] = a[2]
      /\ b[3] = init_gps[1] /\ b[4] = init_gps[2] /\ b[5] = init_gps[3]
  <2>1. /\ b \in Seq(S) /\ Len(b) = Len(a) + Len(init_gps)
        /\ \A i \in 1..Len(a) : b[i] = a[i]
        /\ \A i \in (Len(a) + 1)..(Len(a) + Len(init_gps)) : b[i] = init_gps[i - Len(a)]
    BY <1>1, <1>2, <1>j DEF b
  <2> QED  BY <2>1, <1>1, <1>2
<1>6. /\ c \in Seq(S) /\ Len(c) = 11
      /\ \A i \in 1..5 : c[i] = b[i]
      /\ \A i \in 6..11 : c[i] = init_sdcard[i - 5]
  <2>1. /\ c \in Seq(S) /\ Len(c) = Len(b) + Len(init_sdcard)
        /\ \A i \in 1..Len(b) : c[i] = b[i]
        /\ \A i \in (Len(b) + 1)..(Len(b) + Len(init_sdcard)) : c[i] = init_sdcard[i - Len(b)]
    BY <1>3, <1>5, <1>j DEF c
  <2> QED  BY <2>1, <1>3, <1>5
<1>7. /\ Len(e) = 15
      /\ \A i \in 1..11 : e[i] = c[i]
      /\ \A i \in 12..15 : e[i] = d[i - 11]
  <2>1. /\ Len(e) = Len(c) + Len(d)
        /\ \A i \in 1..Len(c) : e[i] = c[i]
        /\ \A i \in (Len(c) + 1)..(Len(c) + Len(d)) : e[i] = d[i - Len(c)]
    BY <1>4, <1>6, <1>j DEF e
  <2> QED  BY <2>1, <1>4, <1>6
<1>8. e[1] = "info" /\ e[2] = "led_timer" /\ e[3] = "gps_ubx_init"
      /\ e[4] = "gps_timer" /\ e[5] = "gps_read_task"
  BY <1>1, <1>2, <1>5, <1>6, <1>7
<1>9. e[6] = "sdcard_task_handle" /\ e[7] = "button_isr" /\ e[8] = "spi_bus"
      /\ e[9] = "sdcard_queue" /\ e[10] = "writer_task" /\ e[11] = "logFileMutex"
  BY <1>3, <1>6, <1>7
<1>10. e[12] = "led_flash_task" /\ e[13] = "usb_queue" /\ e[14] = "usb_task"
      /\ e[15] = "its_callback"
  BY <1>4, <1>7
<1> QED  BY <1>0, <1>7, <1>8, <1>9, <1>10

(* Every step has one place. *)
LEMMA OnePlace ==
  \A i \in 1..15 :
    /\ app_main[i] = "info" <=> i = 1
    /\ app_main[i] = "gps_ubx_init" <=> i = 3
    /\ app_main[i] = "gps_timer" <=> i = 4
    /\ app_main[i] = "gps_read_task" <=> i = 5
    /\ app_main[i] = "button_isr" <=> i = 7
    /\ app_main[i] = "spi_bus" <=> i = 8
    /\ app_main[i] = "logFileMutex" <=> i = 11
    /\ app_main[i] = "led_flash_task" <=> i = 12
    /\ app_main[i] = "usb_queue" <=> i = 13
    /\ app_main[i] = "usb_task" <=> i = 14
    /\ app_main[i] = "its_callback" <=> i = 15
<1> TAKE i \in 1..15
<1>1. \/ i = 1 \/ i = 2 \/ i = 3 \/ i = 4 \/ i = 5 \/ i = 6 \/ i = 7 \/ i = 8
      \/ i = 9 \/ i = 10 \/ i = 11 \/ i = 12 \/ i = 13 \/ i = 14 \/ i = 15
  OBVIOUS
<1> QED  BY <1>1, Path

(* What app_main has made, by how far it is. *)
Reached ==
  /\ Has("gps_ubx_init") <=> "GPS" \in options /\ step > 3
  /\ Has("gps_timer") <=> step > 4
  /\ Has("button_isr") <=> "SDCARD" \in options /\ step > 7
  /\ Has("logFileMutex") <=> "SDCARD" \in options /\ step > 11
  /\ Has("led_flash_task") <=> "LED" \in options /\ step > 12
  /\ Has("usb_queue") <=> step > 13
  /\ Has("its_callback") <=> step > 15
  /\ Booted <=> step = 16

(* Where app_main is says what it has made. *)
LEMMA HasWhen == step \in 1..16 => Reached
<1> SUFFICES ASSUME step \in 1..16 PROVE Reached
  OBVIOUS
<1>1. \A i \in 1..(step - 1) : i \in 1..15
  OBVIOUS
<1>2. /\ Made("gps_ubx_init") <=> "GPS" \in options
      /\ Made("gps_timer") /\ Made("usb_queue") /\ Made("its_callback")
      /\ Made("button_isr") <=> "SDCARD" \in options
      /\ Made("logFileMutex") <=> "SDCARD" \in options
      /\ Made("led_flash_task") <=> "LED" \in options
  BY DEF Made, Gps, Sd, Led
<1>3. Booted <=> step = 16
  BY Path DEF Booted
<1> DEFINE Past(h) == \E i \in 1..(step - 1) : app_main[i] = h
<1>4. /\ Past("gps_ubx_init") <=> step > 3
      /\ Past("gps_timer") <=> step > 4
      /\ Past("button_isr") <=> step > 7
      /\ Past("logFileMutex") <=> step > 11
  <2>1. /\ step > 3 => 3 \in 1..(step - 1)
        /\ step > 4 => 4 \in 1..(step - 1)
        /\ step > 7 => 7 \in 1..(step - 1)
        /\ step > 11 => 11 \in 1..(step - 1)
    OBVIOUS
  <2>2. \A i \in 1..(step - 1) : step > i
    OBVIOUS
  <2> QED  BY <1>1, <2>1, <2>2, OnePlace
<1>5. /\ Past("led_flash_task") <=> step > 12
      /\ Past("usb_queue") <=> step > 13
      /\ Past("its_callback") <=> step > 15
  <2>1. /\ step > 12 => 12 \in 1..(step - 1)
        /\ step > 13 => 13 \in 1..(step - 1)
        /\ step > 15 => 15 \in 1..(step - 1)
    OBVIOUS
  <2>2. \A i \in 1..(step - 1) : step > i
    OBVIOUS
  <2> QED  BY <1>1, <2>1, <2>2, OnePlace
<1> HIDE DEF Past
<1>6. \A h : Has(h) <=> Made(h) /\ Past(h)
  BY DEF Has, Past
<1> QED  BY <1>2, <1>3, <1>4, <1>5, <1>6 DEF Reached

(* The same of the next state. *)
LEMMA HasWhenNext == step' \in 1..16 => Reached'
<1>1. (step \in 1..16)' => Reached'
  BY HasWhen, PTL
<1> QED  BY <1>1

(* What lies between two numbers. *)
LEMMA Between == \A a, b, j \in Nat : a < j /\ b > j => j \in (a + 1)..(b - 1)
<1> TAKE a, b, j \in Nat
<1> SUFFICES ASSUME a < j, b > j PROVE j \in (a + 1)..(b - 1)
  OBVIOUS
<1>1. a + 1 \in Int /\ b - 1 \in Int /\ a + 1 <= j /\ j <= b - 1
  OBVIOUS
<1> QED  BY <1>1

(* app_main goes on, never back, and leaves out only what the build does. *)
LEMMA GoesOn ==
  ASSUME step \in 1..15, GoOn
  PROVE  /\ step' \in 2..16 /\ step' > step /\ (step' <= 15 => Made(app_main[step']))
         /\ step < 3 /\ step' > 3 => "GPS" \notin options
         /\ step < 14 => step' <= 14
         /\ step = 14 => step' = 15
         /\ step = 15 => step' = 16
<1>1. /\ step' \in (step + 1)..16 /\ (step' <= 15 => Made(app_main[step']))
      /\ \A i \in (step + 1)..(step' - 1) : ~Made(app_main[i])
  <2>1. Len(app_main) = 15
    BY Path
  <2> HIDE DEF app_main
  <2>2. 15 + 1 = 16
    OBVIOUS
  <2> QED  BY <2>1, <2>2 DEF GoOn
<1>2. Made(app_main[14]) /\ Made(app_main[15]) /\ (Made(app_main[3]) <=> "GPS" \in options)
  BY Path DEF Made, Gps, Sd, Led
<1>3. step \in Nat /\ step' \in Nat
  BY <1>1
<1>4. step < 3 /\ step' > 3 => "GPS" \notin options
  <2>1. step < 3 /\ step' > 3 => 3 \in (step + 1)..(step' - 1)
    BY <1>3, Between
  <2> QED  BY <1>1, <1>2, <2>1
<1>5. ~(step < 14 /\ step' > 14) /\ ~(step < 15 /\ step' > 15)
  <2>1. step < 14 /\ step' > 14 => 14 \in (step + 1)..(step' - 1)
    BY <1>3, Between
  <2>2. step < 15 /\ step' > 15 => 15 \in (step + 1)..(step' - 1)
    BY <1>3, Between
  <2> QED  BY <1>1, <1>2, <2>1, <2>2
<1>6. step' \in 2..16 /\ step' > step
  BY <1>1
<1>7. (step < 14 => step' <= 14) /\ (step = 14 => step' = 15) /\ (step = 15 => step' = 16)
  BY <1>5, <1>6
<1> QED  BY <1>1, <1>4, <1>6, <1>7

(* Where app_main is when it takes a step. *)
LEMMA AtPlace ==
  ASSUME step \in 1..16, NEW s, At(s)
  PROVE  /\ step \in 1..15 /\ app_main[step] = s /\ upc \notin {"version", "info"}
         /\ s = "info" <=> step = 1
         /\ s = "gps_ubx_init" <=> step = 3
         /\ s = "gps_read_task" <=> step = 5
         /\ s = "usb_task" <=> step = 14
<1>1. step \in 1..15 /\ app_main[step] = s /\ upc \notin {"version", "info"}
  BY Path DEF At, Booted
<1> QED  BY <1>1, OnePlace

-----------------------------------------------------------------------------
(* What app_main and the tasks that run meanwhile keep. *)

UsbRecords == {"version", "info", "second", "its"}
Attempt == attempt < Attempts /\ build \in Builds /\ result \in {TRUE, FALSE, NULL}
OwnTypes ==
  /\ options \in Options /\ secondOver \in BOOLEAN
  /\ cpc \in {"wait", "mount", "lock", "log"} /\ presses \in 0..MaxPresses
  /\ {pressed, early} \subseteq BOOLEAN
  /\ upc \in {"none", "version", "info", "receive"} /\ usb \in Seq(UsbRecords)
LedTypes ==
  /\ {flash, ltimer} \subseteq BOOLEAN
  /\ lpc \in {"wait", "refresh", "stop", "start"} /\ cb \in {"idle", "refresh"}
  /\ {pixel, shown} \subseteq {"dim", "bright"}
(* What has been made, and who waits for it: app_main does not go on over   *)
(* the first records of the USB task, and only a press while it boots lets  *)
(* a second go by or sends the control task ahead of it.                    *)
AtStep == step \in 1..16 /\ (~Booted => Made(app_main[step]))
GpsDone == Has("gps_ubx_init") => pc = "done"
UsbStarted == (upc = "none" <=> step <= 14) /\ (Booted => upc = "receive")
NobodyAhead ==
  /\ secondOver => Booted \/ early
  /\ pressed \/ cpc # "wait" => Has("button_isr") /\ (Booted \/ early)
(* The text has room for the most a receiver can tell: 29 characters, 9 and *)
(* 29 for each of 15 extensions, with what is around them: 72 + 15 * 45.     *)
TextFits ==
  /\ text \in Nat
  /\ step = 1 => text = 0
  /\ pc \notin {"messages", "done"} => text <= MainText
  /\ text <= MainText + 747
(* An info record is taken when nothing is added to the text any more. *)
InfoWhole == info # NULL => info = text /\ step > 3
(* The first records are those of the USB task. *)
UsbFirst ==
  ~early =>
    /\ upc \in {"none", "version"} => usb = <<>>
    /\ upc = "info" => usb = <<"version">>
    /\ upc = "receive" => usb = <<"version", "info">>
BInv ==
  /\ IInv /\ PInv /\ Attempt
  /\ OwnTypes /\ LedTypes /\ AtStep /\ GpsDone /\ UsbStarted /\ NobodyAhead
  /\ TextFits /\ InfoWhole /\ UsbFirst

(* What the proofs need of the constants. *)
LEMMA BootConsts ==
  /\ MainText \in Nat /\ TextSize \in Nat /\ MaxPresses \in Nat
  /\ \A l \in VersionLens : l \in 40..512
BY BootAssumption

(* Nothing runs at the start. *)
LEMMA BootInitInv == BootInit => BInv
<1> SUFFICES ASSUME BootInit PROVE BInv
  OBVIOUS
<1>1. Init /\ step = 1 /\ text = 0 /\ upc = "none" /\ cpc = "wait" /\ pressed = FALSE
      /\ secondOver = FALSE /\ info = NULL /\ usb = <<>> /\ early = FALSE
      /\ lpc = "wait" /\ flash = FALSE /\ cb = "idle" /\ ltimer = FALSE
      /\ pixel = "dim" /\ shown = "dim" /\ options \in Options /\ presses = 0
  BY DEF BootInit
<1>2. IInv /\ PInv
  BY <1>1, InitIInv, InitFound DEF PInv
<1>3. Attempt
  <2>1. attempt = 0 /\ build \in Builds /\ result = NULL
    BY <1>1 DEF Init
  <2> QED  BY <2>1, RateFacts DEF Attempt
<1>4. OwnTypes /\ LedTypes
  <2>1. <<>> \in Seq(UsbRecords)
    BY EmptySeq
  <2>2. presses \in 0..MaxPresses
    BY <1>1, BootConsts
  <2>3. OwnTypes
    BY <1>1, <2>1, <2>2 DEF OwnTypes
  <2>4. LedTypes
    BY <1>1 DEF LedTypes
  <2> QED  BY <2>3, <2>4
<1>5. step \in 1..16 /\ ~(step > 3) /\ ~Booted
  BY <1>1, Path DEF Booted
<1>6. AtStep
  <2>1. Made("info")
    BY DEF Made, Gps, Sd, Led
  <2> QED  BY <1>1, <1>5, <2>1, Path DEF AtStep
<1>7. GpsDone /\ UsbStarted /\ NobodyAhead
  <2>1. ~Has("gps_ubx_init")
    BY <1>5, HasWhen DEF Reached
  <2> QED  BY <1>1, <1>5, <2>1 DEF GpsDone, UsbStarted, NobodyAhead
<1>8. TextFits
  BY <1>1, BootConsts DEF TextFits
<1>9. InfoWhole /\ UsbFirst
  BY <1>1 DEF InfoWhole, UsbFirst
<1> QED  BY <1>2, <1>3, <1>4, <1>6, <1>7, <1>8, <1>9 DEF BInv

(* A panic begins anew over a receiver that keeps its settings. *)
LEMMA PanicInv == BInv /\ Panic => BInv'
<1> SUFFICES ASSUME BInv, Panic PROVE BInv'
  OBVIOUS
<1>1. /\ step' = 1 /\ text' = 0 /\ upc' = "none" /\ cpc' = "wait" /\ pressed' = FALSE
      /\ secondOver' = FALSE /\ info' = NULL /\ usb' = <<>> /\ early' = FALSE
      /\ lpc' = "wait" /\ flash' = FALSE /\ cb' = "idle" /\ ltimer' = FALSE
      /\ pixel' = "dim" /\ shown' = "dim"
  BY DEF Panic, Reset
<1>2. Fresh' /\ gps' = gps /\ world' = world /\ build' = build /\ options' = options
      /\ presses' = presses /\ attempt' = 0 /\ result' = NULL
  BY DEF Panic, Fresh, constVars
<1>3. IInv'
  <2>1. GpsType' /\ Quiet'
    BY <1>2 DEF BInv, IInv, LinkType, GpsType, Quiet, Ublox
  <2> QED  BY <1>2, <2>1, FreshIInv, PTL
<1>4. PInv'
  <2>1. Perfect' => (gps.baud \in Rates)'
    BY <1>2 DEF BInv, PInv, Perfect, Found, Searching, Rates
  <2>2. Perfect' => Found'
    BY <1>2, <2>1, FreshFound, PTL
  <2> QED  BY <2>2 DEF PInv
<1>5. Attempt'
  <2>1. (Attempts)' = Attempts
    BY DEF Attempts
  <2> QED  BY <1>2, RateFacts DEF Attempt, BInv
<1>6. OwnTypes' /\ LedTypes'
  <2>1. <<>> \in Seq(UsbRecords)
    BY EmptySeq
  <2>2. OwnTypes'
    BY <1>1, <1>2, <2>1 DEF BInv, OwnTypes
  <2>3. LedTypes'
    BY <1>1 DEF LedTypes
  <2> QED  BY <2>2, <2>3
<1>7. AtStep'
  <2>1. Made("info")'
    BY DEF Made, Gps, Sd, Led
  <2> QED  BY <1>1, <2>1, Path DEF AtStep
<1>8. GpsDone' /\ UsbStarted' /\ NobodyAhead'
  <2>1. ~Has("gps_ubx_init")'
    BY <1>1 DEF Has
  <2>2. ~Booted'
    BY <1>1, Path DEF Booted
  <2> QED  BY <1>1, <2>1, <2>2 DEF GpsDone, UsbStarted, NobodyAhead
<1>9. TextFits'
  BY <1>1, BootConsts DEF TextFits
<1>10. InfoWhole' /\ UsbFirst'
  BY <1>1 DEF InfoWhole, UsbFirst
<1> QED  BY <1>3, <1>4, <1>5, <1>6, <1>7, <1>8, <1>9, <1>10 DEF BInv

(* What gps_ubx_init keeps does not depend on the rest. *)
LEMMA LinkSame ==
  IInv /\ PInv /\ Attempt /\ UNCHANGED vars => IInv' /\ PInv' /\ Attempt' /\ pc' = pc
<1> SUFFICES ASSUME IInv, PInv, Attempt, UNCHANGED vars PROVE IInv' /\ PInv' /\ Attempt' /\ pc' = pc
  OBVIOUS
<1>1. IInv' /\ PInv'
  BY NextIInv, NextPInv
<1>2. attempt' = attempt /\ build' = build /\ pc' = pc /\ result' = result
  BY DEF vars, constVars
<1> QED  BY <1>1, <1>2 DEF Attempt, Attempts

(* app_main goes on to its next step. *)
LEMMA OnwardParts ==
  ASSUME BInv, NEW s, At(s), GoOn,
         UNCHANGED <<options, secondOver, sdVars, usb, info, ledVars>>, pc' = pc,
         upc' = IF s = "usb_task" THEN "version" ELSE upc,
         s = "gps_ubx_init" => pc = "done"
  PROVE  /\ OwnTypes' /\ LedTypes' /\ AtStep' /\ GpsDone' /\ UsbStarted' /\ NobodyAhead'
         /\ UsbFirst' /\ step' > step /\ step' > 1 /\ step \in 1..15
<1>1. /\ OwnTypes /\ LedTypes /\ AtStep /\ GpsDone /\ UsbStarted /\ NobodyAhead /\ UsbFirst
  BY DEF BInv
<1>2. /\ step \in 1..15 /\ app_main[step] = s /\ upc \notin {"version", "info"}
      /\ s = "gps_ubx_init" <=> step = 3
      /\ s = "usb_task" <=> step = 14
  BY <1>1, AtPlace DEF AtStep
<1>3. /\ step' \in 2..16 /\ step' > step /\ (step' <= 15 => Made(app_main[step']))
      /\ step < 3 /\ step' > 3 => "GPS" \notin options
      /\ step < 14 => step' <= 14
      /\ step = 14 => step' = 15
      /\ step = 15 => step' = 16
  BY <1>2, GoesOn
<1>4. /\ options' = options /\ secondOver' = secondOver /\ cpc' = cpc /\ pressed' = pressed
      /\ presses' = presses /\ early' = early /\ usb' = usb /\ info' = info
      /\ lpc' = lpc /\ flash' = flash /\ cb' = cb /\ ltimer' = ltimer
      /\ pixel' = pixel /\ shown' = shown
  BY DEF sdVars, ledVars
<1>5. Reached /\ Reached' /\ ~Booted
  BY <1>2, <1>3, HasWhen, HasWhenNext DEF Reached
<1>6. upc' = IF step = 14 THEN "version" ELSE upc
  BY <1>2
<1>7. OwnTypes'
  BY <1>1, <1>4, <1>6 DEF OwnTypes
<1>8. LedTypes'
  BY <1>1, <1>4 DEF LedTypes
<1>9. AtStep'
  <2>1. step' \in 1..16 /\ (~Booted' => step' <= 15)
    BY <1>3, <1>5 DEF Reached
  <2>2. ~Booted' => Made(app_main[step'])
    BY <1>3, <2>1
  <2>3. (~Booted => Made(app_main[step]))'
    BY <1>4, <2>2 DEF Made
  <2> QED  BY <2>1, <2>3 DEF AtStep
<1>10. GpsDone'
  BY <1>1, <1>2, <1>3, <1>4, <1>5 DEF GpsDone, Reached
<1>11. UsbStarted'
  <2>1. step = 14 \/ step < 14 \/ step = 15
    BY <1>2
  <2>2. CASE step = 14
    BY <2>2, <1>3, <1>5, <1>6 DEF Reached, UsbStarted
  <2>3. CASE step < 14
    BY <2>3, <1>1, <1>2, <1>3, <1>5, <1>6 DEF Reached, UsbStarted
  <2>4. CASE step = 15
    BY <2>4, <1>1, <1>2, <1>3, <1>5, <1>6 DEF Reached, UsbStarted, OwnTypes
  <2> QED  BY <2>1, <2>2, <2>3, <2>4
<1>12. NobodyAhead'
  <2>1. Has("button_isr") => Has("button_isr")'
    BY <1>2, <1>3, <1>4, <1>5 DEF Reached
  <2> QED  BY <1>1, <1>4, <1>5, <2>1 DEF NobodyAhead
<1>13. UsbFirst'
  <2>1. step = 14 => upc = "none"
    BY <1>1 DEF UsbStarted
  <2> QED  BY <1>1, <1>4, <1>6, <2>1 DEF UsbFirst
<1> QED  BY <1>2, <1>3, <1>7, <1>8, <1>9, <1>10, <1>11, <1>12, <1>13

(* The text app_main writes first. *)
LEMMA WriteInfoInv == BInv /\ WriteInfo => BInv'
<1> SUFFICES ASSUME BInv, WriteInfo PROVE BInv'
  OBVIOUS
<1>1. At("info") /\ GoOn /\ text' = text + MainText
      /\ UNCHANGED <<vars, options, secondOver, sdVars, usbVars, ledVars>>
  BY DEF WriteInfo
<1>2. IInv' /\ PInv' /\ Attempt' /\ pc' = pc
  BY <1>1, LinkSame DEF BInv
<1>3. /\ OwnTypes' /\ LedTypes' /\ AtStep' /\ GpsDone' /\ UsbStarted' /\ NobodyAhead'
      /\ UsbFirst' /\ step' > step /\ step' > 1
  <2>1. upc' = upc /\ usb' = usb /\ info' = info
    BY <1>1 DEF usbVars
  <2> QED  BY <1>1, <1>2, <2>1, OnwardParts
<1>4. step = 1 /\ info' = info
  BY <1>1, AtPlace DEF BInv, AtStep, usbVars
<1>5. TextFits'
  BY <1>1, <1>2, <1>3, <1>4, BootConsts DEF BInv, TextFits
<1>6. InfoWhole'
  BY <1>4 DEF BInv, InfoWhole
<1> QED  BY <1>2, <1>3, <1>5, <1>6 DEF BInv

(* What is made next. *)
LEMMA MakeInv == BInv /\ Make => BInv'
<1> SUFFICES ASSUME BInv, Make PROVE BInv'
  OBVIOUS
<1>1. PICK s \in Led \cup Gps \cup Sd \cup {"gps_timer", "usb_queue", "usb_task", "its_callback"} :
        /\ At(s)
        /\ s = "gps_ubx_init" => pc = "done"
        /\ upc' = IF s = "usb_task" THEN "version" ELSE upc
        /\ rxq' = IF s = "gps_read_task" THEN <<>> ELSE rxq
  BY DEF Make
<1>2. /\ GoOn /\ UNCHANGED <<constVars, pc, attempt, baud, frame, cmdVars, wire, gps, result>>
      /\ UNCHANGED <<options, text, secondOver, sdVars, usb, info, ledVars>>
  BY DEF Make
<1>3. /\ OwnTypes' /\ LedTypes' /\ AtStep' /\ GpsDone' /\ UsbStarted' /\ NobodyAhead'
      /\ UsbFirst' /\ step' > step /\ step' > 1 /\ step \in 1..15
  BY <1>1, <1>2, OnwardParts
<1>4. s = "info" <=> step = 1
  BY <1>1, AtPlace DEF BInv, AtStep
<1>5. step # 1
  BY <1>1, <1>4 DEF Led, Gps, Sd
<1>6. IInv' /\ PInv' /\ Attempt' /\ pc' = pc
  <2>1. CASE s # "gps_read_task"
    <3>1. UNCHANGED vars
      BY <1>1, <1>2, <2>1 DEF vars
    <3> QED  BY <3>1, LinkSame DEF BInv
  <2>2. CASE s = "gps_read_task"
    <3>1. step = 5 /\ Made(s)
      BY <1>1, <2>2, AtPlace DEF BInv, AtStep, At
    <3>2. pc = "done" /\ ~sent
      <4>1. "GPS" \in options
        BY <3>1, <2>2 DEF Made, Gps
      <4>2. Has("gps_ubx_init")
        BY <3>1, <4>1, HasWhen DEF Reached
      <4> QED  BY <4>2 DEF BInv, GpsDone, IInv, Heard
    <3>3. /\ rxq' = <<>> /\ world' = world /\ build' = build /\ pc' = pc /\ attempt' = attempt
          /\ baud' = baud /\ frame' = frame /\ sent' = sent /\ found' = found /\ try' = try
          /\ wire' = wire /\ gps' = gps /\ result' = result
      BY <1>1, <1>2, <2>2 DEF constVars, cmdVars
    <3>4. IInv'
      <4>1. LinkType'
        <5>1. <<>> \in Seq(Frame)
          BY EmptySeq
        <5> QED  BY <3>3, <5>1 DEF BInv, IInv, LinkType
      <4>2. Quiet' /\ WireFits' /\ Heard'
        BY <3>2, <3>3 DEF BInv, IInv, Quiet, Ublox, WireFits, Heard, Loose, Lossy, Trying
      <4>3. DOMAIN rxq' = {} /\ Len(rxq') = 0
        BY <3>3
      <4>4. AnswerLast' /\ AckFits'
        BY <4>3 DEF AnswerLast, AckFits
      <4>5. Budget'
        <5>1. try' = 0
          BY <3>2, <3>3 DEF BInv, IInv, Budget
        <5> QED  BY <4>3, <5>1, Consts DEF Budget
      <4> QED  BY <4>1, <4>2, <4>4, <4>5 DEF IInv
    <3>5. PInv'
      <4> SUFFICES ASSUME Perfect' PROVE Found'
        BY DEF PInv
      <4>1. Found
        BY <3>3 DEF BInv, PInv, Perfect
      <4>2. Searching' /\ MessagesOn'
        BY <3>3, <4>1 DEF Found, Searching, MessagesOn
      <4>3. Tuned' /\ WireExact'
        BY <3>3, <4>1 DEF Found, Tuned, Settled, WireExact, Trying, TryBaud
      <4>4. Polled' /\ AnswerComes'
        BY <3>2, <3>3 DEF Trying, Polled, AnswerComes
      <4> QED  BY <4>2, <4>3, <4>4 DEF Found
    <3>6. Attempt'
      BY <3>3 DEF BInv, Attempt, Attempts
    <3> QED  BY <3>3, <3>4, <3>5, <3>6
  <2> QED  BY <2>1, <2>2
<1>7. TextFits'
  BY <1>2, <1>3, <1>6 DEF BInv, TextFits
<1>8. InfoWhole'
  BY <1>2, <1>3 DEF BInv, InfoWhole, AtStep
<1> QED  BY <1>3, <1>6, <1>7, <1>8 DEF BInv

(* After a command gps_ubx_init goes on within its loops, and after those of *)
(* set_msg it does not fail any more.                                       *)
LEMMA ReturnGoes ==
  ASSUME attempt \in Nat, Attempt, Quiet, build' = build, result = NULL,
         NEW r \in BOOLEAN, Return(r)
  PROVE  Attempt' /\ (pc = "messages" => pc' \in {"messages", "done"} /\ result' # FALSE)
<1>1. PICK v \in BOOLEAN : Tried(v) \/ BaudSet(v) \/ Retried(v) \/ ProtoSet(v) \/ Told(v)
  BY DEF Return, FallOff, Quiet
<1> DEFINE Goes ==
      /\ attempt' \in Nat /\ attempt' < Attempts
      /\ result' = result \/ result' \in {TRUE, FALSE}
<1>2. Attempts \in Nat /\ Attempts >= 5 /\ 0 < Attempts
  BY RateFacts
<1>3. ASSUME NEW b \in {TRUE, FALSE}, End(b) PROVE Goes /\ pc' = "done" /\ result' = b
  BY <1>2, <1>3 DEF End
<1>4. ASSUME NEW p, NEW n \in Nat, n < Attempts, Step(p, n)
      PROVE  Goes /\ pc' = p /\ result' = result
  BY <1>4 DEF Step
<1> HIDE DEF Goes
<1>5. /\ Goes
      /\ pc = "messages" => pc' \in {"messages", "done"} /\ (result' = result \/ result' = TRUE)
  <2>1. CASE Tried(v)
    <3>1. pc # "messages"
      BY <2>1 DEF Tried
    <3>2. \/ Step("set_proto", 0) \/ Step("set_baud", 0) \/ End(FALSE)
          \/ attempt + 1 < Attempts /\ Step("try", attempt + 1)
      <4>1. CASE v = TRUE
        <5>1. Step("set_proto", 0) \/ Step("set_baud", 0)
          BY <2>1, <4>1 DEF Tried
        <5> QED  BY <5>1
      <4>2. CASE v = FALSE
        <5>1. Tried(FALSE)
          BY <2>1, <4>2
        <5>2. \/ /\ attempt + 1 < Attempts /\ pc' = "try" /\ attempt' = attempt + 1
                 /\ result' = result
              \/ pc' = "done" /\ attempt' = 0 /\ result' = FALSE
          BY <5>1 DEF Tried, Step, End
        <5> QED  BY <5>2 DEF Step, End
      <4> QED  BY <4>1, <4>2
    <3>3. attempt + 1 \in Nat /\ 0 \in Nat
      OBVIOUS
    <3> QED  BY <1>2, <1>3, <1>4, <3>1, <3>2, <3>3
  <2>2. CASE BaudSet(v)
    BY <1>2, <1>4, <2>2 DEF BaudSet
  <2>3. CASE Retried(v)
    <3>1. pc # "messages" /\ (Step("set_proto", 0) \/ Step("retry_9600", 0) \/ End(FALSE))
      BY <2>3 DEF Retried
    <3> QED  BY <1>2, <1>3, <1>4, <3>1
  <2>4. CASE ProtoSet(v)
    <3>1. pc # "messages" /\ (Step("version", 0) \/ End(FALSE))
      BY <2>4 DEF ProtoSet
    <3> QED  BY <1>2, <1>3, <1>4, <3>1
  <2>5. CASE Told(v)
    <3>1. CASE pc = "version" /\ Step("messages", 0)
      BY <1>2, <1>4, <3>1
    <3>2. CASE pc = "messages" /\ attempt + 1 < 4 /\ Step("messages", attempt + 1)
      <4>1. attempt + 1 \in Nat /\ attempt + 1 < Attempts
        BY <1>2, <3>2
      <4> QED  BY <1>4, <3>2, <4>1
    <3>3. CASE End(TRUE)
      BY <1>3, <3>3
    <3>4. \/ pc = "version" /\ Step("messages", 0)
          \/ pc = "messages" /\ attempt + 1 < 4 /\ Step("messages", attempt + 1)
          \/ End(TRUE)
      BY <2>5, Tables DEF Told
    <3> QED  BY <3>1, <3>2, <3>3, <3>4
  <2> QED  BY <1>1, <2>1, <2>2, <2>3, <2>4, <2>5
<1>6. Attempt'
  BY <1>5 DEF Goes, Attempt, Attempts
<1>7. TRUE # FALSE /\ NULL # FALSE
  BY Consts
<1> QED  BY <1>5, <1>6, <1>7

(* So does gps_ubx_init as a whole; its last result is kept. *)
LEMMA NextGoes ==
  IInv /\ Attempt /\ Next /\ pc # "done" =>
    Attempt' /\ (pc = "messages" => pc' \in {"messages", "done"} /\ result' # FALSE)
<1> SUFFICES ASSUME IInv, Attempt, Next, pc # "done"
             PROVE  Attempt' /\ (pc = "messages" => pc' \in {"messages", "done"} /\ result' # FALSE)
  OBVIOUS
<1>1. attempt \in Nat /\ result = NULL /\ build' = build
  <2>1. build' = build
    BY DEF Next, Handle, SendNav, Lose, gps_ubx_init, constVars
  <2> QED  BY <2>1 DEF IInv, LinkType, Heard
<1>2. CASE UNCHANGED <<pc, attempt, result>>
  <2>1. Attempts' = Attempts
    BY DEF Attempts
  <2> QED  BY <1>1, <1>2, <2>1, Consts DEF Attempt
<1>3. CASE \E r \in BOOLEAN : Return(r)
  <2>1. PICK r \in BOOLEAN : Return(r)
    BY <1>3
  <2>2. Quiet
    BY DEF IInv
  <2> QED  BY <1>1, <2>1, <2>2, ReturnGoes
<1>4. UNCHANGED <<pc, attempt, result>> \/ \E r \in BOOLEAN : Return(r)
  <2>1. CASE Handle \/ SendNav \/ Lose \/ Tx
    BY <2>1 DEF Handle, SendNav, Lose, Tx
  <2>2. CASE Rx
    <3> DEFINE f == Head(rxq)
               r == (IsPoll => found) /\ f.ok
    <3>1. \/ UNCHANGED <<pc, attempt, frame, cmdVars, result>>
          \/ UNCHANGED <<pc, attempt, sent, result>>
          \/ Return(TRUE) \/ Return(r) \/ \E v \in FallOff : Return(v)
      BY <2>2 DEF Rx
    <3>2. r \in BOOLEAN /\ FallOff \subseteq BOOLEAN
      <4>1. f \in Frame
        BY <2>2, FrameTaken DEF Rx
      <4> QED  BY <4>1 DEF Frame, FallOff, IInv, Quiet
    <3> HIDE DEF r
    <3> QED  BY <3>1, <3>2
  <2>3. CASE Timeout \/ Damaged
    <3>1. Return(FALSE) /\ FALSE \in BOOLEAN
      BY <2>3 DEF Timeout, Damaged
    <3> QED  BY <3>1
  <2> QED  BY <2>1, <2>2, <2>3 DEF Next, gps_ubx_init
<1> QED  BY <1>2, <1>3, <1>4

(* The longest version frame has 15 extensions. *)
LEMMA LongestText ==
  ASSUME IInv', NEW n \in InfoAdded
  PROVE  /\ n \in 0..747
         /\ result' # FALSE /\ ~(pc = "version" /\ pc' = "messages") => n = 0
<1>1. \A l \in 40..512 : (l - 40) \div 30 \in 0..15
  OBVIOUS
<1>2. \A l \in VersionLens : Extensions(l) \in 0..15
  BY <1>1, BootConsts DEF Extensions
<1>3. \A k \in 0..15 : 72 + k * 45 \in 0..747
  OBVIOUS
<1>4. CASE result' = FALSE
  <2>0. ~(pc = "version" /\ pc' = "messages")
    BY <1>4, Consts DEF IInv, Heard
  <2>1. n \in {16}
    BY <1>4, <2>0 DEF InfoAdded
  <2>2. n \in 0..747
    BY <2>1
  <2> QED  BY <1>4, <2>2
<1>5. CASE result' # FALSE /\ pc = "version" /\ pc' = "messages"
  <2>1. n \in {20} \cup {72 + Extensions(l) * 45 : l \in VersionLens}
    BY <1>5 DEF InfoAdded
  <2> QED  BY <1>2, <1>3, <1>5, <2>1
<1>6. CASE result' # FALSE /\ ~(pc = "version" /\ pc' = "messages")
  <2>1. n \in {0}
    BY <1>6 DEF InfoAdded
  <2>2. n = 0 /\ n \in 0..747
    BY <2>1
  <2> QED  BY <2>2
<1> QED  BY <1>4, <1>5, <1>6

(* gps_ubx_init, before anybody else runs. *)
LEMMA InitGpsInv == BInv /\ InitGps => BInv'
<1> SUFFICES ASSUME BInv, InitGps PROVE BInv'
  OBVIOUS
<1>1. /\ At("gps_ubx_init") /\ pc # "done" /\ Next
      /\ secondOver' \in {secondOver, Has("gps_timer")}
      /\ UNCHANGED <<options, step, sdVars, usbVars, ledVars>>
  BY DEF InitGps, MayTakeLong
<1>2. PICK n \in InfoAdded : text' = text + n
  BY DEF InitGps
<1>3. step = 3 /\ step' = 3
  BY <1>1, AtPlace DEF BInv, AtStep
<1>4. Reached /\ Reached' /\ step \in 1..16 /\ step' \in 1..16
  BY <1>3, HasWhen, HasWhenNext
<1>5. ~Booted /\ ~Booted' /\ ~Has("gps_timer") /\ ~Has("gps_ubx_init")'
  BY <1>3, <1>4 DEF Reached
<1>6. /\ options' = options /\ cpc' = cpc /\ pressed' = pressed /\ presses' = presses
      /\ early' = early /\ upc' = upc /\ usb' = usb /\ info' = info
      /\ lpc' = lpc /\ flash' = flash /\ cb' = cb /\ ltimer' = ltimer
      /\ pixel' = pixel /\ shown' = shown
  BY <1>1 DEF sdVars, usbVars, ledVars
<1>7. IInv' /\ PInv'
  BY <1>1, NextIInv, NextPInv DEF BInv
<1>8. Attempt' /\ (pc = "messages" => pc' \in {"messages", "done"} /\ result' # FALSE)
  BY <1>1, NextGoes DEF BInv
<1>9. secondOver' \in BOOLEAN /\ (secondOver' => secondOver)
  <2>1. secondOver \in BOOLEAN
    BY DEF BInv, OwnTypes
  <2>2. CASE secondOver' = secondOver
    BY <2>1, <2>2
  <2>3. CASE secondOver' = Has("gps_timer")
    <3>1. secondOver' = FALSE
      BY <1>5, <2>3, Zenon DEF Has
    <3> QED  BY <3>1
  <2> QED  BY <1>1, <2>2, <2>3
<1>10. OwnTypes' /\ LedTypes'
  BY <1>6, <1>9 DEF BInv, OwnTypes, LedTypes
<1>11. AtStep'
  <2>1. Made(app_main[step])
    BY <1>5 DEF BInv, AtStep
  <2>2. (Made(app_main[step]))'
    BY <1>3, <1>6, <2>1 DEF Made
  <2> QED  BY <1>4, <2>2 DEF AtStep
<1>12. GpsDone' /\ UsbStarted'
  BY <1>3, <1>5, <1>6 DEF BInv, GpsDone, UsbStarted
<1>13. NobodyAhead'
  <2>1. Has("button_isr")' <=> Has("button_isr")
    BY <1>3, <1>4, <1>6 DEF Reached
  <2> QED  BY <1>5, <1>6, <1>9, <2>1 DEF BInv, NobodyAhead
<1>14. TextFits'
  <2>1. n \in 0..747 /\ (result' # FALSE /\ ~(pc = "version" /\ pc' = "messages") => n = 0)
    BY <1>7, LongestText
  <2>2. result' = FALSE => pc' = "done"
    BY <1>7, Consts DEF IInv, Heard
  <2>3. text \in Nat /\ MainText \in Nat /\ text + n \in Nat
    BY <2>1, BootConsts DEF BInv, TextFits
  <2>4. CASE pc = "messages"
    <3>1. n = 0
      BY <1>8, <2>1, <2>4
    <3>2. text' = text
      BY <1>2, <2>3, <3>1
    <3> QED  BY <1>3, <1>8, <2>4, <3>2 DEF BInv, TextFits
  <2>5. CASE pc # "messages"
    <3>1. text <= MainText
      BY <1>1, <2>5 DEF BInv, TextFits
    <3>2. text' \in Nat /\ text' <= MainText + 747
      BY <1>2, <2>1, <2>3, <3>1
    <3>3. pc' \notin {"messages", "done"} => n = 0
      BY <2>1, <2>2
    <3>4. pc' \notin {"messages", "done"} => text' <= MainText
      BY <1>2, <2>3, <3>1, <3>3
    <3> QED  BY <1>3, <3>2, <3>4 DEF TextFits
  <2> QED  BY <2>4, <2>5
<1>15. InfoWhole' /\ UsbFirst'
  BY <1>3, <1>6 DEF BInv, InfoWhole, UsbFirst
<1> QED  BY <1>7, <1>8, <1>10, <1>11, <1>12, <1>13, <1>14, <1>15 DEF BInv

-----------------------------------------------------------------------------
(* What runs beside app_main. *)

(* app_main stands still. *)
LEMMA MainSame ==
  ASSUME BInv, UNCHANGED <<vars, options, step, text>>
  PROVE  /\ IInv' /\ PInv' /\ Attempt' /\ AtStep' /\ GpsDone' /\ TextFits'
         /\ step \in 1..16 /\ Reached /\ (Booted' <=> Booted)
         /\ Has("button_isr")' <=> Has("button_isr")
<1>1. step' = step /\ options' = options /\ text' = text /\ step \in 1..16 /\ step' \in 1..16
  BY DEF BInv, AtStep
<1>2. IInv' /\ PInv' /\ Attempt' /\ pc' = pc
  BY LinkSame DEF BInv
<1>3. Reached /\ Reached'
  BY <1>1, HasWhen, HasWhenNext
<1>4. /\ Booted' <=> Booted
      /\ Has("button_isr")' <=> Has("button_isr")
      /\ Has("gps_ubx_init")' <=> Has("gps_ubx_init")
  BY <1>1, <1>3 DEF Reached
<1>5. AtStep'
  <2>1. ~Booted' => Made(app_main[step])
    BY <1>4 DEF BInv, AtStep
  <2>2. (~Booted => Made(app_main[step]))'
    BY <1>1, <2>1 DEF Made
  <2> QED  BY <1>1, <2>2 DEF AtStep
<1>6. GpsDone'
  BY <1>2, <1>4 DEF BInv, GpsDone
<1>7. TextFits'
  BY <1>1, <1>2 DEF BInv, TextFits
<1> QED  BY <1>1, <1>2, <1>3, <1>4, <1>5, <1>6, <1>7

(* The second record comes behind the first. *)
LEMMA TwoRecords ==
  ASSUME NEW a, NEW b
  PROVE  Append(<<a>>, b) = <<a, b>>
<1> DEFINE S == {a, b}
           s == <<a>>
           t == <<a, b>>
<1>1. s \in Seq(S) /\ Len(s) = 1 /\ s[1] = a /\ t \in Seq(S) /\ Len(t) = 2 /\ t[1] = a /\ t[2] = b
      /\ b \in S
  OBVIOUS
<1> HIDE DEF S, s, t
<1>2. Append(s, b) \in Seq(S) /\ Len(Append(s, b)) = 2
      /\ Append(s, b)[1] = a /\ Append(s, b)[2] = b
  <2>1. /\ Append(s, b) \in Seq(S) /\ Len(Append(s, b)) = Len(s) + 1
        /\ \A i \in 1..Len(s) : Append(s, b)[i] = s[i]
        /\ Append(s, b)[Len(s) + 1] = b
    <3>1. \A u \in Seq(S), e \in S :
            /\ Append(u, e) \in Seq(S) /\ Len(Append(u, e)) = Len(u) + 1
            /\ \A i \in 1..Len(u) : Append(u, e)[i] = u[i]
            /\ Append(u, e)[Len(u) + 1] = e
      BY AppendProperties
    <3> QED  BY <1>1, <3>1
  <2> QED  BY <1>1, <2>1
<1>3. \A i \in 1..2 : i = 1 \/ i = 2
  OBVIOUS
<1>4. Append(s, b) = t
  BY <1>1, <1>2, <1>3, SeqEqual
<1> QED  BY <1>4 DEF s, t

(* A record joins the first two, or is one of many. *)
LEMMA SentRecord ==
  ASSUME usb \in Seq(UsbRecords), NEW r \in UsbRecords, Sent(r)
  PROVE  /\ usb' \in Seq(UsbRecords)
         /\ usb = <<>> => usb' = <<r>>
         /\ usb = <<"version">> /\ r = "info" => usb' = <<"version", "info">>
         /\ usb = <<"version", "info">> => usb' = usb
<1>1. usb' \in Seq(UsbRecords)
  <2> HIDE DEF UsbRecords
  <2>1. Append(usb, r) \in Seq(UsbRecords)
    BY AppendProperties
  <2> QED  BY <2>1 DEF Sent
<1>2. usb = <<>> => usb' = <<r>>
  BY DEF Sent
<1>3. ASSUME usb = <<"version">>, r = "info" PROVE usb' = <<"version", "info">>
  <2>1. Len(usb) = 1
    BY <1>3
  <2>2. usb' = Append(usb, r)
    BY <2>1 DEF Sent
  <2>3. usb' = Append(<<"version">>, "info")
    BY <1>3, <2>2
  <2>4. Append(<<"version">>, "info") = <<"version", "info">>
    BY TwoRecords
  <2> QED  BY <2>3, <2>4
<1>4. usb = <<"version", "info">> => usb' = usb
  BY DEF Sent
<1> QED  BY <1>1, <1>2, <1>3, <1>4

(* A record is logged: by the timer or by Wi-Fi. *)
LEMMA LogDataInv ==
  ASSUME BInv, Booted \/ early, NEW r \in UsbRecords, log_data(r)
  PROVE  BInv'
<1>1. CASE Panic
  BY <1>1, PanicInv
<1>2. CASE /\ Sent(r) \/ UNCHANGED usb
           /\ flash' = ("LED" \in options) /\ secondOver' = FALSE
           /\ UNCHANGED <<vars, options, step, text, sdVars, upc, info>>
           /\ UNCHANGED <<lpc, cb, ltimer, pixel, shown>>
  <2>1. /\ IInv' /\ PInv' /\ Attempt' /\ AtStep' /\ GpsDone' /\ TextFits'
        /\ step \in 1..16 /\ Reached /\ (Booted' <=> Booted)
        /\ Has("button_isr")' <=> Has("button_isr")
    BY <1>2, MainSame
  <2>2. /\ options' = options /\ step' = step /\ text' = text /\ cpc' = cpc
        /\ pressed' = pressed /\ presses' = presses /\ early' = early /\ upc' = upc
        /\ info' = info /\ lpc' = lpc /\ cb' = cb /\ ltimer' = ltimer /\ pixel' = pixel
        /\ shown' = shown /\ secondOver' = FALSE
    BY <1>2 DEF sdVars
  <2>3. /\ usb' \in Seq(UsbRecords)
        /\ usb = <<"version", "info">> => usb' = usb
    BY <1>2, SentRecord DEF BInv, OwnTypes
  <2>4. OwnTypes'
    BY <2>2, <2>3 DEF BInv, OwnTypes
  <2>5. LedTypes'
    <3>1. flash' \in BOOLEAN
      BY <1>2
    <3> QED  BY <2>2, <3>1 DEF BInv, LedTypes
  <2>6. UsbStarted' /\ InfoWhole'
    BY <2>1, <2>2 DEF BInv, UsbStarted, InfoWhole
  <2>7. NobodyAhead'
    BY <2>1, <2>2 DEF BInv, NobodyAhead
  <2>8. UsbFirst'
    <3>1. ~early => upc = "receive"
      BY DEF BInv, UsbStarted
    <3> QED  BY <2>2, <2>3, <3>1 DEF BInv, UsbFirst
  <2> QED  BY <2>1, <2>4, <2>5, <2>6, <2>7, <2>8 DEF BInv
<1> QED  BY <1>1, <1>2 DEF log_data

(* The timer's second goes by, or Wi-Fi has a packet, when all is made. *)
LEMMA GpsLogInv == BInv /\ gps_log_data => BInv'
<1> SUFFICES ASSUME BInv, gps_log_data PROVE BInv'
  OBVIOUS
<1>1. (secondOver \/ Booted) /\ log_data("second")
  BY DEF gps_log_data
<1>2. Booted \/ early
  BY <1>1 DEF BInv, NobodyAhead
<1>3. "second" \in UsbRecords
  BY DEF UsbRecords
<1> QED  BY <1>1, <1>2, <1>3, LogDataInv

(* Wi-Fi has a packet: the callback is registered last. *)
LEMMA ItsLogInv == BInv /\ its_log_data => BInv'
<1> SUFFICES ASSUME BInv, its_log_data PROVE BInv'
  OBVIOUS
<1>1. Has("its_callback") /\ log_data("its")
  BY DEF its_log_data
<1>2. Booted
  <2>1. step \in 1..16
    BY DEF BInv, AtStep
  <2> QED  BY <1>1, <2>1, HasWhen DEF Reached
<1>3. "its" \in UsbRecords
  BY DEF UsbRecords
<1> QED  BY <1>1, <1>2, <1>3, LogDataInv

(* The USB task sends its two records. *)
LEMMA UsbTaskInv == BInv /\ usb_transmitter_task => BInv'
<1> SUFFICES ASSUME BInv, usb_transmitter_task PROVE BInv'
  OBVIOUS
<1>1. PICK r \in {"version", "info"} :
        /\ Sent(r) /\ upc = r /\ UNCHANGED <<vars, options, mainVars, sdVars, ledVars>>
        /\ r = "version" => upc' = "info" /\ info' = info
        /\ r = "info" => upc' = "receive" /\ info' = text
  BY DEF usb_transmitter_task
<1>2. /\ options' = options /\ step' = step /\ text' = text /\ secondOver' = secondOver
      /\ cpc' = cpc /\ pressed' = pressed /\ presses' = presses /\ early' = early
  BY <1>1 DEF mainVars, sdVars
<1>3. /\ IInv' /\ PInv' /\ Attempt' /\ AtStep' /\ GpsDone' /\ TextFits'
      /\ step \in 1..16 /\ Reached /\ (Booted' <=> Booted)
      /\ Has("button_isr")' <=> Has("button_isr")
  <2>1. UNCHANGED <<vars, options, step, text>>
    BY <1>1, <1>2
  <2> QED  BY <2>1, MainSame
<1>4. r \in UsbRecords /\ upc' \in {"info", "receive"} /\ upc \notin {"none", "receive"}
  BY <1>1 DEF UsbRecords
<1>5. /\ usb' \in Seq(UsbRecords)
      /\ usb = <<>> => usb' = <<r>>
      /\ usb = <<"version">> /\ r = "info" => usb' = <<"version", "info">>
  BY <1>1, <1>4, SentRecord DEF BInv, OwnTypes
<1>6. OwnTypes'
  BY <1>2, <1>4, <1>5 DEF BInv, OwnTypes
<1>7. LedTypes'
  BY <1>1 DEF BInv, LedTypes, ledVars
<1>8. ~Booted /\ step > 14
  <2>1. ~Booted /\ ~(step <= 14)
    BY <1>4 DEF BInv, UsbStarted
  <2> QED  BY <1>3, <2>1
<1>9. UsbStarted'
  BY <1>2, <1>3, <1>4, <1>8 DEF BInv, UsbStarted
<1>10. NobodyAhead'
  BY <1>2, <1>3 DEF BInv, NobodyAhead
<1>11. InfoWhole'
  <2>1. step > 3 /\ (info' = info \/ info' = text)
    BY <1>1, <1>3, <1>8
  <2> QED  BY <1>2, <2>1 DEF BInv, InfoWhole
<1>12. UsbFirst'
  <2>1. CASE r = "version"
    BY <1>1, <1>2, <1>5, <2>1 DEF BInv, UsbFirst
  <2>2. CASE r = "info"
    BY <1>1, <1>2, <1>5, <2>2 DEF BInv, UsbFirst
  <2> QED  BY <2>1, <2>2
<1> QED  BY <1>3, <1>6, <1>7, <1>9, <1>10, <1>11, <1>12 DEF BInv

(* The button is pressed. *)
LEMMA ButtonInv == BInv /\ button_isr_handler => BInv'
<1> SUFFICES ASSUME BInv, button_isr_handler PROVE BInv'
  OBVIOUS
<1>1. /\ Has("button_isr") /\ presses < MaxPresses
      /\ pressed' = TRUE /\ presses' = presses + 1 /\ early' = (early \/ ~Booted)
      /\ UNCHANGED <<vars, options, mainVars, cpc, usbVars, ledVars>>
  BY DEF button_isr_handler
<1>2. /\ options' = options /\ step' = step /\ text' = text /\ secondOver' = secondOver
      /\ cpc' = cpc /\ upc' = upc /\ usb' = usb /\ info' = info
  BY <1>1 DEF mainVars, usbVars
<1>3. /\ IInv' /\ PInv' /\ Attempt' /\ AtStep' /\ GpsDone' /\ TextFits'
      /\ step \in 1..16 /\ Reached /\ (Booted' <=> Booted)
      /\ Has("button_isr")' <=> Has("button_isr")
  <2>1. UNCHANGED <<vars, options, step, text>>
    BY <1>1, <1>2
  <2> QED  BY <2>1, MainSame
<1>4. early' \in BOOLEAN /\ (early => early') /\ (~Booted => early')
  BY <1>1
<1>5. OwnTypes'
  <2>1. presses' \in 0..MaxPresses
    BY <1>1, BootConsts DEF BInv, OwnTypes
  <2>2. pressed' \in BOOLEAN
    BY <1>1
  <2> QED  BY <1>2, <1>4, <2>1, <2>2 DEF BInv, OwnTypes
<1>6. LedTypes'
  BY <1>1 DEF BInv, LedTypes, ledVars
<1>7. UsbStarted' /\ InfoWhole'
  BY <1>2, <1>3 DEF BInv, UsbStarted, InfoWhole
<1>8. NobodyAhead'
  BY <1>1, <1>2, <1>3, <1>4 DEF BInv, NobodyAhead
<1>9. UsbFirst'
  BY <1>2, <1>4 DEF BInv, UsbFirst
<1> QED  BY <1>3, <1>5, <1>6, <1>7, <1>8, <1>9 DEF BInv

(* The control task mounts the card and takes the info text for its log. *)
LEMMA ControlInv == BInv /\ sdcard_control_task => BInv'
<1> SUFFICES ASSUME BInv, sdcard_control_task PROVE BInv'
  OBVIOUS
<1>1. CASE Panic
  BY <1>1, PanicInv
<1>2. CASE /\ cpc = "wait" => pressed
           /\ cpc' \in {"wait", "mount", "lock", "log"} /\ pressed' \in {pressed, FALSE}
           /\ secondOver' \in {secondOver, Has("gps_timer")}
           /\ info' = info \/ (info' = text /\ Has("logFileMutex"))
           /\ UNCHANGED <<vars, options, step, text, presses, early, upc, usb, ledVars>>
  <2>1. /\ IInv' /\ PInv' /\ Attempt' /\ AtStep' /\ GpsDone' /\ TextFits'
        /\ step \in 1..16 /\ Reached /\ (Booted' <=> Booted)
        /\ Has("button_isr")' <=> Has("button_isr")
    <3>1. UNCHANGED <<vars, options, step, text>>
      BY <1>2
    <3> QED  BY <3>1, MainSame
  <2>2. /\ options' = options /\ step' = step /\ text' = text /\ upc' = upc /\ usb' = usb
        /\ presses' = presses /\ early' = early
    BY <1>2
  <2>3. secondOver' \in BOOLEAN
    <3>1. CASE secondOver' = secondOver
      BY <3>1 DEF BInv, OwnTypes
    <3>2. CASE secondOver' = Has("gps_timer")
      BY <3>2, Zenon DEF Has
    <3> QED  BY <1>2, <3>1, <3>2
  <2>4. pressed' \in BOOLEAN
    BY <1>2 DEF BInv, OwnTypes
  <2>5. OwnTypes'
    BY <1>2, <2>2, <2>3, <2>4 DEF BInv, OwnTypes
  <2>6. LedTypes'
    BY <1>2 DEF BInv, LedTypes, ledVars
  <2>7. UsbStarted' /\ UsbFirst'
    BY <2>1, <2>2 DEF BInv, UsbStarted, UsbFirst
  <2>8. InfoWhole'
    <3>1. Has("logFileMutex") => step > 3
      BY <2>1 DEF Reached
    <3> QED  BY <1>2, <2>2, <3>1 DEF BInv, InfoWhole
  <2>9. NobodyAhead'
    <3>1. pressed \/ cpc # "wait"
      BY <1>2
    <3>2. Has("button_isr") /\ (Booted \/ early)
      BY <3>1 DEF BInv, NobodyAhead
    <3> QED  BY <2>1, <2>2, <3>2 DEF NobodyAhead
  <2> QED  BY <2>1, <2>5, <2>6, <2>7, <2>8, <2>9 DEF BInv
<1>3. CASE /\ cpc = "wait" /\ pressed /\ cpc' = "mount" /\ pressed' = FALSE
           /\ UNCHANGED <<vars, options, mainVars, presses, early, usbVars, ledVars>>
  BY <1>2, <1>3 DEF mainVars, usbVars
<1>4. CASE /\ cpc = "mount"
           /\ cpc' \in {"wait"} \cup IF Has("spi_bus") THEN {"lock"} ELSE {}
           /\ MayTakeLong
           /\ UNCHANGED <<vars, options, step, text, pressed, presses, early, usbVars, ledVars>>
  <2>1. cpc' \in {"wait", "lock"}
    BY <1>4
  <2> QED  BY <1>2, <1>4, <2>1 DEF MayTakeLong, usbVars
<1>5. CASE /\ cpc = "lock" /\ Has("logFileMutex") /\ cpc' = "log"
           /\ info' = text
           /\ UNCHANGED <<vars, options, mainVars, pressed, presses, early, upc, usb, ledVars>>
  BY <1>2, <1>5 DEF mainVars
<1> QED  BY <1>1, <1>3, <1>4, <1>5 DEF sdcard_control_task

(* The LED is on its own. *)
LEMMA LedInv == BInv /\ (led_flash \/ led_off_timer_cb) => BInv'
<1> SUFFICES ASSUME BInv, led_flash \/ led_off_timer_cb PROVE BInv'
  OBVIOUS
<1>1. UNCHANGED <<vars, options, mainVars, sdVars, usbVars>>
  BY DEF led_flash, led_off_timer_cb
<1>2. /\ options' = options /\ step' = step /\ text' = text /\ secondOver' = secondOver
      /\ cpc' = cpc /\ pressed' = pressed /\ presses' = presses /\ early' = early
      /\ upc' = upc /\ usb' = usb /\ info' = info
  BY <1>1 DEF mainVars, sdVars, usbVars
<1>3. /\ IInv' /\ PInv' /\ Attempt' /\ AtStep' /\ GpsDone' /\ TextFits'
      /\ step \in 1..16 /\ Reached /\ (Booted' <=> Booted)
      /\ Has("button_isr")' <=> Has("button_isr")
  <2>1. UNCHANGED <<vars, options, step, text>>
    BY <1>1, <1>2
  <2> QED  BY <2>1, MainSame
<1>4. LedTypes'
  <2>1. CASE led_flash
    BY <2>1 DEF led_flash, Take, Refresh, Restart, BInv, LedTypes
  <2>2. CASE led_off_timer_cb
    BY <2>2 DEF led_off_timer_cb, BInv, LedTypes
  <2> QED  BY <2>1, <2>2
<1>5. OwnTypes'
  BY <1>2 DEF BInv, OwnTypes
<1>6. UsbStarted' /\ InfoWhole' /\ UsbFirst' /\ NobodyAhead'
  BY <1>2, <1>3 DEF BInv, UsbStarted, InfoWhole, UsbFirst, NobodyAhead
<1> QED  BY <1>3, <1>4, <1>5, <1>6 DEF BInv

-----------------------------------------------------------------------------

(* What app_main and the tasks keep, they keep together. *)
LEMMA BootNextInv == BInv /\ [BootNext]_bootVars => BInv'
<1> SUFFICES ASSUME BInv, [BootNext]_bootVars PROVE BInv'
  OBVIOUS
<1>1. CASE UNCHANGED bootVars
  <2>1. UNCHANGED <<vars, options, mainVars, sdVars, usbVars, ledVars>>
    BY <1>1 DEF bootVars
  <2>2. /\ options' = options /\ step' = step /\ text' = text /\ secondOver' = secondOver
        /\ cpc' = cpc /\ pressed' = pressed /\ presses' = presses /\ early' = early
        /\ upc' = upc /\ usb' = usb /\ info' = info
    BY <2>1 DEF mainVars, sdVars, usbVars
  <2>3. /\ IInv' /\ PInv' /\ Attempt' /\ AtStep' /\ GpsDone' /\ TextFits'
        /\ step \in 1..16 /\ Reached /\ (Booted' <=> Booted)
        /\ Has("button_isr")' <=> Has("button_isr")
    <3>1. UNCHANGED <<vars, options, step, text>>
      BY <2>1, <2>2
    <3> QED  BY <3>1, MainSame
  <2>4. LedTypes'
    BY <2>1 DEF ledVars, BInv, LedTypes
  <2>5. OwnTypes'
    BY <2>2 DEF BInv, OwnTypes
  <2>6. UsbStarted' /\ InfoWhole' /\ UsbFirst' /\ NobodyAhead'
    BY <2>2, <2>3 DEF BInv, UsbStarted, InfoWhole, UsbFirst, NobodyAhead
  <2> QED  BY <2>3, <2>4, <2>5, <2>6 DEF BInv
<1>2. CASE Main
  BY <1>2, WriteInfoInv, MakeInv DEF Main
<1> QED  BY <1>1, <1>2, InitGpsInv, GpsLogInv, ItsLogInv, UsbTaskInv, ButtonInv, ControlInv,
            LedInv DEF BootNext

(* app_main, the tasks beside it and every boot after a panic keep the       *)
(* inductive invariant.                                                      *)
THEOREM BootInvariance == BootSpec => []BInv
  BY BootInitInv, BootNextInv, PTL DEF BootSpec

(* The types of Boot and of UbxInit are kept in all boots, and the info text *)
(* stays within its buffer (main.c:300, gps_ubx.c:466), provided that the    *)
(* buffer holds what app_main writes and the longest answer of a receiver.   *)
THEOREM BootTypeOKHolds ==
  ASSUME MainText + 72 + 15 * 45 < TextSize
  PROVE  BootSpec => []BootTypeOK
<1>1. BInv => BootTypeOK
  <2> SUFFICES ASSUME BInv PROVE BootTypeOK
    OBVIOUS
  <2>1. IInv /\ Attempt /\ OwnTypes /\ LedTypes /\ AtStep /\ TextFits
    BY DEF BInv
  <2>2. TypeOK
    <3>1. world \in Worlds /\ build \in Builds /\ result \in BOOLEAN \cup {NULL}
      BY <2>1 DEF IInv, Quiet, Attempt
    <3>2. attempt \in 0..(Attempts - 1)
      BY <2>1, RateFacts DEF IInv, LinkType, Attempt
    <3>3. try \in 0..Tries
      <4>1. try \in Nat /\ Len(rxq) \in Nat
        BY <2>1, LenProperties DEF IInv, LinkType
      <4>2. try <= Tries
        BY <2>1 DEF IInv, Budget
      <4> QED  BY <4>1, <4>2, Consts
    <3>4. gps.msgs \subseteq {NavMsgs[i] : i \in DOMAIN NavMsgs}
      <4>1. {NavMsgs[i] : i \in DOMAIN NavMsgs} = NavSet
        BY DEF NavMsgs, NavSet
      <4> QED  BY <2>1, <4>1 DEF IInv, LinkType
    <3> QED  BY <2>1, <3>1, <3>2, <3>3, <3>4 DEF IInv, LinkType, Places, TypeOK
  <2>3. step \in 1..(Len(app_main) + 1)
    BY <2>1, Path DEF AtStep
  <2>4. text \in 0..(TextSize - 1)
    <3>1. 72 + 15 * 45 = 747
      OBVIOUS
    <3>2. text \in Nat /\ text <= MainText + 747
      BY <2>1 DEF TextFits
    <3>3. MainText + 747 < TextSize
      BY <3>1, BootConsts
    <3> QED  BY <3>2, <3>3, BootConsts
  <2>5. info \in Nat \cup {NULL}
    BY <2>1 DEF BInv, InfoWhole, TextFits
  <2> QED  BY <2>1, <2>2, <2>3, <2>4, <2>5 DEF OwnTypes, LedTypes, UsbRecords, BootTypeOK
<1> QED  BY <1>1, BootInvariance, PTL

(* In all boots too the UBX read task is started only over a receiver that   *)
(* speaks UBX at the UART's baud rate (gps.c:117, gps_ubx.c:466).            *)
THEOREM BootHearsUbx == BootSpec => []UbxTaskHearsUbx
<1>1. BInv => UbxTaskHearsUbx
  BY DEF BInv, IInv, Heard, UbxTaskHearsUbx
<1> QED  BY <1>1, BootInvariance, PTL

(* A receiver that knows UBX and loses nothing ends configured in every boot, *)
(* also when a panic meets it half configured (gps_ubx_init).                *)
THEOREM BootConfigures == BootSpec => []Configured
<1>1. BInv => Configured
  BY FoundIsConfigured DEF BInv
<1> QED  BY <1>1, BootInvariance, PTL

(* The first records in the queue are version and info, unless somebody      *)
(* pressed the button while it booted, and an info record has the whole text *)
(* (main.c:145, sdcard.c:389).                                               *)
THEOREM PreambleFirstHolds == BootSpec => []PreambleFirst
<1>1. BInv => PreambleFirst
  <2> SUFFICES ASSUME BInv PROVE PreambleFirst
    OBVIOUS
  <2>1. ~early => usb = <<>> \/ usb = <<"version">> \/ usb = <<"version", "info">>
    BY DEF BInv, OwnTypes, UsbFirst
  <2>2. ~early => \A i \in DOMAIN usb : usb[i] = <<"version", "info">>[i]
    <3>1. CASE usb = <<>>
      BY <3>1
    <3>2. CASE usb = <<"version">>
      BY <3>2
    <3>3. CASE usb = <<"version", "info">>
      BY <3>3
    <3> QED  BY <2>1, <3>1, <3>2, <3>3
  <2> QED  BY <2>2 DEF BInv, InfoWhole, PreambleFirst
<1> QED  BY <1>1, BootInvariance, PTL

(* Nothing is used before app_main has made it, unless somebody presses the  *)
(* button while it boots (main.c:331 to 378).                                *)
THEOREM NoNullUseHolds == BootSpec => NoNullUse
<1>1. BInv /\ [BootNext]_bootVars => [step > 1 /\ step' = 1 => early]_bootVars
  <2> SUFFICES ASSUME BInv, BootNext PROVE step > 1 /\ step' = 1 => early
    OBVIOUS
  <2>1. step \in 1..16 /\ Reached
    BY HasWhen DEF BInv, AtStep
  <2>2. CASE Main
    <3>1. CASE WriteInfo
      <4>1. At("info") /\ step \in 1..16
        BY <2>1, <3>1 DEF WriteInfo
      <4>2. step = 1
        BY <4>1, AtPlace
      <4> QED  BY <4>2
    <3>2. CASE Make
      <4>1. step \in 1..15 /\ GoOn
        BY <2>1, <3>2, AtPlace DEF Make
      <4>2. step' > step
        BY <4>1, GoesOn
      <4> QED  BY <2>1, <4>2
    <3> QED  BY <2>2, <3>1, <3>2 DEF Main
  <2>3. ASSUME NEW r, log_data(r), Booted PROVE step' = step
    <3>1. Has("usb_queue") /\ ("LED" \in options => Has("led_flash_task"))
      BY <2>1, <2>3 DEF Reached
    <3> QED  BY <2>3, <3>1 DEF log_data
  <2>4. CASE gps_log_data
    <3>1. CASE Booted
      BY <2>3, <2>4, <3>1 DEF gps_log_data
    <3>2. CASE ~Booted
      BY <2>4, <3>2 DEF gps_log_data, BInv, NobodyAhead
    <3> QED  BY <3>1, <3>2
  <2>5. CASE its_log_data
    <3>1. Booted
      BY <2>1, <2>5 DEF its_log_data, Reached
    <3> QED  BY <2>3, <2>5, <3>1 DEF its_log_data
  <2>6. CASE sdcard_control_task
    <3>1. CASE cpc = "lock" /\ ~Has("logFileMutex") /\ Panic
      <4>1. Has("button_isr") /\ (Booted \/ early)
        BY <3>1 DEF BInv, NobodyAhead
      <4>2. ~Booted
        BY <2>1, <3>1, <4>1 DEF Reached
      <4> QED  BY <4>1, <4>2
    <3>2. step' = step \/ (cpc = "lock" /\ ~Has("logFileMutex") /\ Panic)
      BY <2>6 DEF sdcard_control_task, mainVars
    <3> QED  BY <3>1, <3>2
  <2>7. CASE InitGps \/ usb_transmitter_task \/ button_isr_handler \/ led_flash \/ led_off_timer_cb
    <3>1. step' = step
      BY <2>7 DEF InitGps, usb_transmitter_task, button_isr_handler, led_flash, led_off_timer_cb,
                  mainVars
    <3> QED  BY <3>1
  <2> QED  BY <2>2, <2>4, <2>5, <2>6, <2>7 DEF BootNext
<1> QED  BY <1>1, BootInvariance, PTL DEF BootSpec, NoNullUse
=============================================================================

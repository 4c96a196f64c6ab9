-------------------------- MODULE OtmClientProofs --------------------------
(***************************************************************************)
(* What the MQTT client promises for queues of every size, any number of   *)
(* packets and of connections: in a calm network packets are published     *)
(* once and in the order of capture, nothing after the end of the writer,  *)
(* and a program that ended is "offline" at the broker.                    *)
(***************************************************************************)
EXTENDS OtmClient, SequenceTheorems, TLAPS

-----------------------------------------------------------------------------
(* Types. *)

MainType ==
  /\ calm \in BOOLEAN /\ {shutdown, shutdownWriter, up} \subseteq BOOLEAN
  /\ main \in {"start", "stop_reader", "stop_parser", "stop_writer", "offline", "disconnect",
               "loop_stop", "done"}
  /\ {reader, parser} \subseteq {"off", "run", "done"}
  /\ net \in {"off", "idle", "online", "detach", "reset", "spawn", "flag", "mark"}
  /\ status \in {"none", "online", "offline"}
QueueType ==
  /\ captured \in 0..MaxPackets
  /\ queueIts \in Seq(0..MaxPackets) /\ Len(queueIts) <= Size + 1
  /\ published \in Seq(0..MaxPackets)
WritersType ==
  /\ writers \in Seq([at : Places, data : 0..MaxPackets])
  /\ thread \in DOMAIN writers \cup {NULL}
TypeInv == MainType /\ calm \in Weather /\ QueueType /\ WritersType

(* TypeOK in three parts. *)
LEMMA TypeOKIsTypeInv == TypeOK <=> TypeInv
  BY OtmAssumption DEF TypeOK, TypeInv, MainType, QueueType, WritersType

(* Queue::push: the new element is the last; one at the head may be gone.   *)
LEMMA PushKeeps ==
  ASSUME QueueType, NEW x \in 0..MaxPackets, Push(x)
  PROVE  /\ queueIts' \in Seq(0..MaxPackets) /\ Len(queueIts') <= Size + 1
         /\ \E d \in {0, 1} :
              /\ Len(queueIts') + d = Len(queueIts) + 1
              /\ queueIts'[Len(queueIts')] = x
              /\ \A i \in 1..(Len(queueIts') - 1) :
                   i + d \in DOMAIN queueIts /\ queueIts'[i] = queueIts[i + d]
<1> DEFINE q == IF Len(queueIts) > Size THEN Tail(queueIts) ELSE queueIts
           d == IF Len(queueIts) > Size THEN 1 ELSE 0
<1>1. Size \in Nat /\ queueIts \in Seq(0..MaxPackets) /\ Len(queueIts) <= Size + 1
  BY OtmAssumption DEF QueueType
<1>2. DOMAIN queueIts = 1..Len(queueIts) /\ Len(queueIts) \in Nat
  BY <1>1, LenProperties
<1>3. /\ q \in Seq(0..MaxPackets) /\ Len(q) + d = Len(queueIts) /\ Len(q) <= Size
      /\ \A i \in 1..Len(q) : i + d \in DOMAIN queueIts /\ q[i] = queueIts[i + d]
  <2>1. CASE Len(queueIts) > Size
    <3>1. queueIts # <<>>
      BY <2>1, <1>1, EmptySeq
    <3>2. /\ Tail(queueIts) \in Seq(0..MaxPackets) /\ Len(Tail(queueIts)) = Len(queueIts) - 1
          /\ \A i \in 1..Len(Tail(queueIts)) : Tail(queueIts)[i] = queueIts[i + 1]
      BY <3>1, <1>1, HeadTailProperties
    <3> QED  BY <2>1, <3>2, <1>1, <1>2
  <2>2. CASE ~(Len(queueIts) > Size)
    BY <2>2, <1>1, <1>2
  <2> QED  BY <2>1, <2>2
<1>4. queueIts' = Append(q, x)
  BY DEF Push
<1>5. d \in {0, 1} /\ Len(q) \in Nat
  BY <1>3, LenProperties
<1> HIDE DEF q, d
<1>6. /\ queueIts' \in Seq(0..MaxPackets) /\ Len(queueIts') = Len(q) + 1
      /\ queueIts'[Len(q) + 1] = x
      /\ \A i \in 1..Len(q) : queueIts'[i] = q[i]
  BY <1>3, <1>4, AppendProperties
<1>7. /\ Len(queueIts') + d = Len(queueIts) + 1 /\ queueIts'[Len(queueIts')] = x
      /\ \A i \in 1..(Len(queueIts') - 1) :
           i + d \in DOMAIN queueIts /\ queueIts'[i] = queueIts[i + d]
  BY <1>2, <1>3, <1>5, <1>6
<1>8. Len(queueIts') <= Size + 1
  BY <1>1, <1>3, <1>5, <1>6
<1>9. \E e \in {0, 1} :
         /\ Len(queueIts') + e = Len(queueIts) + 1
         /\ queueIts'[Len(queueIts')] = x
         /\ \A i \in 1..(Len(queueIts') - 1) :
              i + e \in DOMAIN queueIts /\ queueIts'[i] = queueIts[i + e]
  BY <1>5, <1>7
<1> QED  BY <1>6, <1>8, <1>9

(* Queue::pop takes the head. *)
LEMMA PopKeeps ==
  ASSUME QueueType, queueIts # <<>>
  PROVE  /\ Head(queueIts) \in 0..MaxPackets /\ Head(queueIts) = queueIts[1]
         /\ 1 \in DOMAIN queueIts
         /\ Tail(queueIts) \in Seq(0..MaxPackets) /\ Len(Tail(queueIts)) = Len(queueIts) - 1
         /\ \A i \in DOMAIN Tail(queueIts) :
              i + 1 \in DOMAIN queueIts /\ Tail(queueIts)[i] = queueIts[i + 1]
<1>1. queueIts \in Seq(0..MaxPackets) /\ DOMAIN queueIts = 1..Len(queueIts)
      /\ Len(queueIts) \in Nat \ {0}
  BY LenProperties, EmptySeq DEF QueueType
<1>0. Head(queueIts) = queueIts[1]
  BY <1>1
<1>2. /\ Head(queueIts) \in 0..MaxPackets
      /\ Tail(queueIts) \in Seq(0..MaxPackets) /\ Len(Tail(queueIts)) = Len(queueIts) - 1
      /\ \A i \in 1..Len(Tail(queueIts)) : Tail(queueIts)[i] = queueIts[i + 1]
  BY <1>1, HeadTailProperties
<1>3. DOMAIN Tail(queueIts) = 1..Len(Tail(queueIts))
  BY <1>2, LenProperties
<1> QED  BY <1>0, <1>1, <1>2, <1>3

(* A writer thread moves, the others stay. *)
LEMMA MoveKeeps ==
  ASSUME WritersType, NEW w \in DOMAIN writers, NEW p \in Places, NEW d \in 0..MaxPackets,
         writers' = [writers EXCEPT ![w] = [at |-> p, data |-> d]]
  PROVE  /\ writers' \in Seq([at : Places, data : 0..MaxPackets])
         /\ DOMAIN writers' = DOMAIN writers
         /\ writers'[w] = [at |-> p, data |-> d]
         /\ \A v \in DOMAIN writers : v # w => writers'[v] = writers[v]
<1>1. /\ writers \in Seq([at : Places, data : 0..MaxPackets])
      /\ DOMAIN writers = 1..Len(writers)
  BY LenProperties DEF WritersType
<1>2. [at |-> p, data |-> d] \in [at : Places, data : 0..MaxPackets]
  OBVIOUS
<1> HIDE DEF Places
<1> QED  BY <1>1, <1>2, ExceptSeq

(* So does one that only goes to another place. *)
LEMMA GoMoves ==
  ASSUME WritersType, NEW w \in DOMAIN writers, NEW p \in Places, Go(w, p)
  PROVE  /\ writers[w].data \in 0..MaxPackets
         /\ writers' = [writers EXCEPT ![w] = [at |-> p, data |-> writers[w].data]]
<1>1. writers[w] \in [at : Places, data : 0..MaxPackets]
  BY LenProperties, ElementOfSeq DEF WritersType
<1>2. [writers[w] EXCEPT !.at = p] = [at |-> p, data |-> writers[w].data]
  BY <1>1
<1> QED  BY <1>1, <1>2 DEF Go

(* A new writer is the last. *)
LEMMA SpawnAdds ==
  ASSUME WritersType, Spawn
  PROVE  /\ writers' \in Seq([at : Places, data : 0..MaxPackets])
         /\ thread' = Len(writers) + 1
         /\ DOMAIN writers' = DOMAIN writers \cup {thread'}
         /\ thread' \notin DOMAIN writers
         /\ writers'[thread'] = [at |-> "clear", data |-> EMPTY]
         /\ \A v \in DOMAIN writers : writers'[v] = writers[v]
<1> DEFINE new == [at |-> "clear", data |-> EMPTY]
<1>1. /\ writers \in Seq([at : Places, data : 0..MaxPackets])
      /\ DOMAIN writers = 1..Len(writers) /\ Len(writers) \in Nat
  BY LenProperties DEF WritersType
<1>2. new \in [at : Places, data : 0..MaxPackets]
  BY OtmAssumption DEF Places, EMPTY
<1>3. writers' = Append(writers, new) /\ thread' = Len(writers')
  BY DEF Spawn
<1> HIDE DEF new, Places
<1>4. /\ writers' \in Seq([at : Places, data : 0..MaxPackets])
      /\ Len(writers') = Len(writers) + 1 /\ writers'[Len(writers) + 1] = new
      /\ \A i \in 1..Len(writers) : writers'[i] = writers[i]
  BY <1>1, <1>2, <1>3, AppendProperties
<1>5. DOMAIN writers' = 1..(Len(writers) + 1)
  BY <1>4, LenProperties
<1> QED  BY <1>1, <1>3, <1>4, <1>5 DEF new

(* The program starts well typed. *)
LEMMA InitType == Init => TypeInv
<1> SUFFICES ASSUME Init PROVE TypeInv
  OBVIOUS
<1>1. MainType /\ calm \in Weather
  BY OtmAssumption DEF Init, MainType
<1>2. QueueType
  BY OtmAssumption, EmptySeq DEF Init, QueueType
<1>3. WritersType
  BY EmptySeq DEF Init, WritersType
<1> QED  BY <1>1, <1>2, <1>3 DEF TypeInv

(* main and the signal handler leave queue and writer threads alone. *)
MainLike == ReaderEnd \/ ParserEnd \/ Main \/ signal_handler

(* Nor do they disturb the types. *)
LEMMA MainTypes ==
  ASSUME TypeInv, MainLike
  PROVE  TypeInv'
<1>1. UNCHANGED <<calm, captured, queueIts, published, writers>>
      /\ (UNCHANGED thread \/ thread' = NULL)
  BY DEF MainLike, ReaderEnd, ParserEnd, Main, signal_handler, Start, StopReader, StopParser,
         StopWriter, Offline, Disconnect, LoopStop, queueVars, netVars
<1>2. QueueType' /\ WritersType' /\ calm' \in Weather
  BY <1>1 DEF TypeInv, QueueType, WritersType
<1>3. MainType'
  BY <1>1 DEF TypeInv, MainType, MainLike, ReaderEnd, ParserEnd, Main, signal_handler, Start,
              StopReader, StopParser, StopWriter, Offline, Disconnect, LoopStop, queueVars, netVars
<1> QED  BY <1>2, <1>3 DEF TypeInv

(* The parser hands on one packet more. *)
LEMMA CaptureTypes ==
  ASSUME TypeInv, Capture
  PROVE  TypeInv'
<1>1. captured' = captured + 1 /\ captured' \in 0..MaxPackets /\ Push(captured')
      /\ UNCHANGED <<calm, shutdown, main, reader, parser, writers, thread, published>>
      /\ UNCHANGED <<net, up, status, shutdownWriter>>
  BY OtmAssumption DEF TypeInv, QueueType, Capture, netVars
<1>2. queueIts' \in Seq(0..MaxPackets) /\ Len(queueIts') <= Size + 1
  BY <1>1, PushKeeps DEF TypeInv
<1>3. QueueType'
  BY <1>1, <1>2 DEF TypeInv, QueueType
<1> QED  BY <1>1, <1>3 DEF TypeInv, MainType, WritersType

(* Callbacks change writers and queue as spawn and push do. *)
LEMMA NetworkTypes ==
  ASSUME TypeInv, Network
  PROVE  TypeInv'
<1>1. UNCHANGED <<calm, shutdown, main, reader, parser, captured, published>>
  BY DEF Network
<1>2. MainType' /\ calm' \in Weather
  BY <1>1 DEF TypeInv, MainType, Network, Callback, Connect, Online, Detach, Reset, Spawn, Drop,
              Flag, Mark
<1>3. QueueType'
  <2>1. CASE Mark
    <3>1. EMPTY \in 0..MaxPackets /\ Push(EMPTY)
      BY <2>1, OtmAssumption DEF Mark, EMPTY
    <3> QED  BY <3>1, <1>1, PushKeeps DEF TypeInv, QueueType
  <2>2. CASE ~Mark
    <3>1. UNCHANGED queueIts
      BY <2>2 DEF Network, Callback, Connect, Online, Detach, Reset, Spawn, Drop, Flag
    <3> QED  BY <3>1, <1>1 DEF TypeInv, QueueType
  <2> QED  BY <2>1, <2>2
<1>4. WritersType'
  <2>1. CASE Spawn
    BY <2>1, SpawnAdds DEF TypeInv, WritersType
  <2>2. CASE ~Spawn
    <3>1. UNCHANGED writers /\ (UNCHANGED thread \/ thread' = NULL)
      BY <2>2 DEF Network, Callback, Connect, Online, Detach, Reset, Drop, Flag, Mark
    <3> QED  BY <3>1 DEF TypeInv, WritersType
  <2> QED  BY <2>1, <2>2
<1> QED  BY <1>2, <1>3, <1>4 DEF TypeInv

(* A step of a writer thread, in the terms of MoveKeeps. *)
Step(w, p, d) ==
  /\ p \in Places /\ d \in 0..MaxPackets
  /\ writers' = [writers EXCEPT ![w] = [at |-> p, data |-> d]]

(* Whatever a writer thread does, it moves and takes at most the head. *)
LEMMA WriterMoves ==
  ASSUME TypeInv, NEW w \in DOMAIN writers, writer_thread(w)
  PROVE  /\ \E p \in Places, d \in 0..MaxPackets : Step(w, p, d)
         /\ queueIts' \in {queueIts, <<>>} \/ (queueIts # <<>> /\ queueIts' = Tail(queueIts))
         /\ published' \in {published, Append(published, writers[w].data)}
<1>1. CASE Pop(w) /\ queueIts # <<>> /\ queueIts' = Tail(queueIts)
           /\ writers' = [writers EXCEPT ![w] = [at |-> "check", data |-> Head(queueIts)]]
  BY <1>1, PopKeeps DEF TypeInv, Pop, Step, Places
<1>2. CASE Pop(w) /\ PopEmpty /\ Go(w, "top") /\ UNCHANGED queueIts
  BY <1>2, GoMoves DEF TypeInv, Pop, Step, Places
<1>3. CASE Clear(w)
  BY <1>3, GoMoves DEF TypeInv, Clear, Step, Places
<1>4. CASE Top(w)
  BY <1>4, GoMoves DEF TypeInv, Top, Step, Places
<1>5. CASE Check(w)
  BY <1>5, GoMoves DEF TypeInv, Check, Step, Places
<1>6. CASE Publish(w)
  BY <1>6, GoMoves DEF TypeInv, Publish, Step, Places
<1> QED  BY <1>1, <1>2, <1>3, <1>4, <1>5, <1>6 DEF writer_thread, Pop

(* So its step keeps the types. *)
LEMMA WriterTypes ==
  ASSUME TypeInv, NEW w \in DOMAIN writers, writer_thread(w)
  PROVE  TypeInv'
<1>1. UNCHANGED <<calm, shutdown, main, reader, parser, captured, thread>>
      /\ UNCHANGED <<net, up, status, shutdownWriter>>
  BY DEF writer_thread, netVars
<1>2. MainType' /\ calm' \in Weather
  BY <1>1 DEF TypeInv, MainType
<1>3. PICK p \in Places, d \in 0..MaxPackets : Step(w, p, d)
  BY WriterMoves
<1>4. WritersType'
  BY <1>1, <1>3, MoveKeeps DEF TypeInv, WritersType, Step
<1>5. queueIts' \in Seq(0..MaxPackets) /\ Len(queueIts') <= Size + 1
  <2>1. CASE queueIts' = queueIts
    BY <2>1 DEF TypeInv, QueueType
  <2>2. CASE queueIts' = <<>>
    BY <2>2, EmptySeq, OtmAssumption DEF TypeInv, QueueType
  <2>3. CASE queueIts # <<>> /\ queueIts' = Tail(queueIts)
    BY <2>3, PopKeeps, LenProperties, OtmAssumption DEF TypeInv, QueueType
  <2> QED  BY <2>1, <2>2, <2>3, WriterMoves
<1>6. published' \in Seq(0..MaxPackets)
  <2>1. writers[w].data \in 0..MaxPackets
    <3>1. writers[w] \in [at : Places, data : 0..MaxPackets]
      BY LenProperties, ElementOfSeq DEF TypeInv, WritersType
    <3> QED  BY <3>1
  <2>2. Append(published, writers[w].data) \in Seq(0..MaxPackets)
    BY <2>1, AppendProperties DEF TypeInv, QueueType
  <2>3. published' \in {published, Append(published, writers[w].data)}
    BY WriterMoves
  <2> QED  BY <2>2, <2>3 DEF TypeInv, QueueType
<1> QED  BY <1>1, <1>2, <1>4, <1>5, <1>6 DEF TypeInv, QueueType

(* So does a step of nobody. *)
LEMMA StutterType ==
  ASSUME TypeInv, UNCHANGED vars
  PROVE  TypeInv'
  BY DEF TypeInv, MainType, QueueType, WritersType, vars, queueVars, netVars

(* Every step keeps the types. *)
LEMMA NextType ==
  ASSUME TypeInv, [Next]_vars
  PROVE  TypeInv'
  BY MainTypes, CaptureTypes, NetworkTypes, WriterTypes, StutterType DEF Next, MainLike

-----------------------------------------------------------------------------
(* main, status and the writer of the present connection. *)

(* main and parser end in this order. *)
LEMMA StoppingStep ==
  ASSUME TypeInv, Stopping, [Next]_vars
  PROVE  Stopping'
<1>1. CASE MainLike
  BY <1>1 DEF TypeInv, MainType, Stopping, MainLike, ReaderEnd, ParserEnd, Main, signal_handler,
              Start, StopReader, StopParser, StopWriter, Offline, Disconnect, LoopStop
<1>2. CASE ~MainLike
  <2>1. UNCHANGED <<main, parser, shutdown>>
    BY <1>2 DEF Next, MainLike, Capture, Network, writer_thread, vars
  <2> QED  BY <2>1 DEF Stopping
<1> QED  BY <1>1, <1>2

(* "online" follows the connection. *)
LEMMA StatusStep ==
  ASSUME TypeInv, Stopping, OneWriter, StatusFollows, [Next]_vars
  PROVE  StatusFollows'
<1>1. CASE Network
  <2>1. calm /\ main \in {"disconnect", "loop_stop", "done"} =>
          /\ shutdown /\ net \notin {"online", "detach", "reset", "spawn"}
    BY DEF Stopping, OneWriter, Stopped
  <2>2. UNCHANGED <<calm, main>>
    BY <1>1 DEF Network
  <2> QED  BY <1>1, <2>1, <2>2
           DEF TypeInv, MainType, StatusFollows, Network, Callback, Connect, Online, Detach,
               Linked, Reset, Spawn, Drop, Flag, Mark
<1>2. CASE Main
  BY <1>2 DEF TypeInv, MainType, StatusFollows, Main, Start, StopReader, StopParser, StopWriter,
              Offline, Disconnect, LoopStop, netVars
<1>3. CASE ~Network /\ ~Main
  <2>1. UNCHANGED <<calm, main, status, up>>
    BY <1>3 DEF Next, ReaderEnd, Capture, ParserEnd, writer_thread, signal_handler, vars, netVars
  <2> QED  BY <2>1 DEF StatusFollows
<1> QED  BY <1>1, <1>2, <1>3

(* One step of one writer thread: what it does to its place and data, to    *)
(* the queue and to what is published.                                      *)
Cleared(w) ==
  /\ writers[w].at = "clear" /\ writers'[w].at = "top"
  /\ queueIts' = <<>> /\ UNCHANGED published
Idled(w) ==
  /\ writers[w].at # "clear" /\ writers'[w].at \in {"top", "pop", "done"}
  /\ UNCHANGED <<queueIts, published>>
Popped(w) ==
  /\ writers[w].at = "pop" /\ writers'[w] = [at |-> "check", data |-> Head(queueIts)]
  /\ queueIts # <<>> /\ queueIts' = Tail(queueIts) /\ UNCHANGED published
Checked(w) ==
  /\ writers[w].at = "check" /\ ~shutdownWriter
  /\ writers'[w] = [at |-> "publish", data |-> writers[w].data]
  /\ UNCHANGED <<queueIts, published>>
Published(w) ==
  /\ writers[w].at = "publish" /\ writers'[w].at = "top" /\ UNCHANGED queueIts
  /\ published' \in {published, Append(published, writers[w].data)}
(* These are all steps of a writer thread; the others stay. *)
LEMMA WriterStep ==
  ASSUME TypeInv, NEW w \in DOMAIN writers, writer_thread(w)
  PROVE  /\ DOMAIN writers' = DOMAIN writers /\ Running(w)
         /\ \A v \in DOMAIN writers : v # w => writers'[v] = writers[v]
         /\ Cleared(w) \/ Idled(w) \/ Popped(w) \/ Checked(w) \/ Published(w)
<1> USE DEF TypeInv
<1>1. ASSUME NEW p \in Places, Go(w, p)
      PROVE  /\ DOMAIN writers' = DOMAIN writers
             /\ writers'[w] = [at |-> p, data |-> writers[w].data]
             /\ \A v \in DOMAIN writers : v # w => writers'[v] = writers[v]
  BY <1>1, GoMoves, MoveKeeps
<1>2. CASE Clear(w)
  BY <1>2, <1>1 DEF Clear, Cleared, Running, Places
<1>3. CASE Top(w)
  BY <1>3, <1>1 DEF Top, Idled, Running, Places
<1>4. CASE Pop(w) /\ PopEmpty /\ Go(w, "top") /\ UNCHANGED queueIts
  BY <1>4, <1>1 DEF Pop, Idled, Running, Places
<1>5. CASE Pop(w) /\ queueIts # <<>> /\ queueIts' = Tail(queueIts)
           /\ writers' = [writers EXCEPT ![w] = [at |-> "check", data |-> Head(queueIts)]]
  <2>1. "check" \in Places /\ Head(queueIts) \in 0..MaxPackets
    BY <1>5, PopKeeps DEF Places
  <2>2. /\ DOMAIN writers' = DOMAIN writers
        /\ writers'[w] = [at |-> "check", data |-> Head(queueIts)]
        /\ \A v \in DOMAIN writers : v # w => writers'[v] = writers[v]
    BY <1>5, <2>1, MoveKeeps
  <2> QED  BY <1>5, <2>2 DEF Pop, Popped, Running
<1>6. CASE Check(w)
  BY <1>6, <1>1 DEF Check, Checked, Idled, Running, Places
<1>7. CASE Publish(w)
  BY <1>7, <1>1 DEF Publish, Published, Running, Places
<1> QED  BY <1>2, <1>3, <1>4, <1>5, <1>6, <1>7 DEF writer_thread, Pop

(* One writer at a time, in a calm network. *)
LEMMA OneWriterStep ==
  ASSUME TypeInv, Stopping, OneWriter, [Next]_vars
  PROVE  OneWriter'
<1> SUFFICES ASSUME calm' PROVE OneWriter'
  BY DEF OneWriter
<1>1. calm
  BY DEF Next, ReaderEnd, Capture, ParserEnd, Network, writer_thread, Main, signal_handler, vars
<1>2. /\ \A w \in DOMAIN writers : Running(w) => thread = w
      /\ net \in {"online", "detach", "reset", "spawn"} =>
           ~Stopped /\ \A w \in DOMAIN writers : ~Running(w)
      /\ Stopped => shutdown /\ \A w \in DOMAIN writers : ~Running(w)
  BY <1>1 DEF OneWriter, Stopping, Stopped
<1>3. CASE Network
  <2>1. UNCHANGED main
    BY <1>3 DEF Network
  <2>2. CASE Spawn
    <3>1. /\ DOMAIN writers' = DOMAIN writers \cup {thread'}
          /\ \A v \in DOMAIN writers : writers'[v] = writers[v]
      BY <2>2, SpawnAdds DEF TypeInv
    <3>2. net = "spawn" /\ net' = "idle"
      BY <2>2 DEF Spawn
    <3> QED  BY <1>2, <2>1, <3>1, <3>2 DEF OneWriter, Stopped, Running
  <2>3. CASE ~Spawn
    <3>1. UNCHANGED writers
      BY <1>3, <2>3 DEF Network, Callback, Connect, Online, Detach, Reset, Drop, Flag, Mark
    <3>2. UNCHANGED thread \/ \A w \in DOMAIN writers : ~Running(w)
      BY <1>2, <1>3, <2>3 DEF Network, Callback, Connect, Online, Detach, Reset, Drop, Flag, Mark
    <3>3. net' \in {"online", "detach", "reset", "spawn"} =>
            ~Stopped /\ \A w \in DOMAIN writers : ~Running(w)
      BY <1>1, <1>2, <1>3, <2>3
         DEF Network, Callback, Connect, Online, Detach, Reset, Drop, Flag, Mark
    <3> QED  BY <1>2, <2>1, <3>1, <3>2, <3>3 DEF OneWriter, Stopped, Running
  <2> QED  BY <2>2, <2>3
<1>4. CASE MainLike
  <2>1. UNCHANGED writers
    BY <1>4 DEF MainLike, ReaderEnd, ParserEnd, Main, signal_handler, Start, StopReader,
                StopParser, StopWriter, Offline, Disconnect, LoopStop
  <2>2. UNCHANGED thread \/ \A w \in DOMAIN writers : ~Running(w)
    <3>1. CASE StopWriter
      <4>1. \A w \in DOMAIN writers : w # NULL
        BY OtmAssumption, LenProperties DEF TypeInv, WritersType
      <4> QED  BY <3>1, <4>1, <1>2 DEF StopWriter
    <3>2. CASE ~StopWriter
      BY <1>4, <3>2 DEF MainLike, ReaderEnd, ParserEnd, Main, signal_handler, Start, StopReader,
                        StopParser, Offline, Disconnect, LoopStop, netVars
    <3> QED  BY <3>1, <3>2
  <2>3. Stopped' => Stopped \/ StopWriter
    BY <1>4 DEF MainLike, ReaderEnd, ParserEnd, Main, signal_handler, Start, StopReader,
                StopParser, Offline, Disconnect, LoopStop, Stopped
  <2>4. StopWriter => /\ \A w \in DOMAIN writers : ~Running(w)
                      /\ net \notin {"online", "detach", "reset", "spawn"} /\ UNCHANGED net
    <3>1. \A w \in DOMAIN writers : w # NULL
      BY OtmAssumption, LenProperties DEF TypeInv, WritersType
    <3> QED  BY <3>1, <1>1, <1>2 DEF StopWriter, netVars
  <2>5. UNCHANGED net \/ net' \in {"idle", "flag", "off"}
    BY <1>4 DEF MainLike, ReaderEnd, ParserEnd, Main, signal_handler, Start, StopReader,
                StopParser, StopWriter, Offline, Disconnect, LoopStop, netVars
  <2> QED  BY <1>2, <2>1, <2>2, <2>3, <2>4, <2>5 DEF OneWriter, Stopped, Running
<1>5. ASSUME NEW w \in DOMAIN writers, writer_thread(w) PROVE OneWriter'
  <2>1. /\ DOMAIN writers' = DOMAIN writers /\ Running(w)
        /\ \A v \in DOMAIN writers : v # w => writers'[v] = writers[v]
    BY <1>5, WriterStep
  <2>2. UNCHANGED <<main, net, thread>>
    BY <1>5 DEF writer_thread, netVars
  <2> QED  BY <1>2, <2>1, <2>2 DEF OneWriter, Stopped, Running
<1>6. CASE UNCHANGED vars \/ Capture
  <2>1. UNCHANGED <<main, net, thread, writers>>
    BY <1>6 DEF vars, netVars, Capture
  <2> QED  BY <1>2, <2>1 DEF OneWriter, Stopped, Running
<1> QED  BY <1>3, <1>4, <1>5, <1>6 DEF Next, MainLike

-----------------------------------------------------------------------------
(* Packets and the marker. *)

(* Nobody but the parser, the callbacks and the writers touches the queue.  *)
LEMMA MainKeeps ==
  ASSUME MainLike \/ UNCHANGED vars
  PROVE  /\ UNCHANGED <<captured, queueIts, published, writers, shutdownWriter, calm>>
         /\ net' = "mark" => net = "mark"
<1>1. CASE MainLike
  BY <1>1 DEF MainLike, ReaderEnd, ParserEnd, Main, signal_handler, Start, StopReader, StopParser,
              StopWriter, Offline, Disconnect, LoopStop, queueVars, netVars
<1>2. CASE UNCHANGED vars
  BY <1>2 DEF vars, queueVars, netVars
<1> QED  BY <1>1, <1>2

(* The steps there are. *)
LEMMA NextCases ==
  ASSUME [Next]_vars
  PROVE  \/ MainLike \/ UNCHANGED vars \/ Capture \/ Network
         \/ \E w \in DOMAIN writers : writer_thread(w)
  BY DEF Next, MainLike

(* At most the element x comes into the queue. *)
LEMMA PushFrom ==
  ASSUME QueueType, NEW x \in 0..MaxPackets, Push(x)
  PROVE  \A i \in DOMAIN queueIts' :
           queueIts'[i] = x \/ \E j \in DOMAIN queueIts : queueIts'[i] = queueIts[j]
<1>1. DOMAIN queueIts' = 1..Len(queueIts') /\ Len(queueIts') \in Nat
  BY PushKeeps, LenProperties
<1>2. PICK d \in {0, 1} :
        /\ queueIts'[Len(queueIts')] = x
        /\ \A i \in 1..(Len(queueIts') - 1) :
             i + d \in DOMAIN queueIts /\ queueIts'[i] = queueIts[i + d]
  BY PushKeeps
<1> SUFFICES ASSUME NEW i \in DOMAIN queueIts'
             PROVE  queueIts'[i] = x \/ \E j \in DOMAIN queueIts : queueIts'[i] = queueIts[j]
  OBVIOUS
<1>3. CASE i = Len(queueIts')
  BY <1>2, <1>3
<1>4. CASE i # Len(queueIts')
  <2>1. i \in 1..(Len(queueIts') - 1)
    BY <1>1, <1>4
  <2> QED  BY <1>2, <2>1
<1> QED  BY <1>3, <1>4

(* The marker comes after the flag. *)
LEMMA MarkerStep ==
  ASSUME TypeInv, OneWriter, MarkerSeen, [Next]_vars
  PROVE  MarkerSeen'
<1>1. CASE MainLike \/ UNCHANGED vars
  BY <1>1, MainKeeps DEF MarkerSeen, Running
<1>2. CASE Capture
  <2>1. captured' \in 0..MaxPackets /\ captured' # EMPTY /\ Push(captured')
    BY <1>2, OtmAssumption DEF Capture, TypeInv, QueueType, EMPTY
  <2>2. \A i \in DOMAIN queueIts' :
          queueIts'[i] # EMPTY \/ \E j \in DOMAIN queueIts : queueIts'[i] = queueIts[j]
    BY <2>1, PushFrom DEF TypeInv
  <2>3. UNCHANGED <<calm, net, shutdownWriter, writers>>
    BY <1>2 DEF Capture, netVars
  <2> QED  BY <2>2, <2>3 DEF MarkerSeen, Running
<1>3. CASE Network
  <2>1. UNCHANGED calm
    BY <1>3 DEF Network
  <2>2. CASE Spawn
    <3>1. /\ DOMAIN writers' = DOMAIN writers \cup {thread'}
          /\ writers'[thread'] = [at |-> "clear", data |-> EMPTY]
          /\ \A v \in DOMAIN writers : writers'[v] = writers[v]
      BY <2>2, SpawnAdds DEF TypeInv
    <3>2. UNCHANGED <<queueIts, shutdownWriter>> /\ net' = "idle"
      BY <2>2 DEF Spawn
    <3> QED  BY <2>1, <3>1, <3>2 DEF MarkerSeen, Running
  <2>3. CASE Mark
    <3>1. shutdownWriter' /\ net' = "idle" /\ UNCHANGED writers
      BY <2>3 DEF Mark, MarkerSeen
    <3> QED  BY <2>1, <3>1 DEF MarkerSeen, Running
  <2>4. CASE Reset
    <3>1. UNCHANGED writers /\ net = "reset" /\ net' = "spawn"
      BY <2>4 DEF Reset
    <3> QED  BY <2>1, <3>1 DEF MarkerSeen, OneWriter, Running
  <2>5. CASE Flag
    <3>1. shutdownWriter' /\ UNCHANGED writers
      BY <2>5 DEF Flag
    <3> QED  BY <2>1, <3>1 DEF MarkerSeen, Running
  <2>6. CASE Connect \/ Online \/ Detach \/ Drop
    <3>1. UNCHANGED <<writers, queueIts, shutdownWriter>> /\ net' # "mark"
      BY <2>6 DEF Connect, Online, Detach, Drop
    <3> QED  BY <2>1, <3>1 DEF MarkerSeen, Running
  <2> QED  BY <1>3, <2>2, <2>3, <2>4, <2>5, <2>6 DEF Network, Callback
<1>4. ASSUME NEW w \in DOMAIN writers, writer_thread(w) PROVE MarkerSeen'
  <2>1. UNCHANGED <<calm, net, shutdownWriter>>
    BY <1>4 DEF writer_thread, netVars
  <2>2. /\ DOMAIN writers' = DOMAIN writers /\ Running(w)
        /\ \A v \in DOMAIN writers : v # w => writers'[v] = writers[v]
    BY <1>4, WriterStep
  <2>3. calm => \A v \in DOMAIN writers : v # w => ~Running(v)
    BY <2>2 DEF OneWriter
  <2> SUFFICES ASSUME calm
               PROVE  /\ writers'[w].at = "publish" => writers'[w].data # EMPTY
                      /\ writers'[w].at \notin {"done", "clear"} /\ ~shutdownWriter =>
                           /\ \A i \in DOMAIN queueIts' : queueIts'[i] # EMPTY
                           /\ writers'[w].at = "check" => writers'[w].data # EMPTY
    BY <2>1, <2>2, <2>3 DEF MarkerSeen, Running
  <2>4. Running(w) /\ writers[w].at # "clear" /\ ~shutdownWriter =>
          /\ \A i \in DOMAIN queueIts : queueIts[i] # EMPTY
          /\ writers[w].at = "check" => writers[w].data # EMPTY
    BY DEF MarkerSeen
  <2>5. CASE Cleared(w)
    BY <2>5, EmptySeq DEF Cleared
  <2>6. CASE Idled(w)
    BY <2>2, <2>4, <2>6 DEF Idled, Running
  <2>7. CASE Popped(w)
    <3>1. /\ Head(queueIts) = queueIts[1] /\ 1 \in DOMAIN queueIts
          /\ \A i \in DOMAIN Tail(queueIts) :
               i + 1 \in DOMAIN queueIts /\ Tail(queueIts)[i] = queueIts[i + 1]
      BY <2>7, PopKeeps DEF Popped, TypeInv
    <3>2. writers'[w].at = "check" /\ writers'[w].data = Head(queueIts)
      BY <2>7 DEF Popped
    <3> QED  BY <2>2, <2>4, <2>7, <3>1, <3>2 DEF Popped
  <2>8. CASE Checked(w)
    <3>1. writers'[w].at = "publish" /\ writers'[w].data = writers[w].data
      BY <2>8 DEF Checked
    <3> QED  BY <2>2, <2>4, <2>8, <3>1 DEF Checked
  <2>9. CASE Published(w)
    BY <2>2, <2>4, <2>9 DEF Published, Running
  <2> QED  BY <1>4, <2>5, <2>6, <2>7, <2>8, <2>9, WriterStep
<1> QED  BY <1>1, <1>2, <1>3, <1>4, NextCases

(* What InOrder asks of the queue, of the queue and what is published, and  *)
(* of what a writer holds.                                                  *)
QueueInOrder ==
  /\ \A i \in DOMAIN queueIts : queueIts[i] <= captured
  /\ \A i, j \in DOMAIN queueIts :
       i < j /\ queueIts[j] # EMPTY => queueIts[i] < queueIts[j]
QueueBehind ==
  \A i \in DOMAIN published, j \in DOMAIN queueIts :
    queueIts[j] # EMPTY => published[i] < queueIts[j]
HandInOrder(w) ==
  writers[w].at \in {"check", "publish"} =>
    /\ writers[w].data <= captured
    /\ writers[w].data # EMPTY => \A i \in DOMAIN published : published[i] < writers[w].data
    /\ \A i \in DOMAIN queueIts : queueIts[i] # EMPTY => writers[w].data < queueIts[i]

(* InOrder in these parts. *)
LEMMA InOrderParts ==
  InOrder <=> QueueInOrder /\ (calm => QueueBehind /\ \A w \in DOMAIN writers : HandInOrder(w))
  BY DEF InOrder, QueueInOrder, QueueBehind, HandInOrder

(* The head of the queue is behind nothing, the rest behind the head.       *)
LEMMA PopInOrder ==
  ASSUME QueueType, QueueInOrder, queueIts # <<>>, queueIts' = Tail(queueIts), UNCHANGED captured
  PROVE  /\ QueueInOrder'
         /\ Head(queueIts) = queueIts[1] /\ 1 \in DOMAIN queueIts
         /\ \A i \in DOMAIN queueIts' :
              /\ \E j \in DOMAIN queueIts : queueIts'[i] = queueIts[j]
              /\ queueIts'[i] # EMPTY => Head(queueIts) < queueIts'[i]
<1>1. /\ Head(queueIts) = queueIts[1] /\ 1 \in DOMAIN queueIts
      /\ \A i \in DOMAIN queueIts' : i + 1 \in DOMAIN queueIts /\ queueIts'[i] = queueIts[i + 1]
  BY PopKeeps
<1>2. DOMAIN queueIts' \subseteq Nat \ {0}
  BY PopKeeps, LenProperties
<1>3. QueueInOrder'
  BY <1>1, <1>2 DEF QueueInOrder
<1>4. \A i \in DOMAIN queueIts' : queueIts'[i] # EMPTY => Head(queueIts) < queueIts'[i]
  BY <1>1, <1>2 DEF QueueInOrder
<1> QED  BY <1>1, <1>3, <1>4

(* A captured packet or the marker may be put behind all others.            *)
LEMMA PushInOrder ==
  ASSUME QueueType, QueueInOrder, NEW x \in 0..MaxPackets, Push(x),
         \/ x = EMPTY /\ UNCHANGED captured
         \/ x = captured + 1 /\ captured' = x
  PROVE  QueueInOrder'
<1>1. /\ DOMAIN queueIts = 1..Len(queueIts) /\ Len(queueIts) \in Nat
      /\ DOMAIN queueIts' = 1..Len(queueIts') /\ Len(queueIts') \in Nat
      /\ \A i \in DOMAIN queueIts : queueIts[i] \in Nat
      /\ captured \in Nat
  BY PushKeeps, LenProperties, ElementOfSeq, OtmAssumption DEF QueueType
<1>2. PICK d \in {0, 1} :
        /\ Len(queueIts') + d = Len(queueIts) + 1
        /\ queueIts'[Len(queueIts')] = x
        /\ \A i \in 1..(Len(queueIts') - 1) :
             i + d \in DOMAIN queueIts /\ queueIts'[i] = queueIts[i + d]
  BY PushKeeps
<1>3. \A i \in DOMAIN queueIts' : queueIts'[i] = x \/ queueIts'[i] <= captured
  BY PushFrom DEF QueueInOrder
<1>4. \A i \in DOMAIN queueIts' : queueIts'[i] <= captured'
  <2>1. x <= captured' /\ captured <= captured'
    BY <1>1 DEF EMPTY
  <2>2. \A i \in DOMAIN queueIts' : queueIts'[i] \in Nat
    BY <1>1, PushFrom
  <2> QED  BY <1>1, <1>3, <2>1, <2>2
<1>5. ASSUME NEW i \in DOMAIN queueIts', NEW j \in DOMAIN queueIts', i < j, queueIts'[j] # EMPTY
      PROVE  queueIts'[i] < queueIts'[j]
  <2>1. i \in 1..(Len(queueIts') - 1)
    BY <1>1, <1>5
  <2>2. i + d \in DOMAIN queueIts /\ queueIts'[i] = queueIts[i + d]
    BY <1>2, <2>1
  <2>3. CASE j = Len(queueIts')
    <3>1. queueIts'[j] = x /\ x = captured + 1
      BY <1>2, <1>5, <2>3
    <3> QED  BY <1>1, <2>2, <3>1 DEF QueueInOrder
  <2>4. CASE j # Len(queueIts')
    <3>1. j \in 1..(Len(queueIts') - 1) /\ i + d < j + d
      BY <1>1, <1>5, <2>4
    <3>2. j + d \in DOMAIN queueIts /\ queueIts'[j] = queueIts[j + d]
      BY <1>2, <3>1
    <3> QED  BY <1>5, <2>2, <3>1, <3>2 DEF QueueInOrder
  <2> QED  BY <2>3, <2>4
<1> QED  BY <1>4, <1>5 DEF QueueInOrder

(* Numbers the order is about. *)
LEMMA Numbers ==
  ASSUME TypeInv
  PROVE  /\ captured \in Nat
         /\ \A i \in DOMAIN queueIts : queueIts[i] \in Nat
         /\ \A i \in DOMAIN published : published[i] \in Nat
         /\ \A w \in DOMAIN writers : writers[w].data \in Nat
<1>1. captured \in Nat
  BY OtmAssumption DEF TypeInv, QueueType
<1>2. \A i \in DOMAIN queueIts : queueIts[i] \in Nat
  BY LenProperties, ElementOfSeq, OtmAssumption DEF TypeInv, QueueType
<1>3. \A i \in DOMAIN published : published[i] \in Nat
  BY LenProperties, ElementOfSeq, OtmAssumption DEF TypeInv, QueueType
<1>4. \A w \in DOMAIN writers : writers[w] \in [at : Places, data : 0..MaxPackets]
  BY LenProperties, ElementOfSeq DEF TypeInv, WritersType
<1> QED  BY <1>1, <1>2, <1>3, <1>4, OtmAssumption

(* All of the order, with what was published. *)
Order ==
  /\ QueueInOrder /\ PublishedWereCaptured
  /\ calm => QueueBehind /\ \A w \in DOMAIN writers : HandInOrder(w)

(* A new packet comes after all. *)
LEMMA CaptureOrder ==
  ASSUME TypeInv, Order, Capture
  PROVE  Order'
<1>1. /\ captured' = captured + 1 /\ captured' \in 0..MaxPackets /\ Push(captured')
      /\ UNCHANGED <<calm, writers, published>>
  BY OtmAssumption DEF TypeInv, QueueType, Capture
<1>2. QueueInOrder'
  BY <1>1, PushInOrder DEF TypeInv, Order
<1>3. \A i \in DOMAIN queueIts' :
        queueIts'[i] = captured + 1 \/ \E j \in DOMAIN queueIts : queueIts'[i] = queueIts[j]
  BY <1>1, PushFrom DEF TypeInv
<1>4. PublishedWereCaptured'
  BY <1>1, Numbers DEF Order, PublishedWereCaptured
<1>5. ASSUME calm PROVE QueueBehind'
  <2>1. \A i \in DOMAIN published : published[i] < captured + 1
    BY <1>5, Numbers DEF Order, PublishedWereCaptured
  <2> QED  BY <1>1, <1>3, <1>5, <2>1 DEF Order, QueueBehind
<1>6. ASSUME calm, NEW w \in DOMAIN writers PROVE HandInOrder(w)'
  <2>1. HandInOrder(w)
    BY <1>6 DEF Order
  <2>2. writers[w].data \in Nat /\ captured \in Nat
    BY Numbers
  <2> QED  BY <1>1, <1>3, <2>1, <2>2 DEF HandInOrder
<1> QED  BY <1>1, <1>2, <1>4, <1>5, <1>6 DEF Order

(* The marker has no place in the order, a new writer nothing in its hand.  *)
LEMMA NetworkOrder ==
  ASSUME TypeInv, Order, Network
  PROVE  Order'
<1>1. UNCHANGED <<calm, captured, published>>
  BY DEF Network
<1>2. CASE Mark
  <2>1. Push(EMPTY) /\ EMPTY \in 0..MaxPackets /\ UNCHANGED writers
    BY <1>2, OtmAssumption DEF Mark, EMPTY
  <2>2. QueueInOrder'
    <3>1. UNCHANGED captured /\ QueueType /\ QueueInOrder
      BY <1>1 DEF TypeInv, Order
    <3>2. EMPTY = EMPTY /\ UNCHANGED captured
      BY <3>1
    <3> QED  BY <2>1, <3>1, <3>2, PushInOrder
  <2>3. \A i \in DOMAIN queueIts' :
          queueIts'[i] = EMPTY \/ \E j \in DOMAIN queueIts : queueIts'[i] = queueIts[j]
    BY <2>1, PushFrom DEF TypeInv
  <2>4. PublishedWereCaptured'
    BY <1>1 DEF Order, PublishedWereCaptured
  <2>5. calm => QueueBehind'
    BY <1>1, <2>3 DEF Order, QueueBehind
  <2>6. ASSUME calm, NEW w \in DOMAIN writers PROVE HandInOrder(w)'
    <3>1. HandInOrder(w)
      BY <2>6 DEF Order
    <3> QED  BY <1>1, <2>1, <2>3, <3>1 DEF HandInOrder
  <2> QED  BY <1>1, <2>1, <2>2, <2>4, <2>5, <2>6 DEF Order
<1>3. CASE Spawn
  <2>1. /\ DOMAIN writers' = DOMAIN writers \cup {thread'}
        /\ writers'[thread'] = [at |-> "clear", data |-> EMPTY]
        /\ \A v \in DOMAIN writers : writers'[v] = writers[v]
    BY <1>3, SpawnAdds DEF TypeInv
  <2>2. UNCHANGED queueIts
    BY <1>3 DEF Spawn
  <2>4. ASSUME calm, NEW w \in DOMAIN writers PROVE HandInOrder(w)'
    <3>1. HandInOrder(w) /\ writers'[w] = writers[w]
      BY <2>1, <2>4 DEF Order
    <3> QED  BY <1>1, <2>2, <3>1 DEF HandInOrder
  <2>5. QueueInOrder' /\ PublishedWereCaptured' /\ (calm => QueueBehind')
    BY <1>1, <2>2 DEF Order, QueueInOrder, PublishedWereCaptured, QueueBehind
  <2>6. calm' => \A w \in DOMAIN writers' : HandInOrder(w)'
    <3>1. \A w \in DOMAIN writers' : writers'[w].at \in {"check", "publish"} => w \in DOMAIN writers
      BY <2>1
    <3> QED  BY <1>1, <3>1, <2>4 DEF HandInOrder
  <2> QED  BY <1>1, <2>5, <2>6 DEF Order
<1>4. CASE ~Mark /\ ~Spawn
  <2>1. UNCHANGED <<queueIts, writers>>
    BY <1>4 DEF Network, Callback, Connect, Online, Detach, Reset, Drop, Flag
  <2> QED  BY <1>1, <2>1 DEF Order, QueueInOrder, PublishedWereCaptured, QueueBehind, HandInOrder
<1> QED  BY <1>2, <1>3, <1>4

(* The only writer clears, takes the head, publishes what it holds. *)
LEMMA WriterOrder ==
  ASSUME TypeInv, OneWriter, MarkerSeen, Order, NEW w \in DOMAIN writers, writer_thread(w)
  PROVE  Order'
<1>1. UNCHANGED <<calm, captured>>
  BY DEF writer_thread
<1>2. /\ DOMAIN writers' = DOMAIN writers /\ Running(w)
      /\ \A v \in DOMAIN writers : v # w => writers'[v] = writers[v]
  BY WriterStep
<1>3. ASSUME calm, NEW v \in DOMAIN writers, v # w PROVE HandInOrder(v)'
  <2>1. ~Running(v)
    BY <1>2, <1>3 DEF OneWriter
  <2> QED  BY <1>2, <1>3, <2>1 DEF HandInOrder, Running
<1>4. ASSUME QueueInOrder', PublishedWereCaptured', calm => QueueBehind' /\ HandInOrder(w)'
      PROVE  Order'
  BY <1>1, <1>2, <1>3, <1>4 DEF Order
<1>5. CASE Cleared(w)
  <2>1. DOMAIN queueIts' = {} /\ UNCHANGED published /\ writers'[w].at = "top"
    BY <1>5, EmptySeq DEF Cleared
  <2> QED  BY <1>1, <1>4, <2>1
           DEF Order, QueueInOrder, PublishedWereCaptured, QueueBehind, HandInOrder
<1>6. CASE Idled(w)
  <2>1. UNCHANGED <<queueIts, published>> /\ writers'[w].at \notin {"check", "publish"}
    BY <1>6 DEF Idled
  <2> QED  BY <1>1, <1>4, <2>1
           DEF Order, QueueInOrder, PublishedWereCaptured, QueueBehind, HandInOrder
<1>7. CASE Popped(w)
  <2>1. /\ QueueInOrder' /\ Head(queueIts) = queueIts[1] /\ 1 \in DOMAIN queueIts
        /\ \A i \in DOMAIN queueIts' :
             /\ \E j \in DOMAIN queueIts : queueIts'[i] = queueIts[j]
             /\ queueIts'[i] # EMPTY => Head(queueIts) < queueIts'[i]
    BY <1>1, <1>7, PopInOrder DEF Popped, TypeInv, Order
  <2>2. writers'[w].data = Head(queueIts) /\ UNCHANGED published
    BY <1>7 DEF Popped
  <2>3. PublishedWereCaptured'
    BY <1>1, <2>2 DEF Order, PublishedWereCaptured
  <2>4. calm => QueueBehind'
    BY <2>1, <2>2 DEF Order, QueueBehind
  <2>5. calm => HandInOrder(w)'
    BY <1>1, <2>1, <2>2 DEF Order, HandInOrder, QueueBehind, QueueInOrder
  <2> QED  BY <1>4, <2>1, <2>3, <2>4, <2>5
<1>8. CASE Checked(w)
  <2>1. UNCHANGED <<queueIts, published>> /\ writers'[w].data = writers[w].data
        /\ writers[w].at = "check"
    BY <1>8 DEF Checked
  <2>2. calm => HandInOrder(w)'
    BY <1>1, <2>1 DEF Order, HandInOrder
  <2>3. QueueInOrder' /\ PublishedWereCaptured' /\ (calm => QueueBehind')
    BY <1>1, <2>1 DEF Order, QueueInOrder, PublishedWereCaptured, QueueBehind
  <2> QED  BY <1>4, <2>2, <2>3
<1>9. CASE Published(w)
  <2>1. writers[w].at = "publish" /\ writers'[w].at = "top" /\ UNCHANGED queueIts
    BY <1>9 DEF Published
  <2>2. HandInOrder(w)' /\ QueueInOrder'
    BY <1>1, <2>1 DEF HandInOrder, Order, QueueInOrder
  <2>3. CASE published' = published
    BY <1>1, <1>4, <2>1, <2>2, <2>3 DEF Order, PublishedWereCaptured, QueueBehind
  <2>4. CASE published' = Append(published, writers[w].data)
    <3> DEFINE d == writers[w].data
               n == Len(published)
    <3>1. published \in Seq(0..MaxPackets) /\ d \in 0..MaxPackets /\ n \in Nat
          /\ DOMAIN published = 1..n
      <4>1. writers[w] \in [at : Places, data : 0..MaxPackets]
        BY LenProperties, ElementOfSeq DEF TypeInv, WritersType
      <4> QED  BY <4>1, LenProperties DEF TypeInv, QueueType
    <3>2. /\ DOMAIN published' = 1..(n + 1) /\ published'[n + 1] = d
          /\ \A i \in 1..n : published'[i] = published[i]
      BY <2>4, <3>1, AppendProperties, LenProperties
    <3>3. ASSUME calm
          PROVE  /\ d \in 1..captured
                 /\ \A i \in DOMAIN published : published[i] < d
                 /\ \A i \in DOMAIN queueIts : queueIts[i] # EMPTY => d < queueIts[i]
      <4>1. d # EMPTY
        BY <3>3, <2>1 DEF MarkerSeen
      <4>2. HandInOrder(w)
        BY <3>3 DEF Order
      <4> QED  BY <2>1, <3>1, <4>1, <4>2, Numbers DEF HandInOrder, EMPTY
    <3> HIDE DEF d, n
    <3>4. PublishedWereCaptured'
      BY <1>1, <3>1, <3>2, <3>3, Numbers DEF Order, PublishedWereCaptured
    <3>5. calm => QueueBehind'
      BY <2>1, <3>1, <3>2, <3>3 DEF Order, QueueBehind
    <3> QED  BY <1>4, <2>2, <3>4, <3>5
  <2> QED  BY <1>9, <2>3, <2>4 DEF Published
<1> QED  BY <1>5, <1>6, <1>7, <1>8, <1>9, WriterStep

(* Every step keeps the order. *)
LEMMA OrderStep ==
  ASSUME TypeInv, OneWriter, MarkerSeen, Order, [Next]_vars
  PROVE  Order'
<1>1. CASE MainLike \/ UNCHANGED vars
  BY <1>1, MainKeeps
     DEF Order, QueueInOrder, PublishedWereCaptured, QueueBehind, HandInOrder
<1> QED  BY <1>1, CaptureOrder, NetworkOrder, WriterOrder, NextCases

-----------------------------------------------------------------------------
(* The invariant and what follows. *)

(* The invariant holds at the start ... *)
LEMMA InitIInv == Init => IInv
<1> SUFFICES ASSUME Init PROVE IInv
  OBVIOUS
<1>1. TypeOK
  BY InitType, TypeOKIsTypeInv
<1>2. DOMAIN writers = {} /\ DOMAIN queueIts = {} /\ DOMAIN published = {}
  BY EmptySeq DEF Init
<1>3. Stopping /\ StatusFollows /\ OneWriter /\ MarkerSeen
  BY <1>2 DEF Init, Stopping, StatusFollows, OneWriter, MarkerSeen, Stopped
<1>4. InOrder /\ PublishedWereCaptured
  BY <1>2 DEF InOrder, PublishedWereCaptured
<1> QED  BY <1>1, <1>3, <1>4 DEF IInv

(* ... and after every step. *)
LEMMA StepIInv == IInv /\ [Next]_vars => IInv'
<1> SUFFICES ASSUME IInv, [Next]_vars PROVE IInv'
  OBVIOUS
<1>1. TypeInv /\ Stopping /\ StatusFollows /\ OneWriter /\ MarkerSeen
  BY TypeOKIsTypeInv DEF IInv
<1>2. Order
  BY InOrderParts DEF IInv, Order
<1>3. TypeInv' /\ Stopping' /\ StatusFollows' /\ OneWriter' /\ MarkerSeen'
  BY <1>1, NextType, StoppingStep, StatusStep, OneWriterStep, MarkerStep
<1>4. Order'
  BY <1>1, <1>2, OrderStep
<1>5. TypeOK'
  BY <1>3, TypeOKIsTypeInv, PTL
<1>6. InOrder' /\ PublishedWereCaptured'
  BY <1>4, InOrderParts, PTL DEF Order
<1> QED  BY <1>3, <1>5, <1>6 DEF IInv

(* The invariant holds: in a calm network there is one writer, the marker   *)
(* of a lost connection never reaches it unseen, and packets published, in  *)
(* its hand and in the queue are in the order of capture (Writer).          *)
THEOREM ClientInvariance == Spec => []IInv
  BY InitIInv, StepIInv, PTL DEF Spec

(* What the broker gets are captured packets, each once and in the order of *)
(* capture, across all connections (Writer::on_connect).                    *)
THEOREM PublishedWereCapturedHolds == Spec => []PublishedWereCaptured
<1>1. IInv => PublishedWereCaptured
  BY DEF IInv
<1> QED  BY <1>1, ClientInvariance, PTL

(* A program that ended leaves no "online" behind (Writer::stop). *)
THEOREM EndsOfflineHolds == Spec => []EndsOffline
<1>1. IInv => EndsOffline
  BY DEF IInv, StatusFollows, EndsOffline
<1> QED  BY <1>1, ClientInvariance, PTL

(* Nothing is published after main has waited for the writer (Writer::stop). *)
THEOREM SilentAfterStopHolds == Spec => SilentAfterStop
<1>1. IInv /\ [Next]_vars => [calm /\ Stopped => published' = published]_vars
  <2> SUFFICES ASSUME IInv, [Next]_vars, calm, Stopped PROVE UNCHANGED published
    OBVIOUS
  <2>1. TypeInv /\ \A w \in DOMAIN writers : ~Running(w)
    BY TypeOKIsTypeInv DEF IInv, OneWriter
  <2>2. ~\E w \in DOMAIN writers : writer_thread(w)
    BY <2>1, WriterStep
  <2>3. CASE Capture \/ Network
    BY <2>3 DEF Capture, Network
  <2> QED  BY <2>2, <2>3, NextCases, MainKeeps
<1> QED  BY <1>1, ClientInvariance, PTL DEF Spec, SilentAfterStop

=============================================================================

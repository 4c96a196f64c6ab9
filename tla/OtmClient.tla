----------------------------- MODULE OtmClient -----------------------------
(***************************************************************************)
(* esp32-c5-its-otm: main starts the reader, the parser and the MQTT       *)
(* client, then waits for them to end.  Each connection to the broker gets *)
(* a writer thread of its own (writer.cpp), started by the callback        *)
(* on_connect and asked to leave by on_disconnect, both run by the network *)
(* thread of libmosquitto.  QueueIts is the queue between parser and       *)
(* writer; UsbStream has what comes before it.                             *)
(***************************************************************************)
EXTENDS Naturals, Sequences

CONSTANTS
  Size,        \* of QueueIts
  MaxPackets,  \* bound: packets the parser hands on
  MaxConnects, \* bound: connections, and so writer threads
  Weather,     \* of the network: the values calm may have
  NULL

ASSUME OtmAssumption ==
  /\ {Size, MaxPackets, MaxConnects} \subseteq Nat /\ Weather \subseteq BOOLEAN
  /\ NULL \notin Nat

VARIABLES
  calm,            \* callbacks never overlap the old writer's exit or stop();
                   \* it never changes
  shutdown, shutdownWriter,
  main,            \* what main does next
  reader, parser,  \* "off", "run" or "done"
  captured,        \* packets handed on so far
  queueIts,
  net, up,         \* the network thread, and whether the broker is connected
  writers,         \* all writer threads ever: where they are and their data
  thread,          \* Writer::_thread, NULL when not joinable
  status,          \* retained status at the broker
  published        \* packets that reached the broker

queueVars == <<captured, queueIts>>
netVars == <<net, up, status, shutdownWriter>>
vars == <<calm, shutdown, main, reader, parser, queueVars, netVars, writers, thread, published>>

EMPTY == 0   \* the vector {} of on_disconnect; packets are 1, 2, ...

Places == {"clear", "top", "pop", "check", "publish", "done"}

Init ==
  /\ calm \in Weather
  /\ shutdown = FALSE /\ shutdownWriter = FALSE
  /\ main = "start" /\ reader = "off" /\ parser = "off"
  /\ captured = 0 /\ queueIts = <<>>
  /\ net = "off" /\ up = FALSE /\ status = "none"
  /\ writers = <<>> /\ thread = NULL /\ published = <<>>

Running(w) == writers[w].at # "done"

-----------------------------------------------------------------------------
(* Queue<T,Size>: push drops the oldest element when there are more than    *)
(* Size.  pop waits for an element and gives up only on shutdown.           *)

(* Slip: the size is not looked at. *)
Push_Unbounded(x) == queueIts' = Append(queueIts, x)
Push(x) == queueIts' = Append(IF Len(queueIts) > Size THEN Tail(queueIts) ELSE queueIts, x)

(* Slip: pop does not look at shutdown. *)
PopEmpty_Forever == FALSE
PopEmpty == queueIts = <<>> /\ shutdown

-----------------------------------------------------------------------------
(* Reader and parser. *)

(* The thread sees shutdown, or read fails: the cable was pulled.  The      *)
(* other threads do not hear of it.                                         *)
ReaderEnd ==
  /\ reader = "run"
  /\ reader' = "done"
  /\ UNCHANGED <<calm, shutdown, main, parser, queueVars, netVars, writers, thread, published>>

Capture ==
  /\ parser = "run" /\ captured < MaxPackets
  /\ captured' = captured + 1 /\ Push(captured')
  /\ UNCHANGED <<calm, shutdown, main, reader, parser, netVars, writers, thread, published>>

ParserEnd ==
  /\ parser = "run" /\ shutdown
  /\ parser' = "done"
  /\ UNCHANGED <<calm, shutdown, main, reader, queueVars, netVars, writers, thread, published>>

-----------------------------------------------------------------------------
(* The network thread: on_connect and on_disconnect, step by step.          *)

(* on_connect was called and on_disconnect not yet. *)
Linked == up \/ (writers # <<>> /\ ~shutdownWriter)

(* on_connect does not look at rc: a connection the broker refuses gets a   *)
(* writer, too.                                                             *)
Connect ==
  /\ net = "idle" /\ ~Linked /\ Len(writers) < MaxConnects /\ main # "loop_stop"
  /\ calm => ~shutdown /\ \A w \in DOMAIN writers : ~Running(w)
  /\ up' \in BOOLEAN /\ net' = "online"
  /\ UNCHANGED <<status, shutdownWriter, thread, writers, queueIts>>

Online ==
  /\ net = "online" /\ net' = "detach"
  /\ status' = IF up THEN "online" ELSE status
  /\ UNCHANGED <<up, shutdownWriter, thread, writers, queueIts>>

Detach ==
  /\ net = "detach" /\ net' = "reset"
  /\ thread' = NULL
  /\ UNCHANGED <<up, status, shutdownWriter, writers, queueIts>>

(* Slip: the flag of the last connection stays. *)
Reset_Not ==
  /\ net = "reset" /\ net' = "spawn"
  /\ UNCHANGED <<up, status, shutdownWriter, thread, writers, queueIts>>
Reset ==
  /\ net = "reset" /\ net' = "spawn"
  /\ shutdownWriter' = FALSE
  /\ UNCHANGED <<up, status, thread, writers, queueIts>>

(* Slip: the new writer goes on with what the last one left. *)
Spawn_NoClear ==
  /\ net = "spawn" /\ net' = "idle"
  /\ writers' = Append(writers, [at |-> "top", data |-> EMPTY])
  /\ thread' = Len(writers')
  /\ UNCHANGED <<up, status, shutdownWriter, queueIts>>
Spawn ==
  /\ net = "spawn" /\ net' = "idle"
  /\ writers' = Append(writers, [at |-> "clear", data |-> EMPTY])
  /\ thread' = Len(writers')
  /\ UNCHANGED <<up, status, shutdownWriter, queueIts>>

(* The broker is lost and publishes the will, or it had refused.            *)
Drop ==
  /\ net = "idle" /\ Linked
  /\ calm => ~shutdown
  /\ up' = FALSE /\ net' = "flag" /\ status' = IF up THEN "offline" ELSE status
  /\ UNCHANGED <<shutdownWriter, thread, writers, queueIts>>

Flag ==
  /\ net = "flag" /\ net' = "mark"
  /\ shutdownWriter' = TRUE
  /\ UNCHANGED <<up, status, thread, writers, queueIts>>

Mark ==
  /\ net = "mark" /\ net' = "idle"
  /\ Push(EMPTY)
  /\ UNCHANGED <<up, status, shutdownWriter, thread, writers>>

Callback == Online \/ Detach \/ Reset \/ Spawn \/ Flag \/ Mark
Network ==
  /\ Connect \/ Drop \/ Callback
  /\ UNCHANGED <<calm, shutdown, main, reader, parser, captured, published>>

-----------------------------------------------------------------------------
(* A writer thread. *)

Go(w, place) == writers' = [writers EXCEPT ![w].at = place]

Clear(w) ==
  /\ writers[w].at = "clear" /\ Go(w, "top")
  /\ queueIts' = <<>> /\ UNCHANGED published

Top(w) ==
  /\ writers[w].at = "top" /\ Go(w, IF shutdown THEN "done" ELSE "pop")
  /\ UNCHANGED <<queueIts, published>>

Pop(w) ==
  /\ writers[w].at = "pop"
  /\ \/ /\ queueIts # <<>>
        /\ writers' = [writers EXCEPT ![w] = [at |-> "check", data |-> Head(queueIts)]]
        /\ queueIts' = Tail(queueIts)
     \/ /\ PopEmpty
        /\ Go(w, "top") /\ UNCHANGED queueIts
  /\ UNCHANGED published

Check(w) ==
  /\ writers[w].at = "check" /\ Go(w, IF shutdownWriter THEN "done" ELSE "publish")
  /\ UNCHANGED <<queueIts, published>>

Publish(w) ==
  /\ writers[w].at = "publish" /\ Go(w, "top")
  /\ published' = IF up THEN Append(published, writers[w].data) ELSE published
  /\ UNCHANGED queueIts

writer_thread(w) ==
  /\ Clear(w) \/ Top(w) \/ Pop(w) \/ Check(w) \/ Publish(w)
  /\ UNCHANGED <<calm, shutdown, main, reader, parser, captured, netVars, thread>>

-----------------------------------------------------------------------------
(* main. *)

(* Each of the three may fail to start, and then the later ones are not     *)
(* started.  A failed start is a shutdown; the network thread may be        *)
(* running although connect failed.                                         *)
Start ==
  /\ main = "start" /\ main' = "stop_reader"
  /\ \E ok \in 0..3 :
       /\ reader' = IF ok >= 1 THEN "run" ELSE reader
       /\ parser' = IF ok >= 2 THEN "run" ELSE parser
       /\ \/ ok < 3 /\ UNCHANGED net
          \/ ok >= 2 /\ net' = "idle"
       /\ shutdown' = (shutdown \/ ok < 3)
  /\ UNCHANGED <<up, status, shutdownWriter, thread, writers, published>>

StopReader ==
  /\ main = "stop_reader" /\ reader # "run" /\ main' = "stop_parser"
  /\ UNCHANGED <<shutdown, reader, parser, netVars, thread, writers, published>>

StopParser ==
  /\ main = "stop_parser" /\ parser # "run" /\ main' = "stop_writer"
  /\ UNCHANGED <<shutdown, reader, parser, netVars, thread, writers, published>>

(* Slip: the writer thread is not waited for. *)
StopWriter_NoJoin ==
  /\ main = "stop_writer" /\ (calm => net \in {"off", "idle"})
  /\ main' = "offline"
  /\ UNCHANGED <<shutdown, reader, parser, netVars, thread, writers, published>>
StopWriter ==
  /\ main = "stop_writer" /\ (calm => net \in {"off", "idle"})
  /\ thread # NULL => ~Running(thread)
  /\ main' = "offline"
  /\ thread' = NULL
  /\ UNCHANGED <<shutdown, reader, parser, netVars, writers, published>>

(* Slip: the status is left to the will, which a clean disconnect discards. *)
Offline_Will ==
  /\ main = "offline" /\ main' = "disconnect"
  /\ UNCHANGED <<shutdown, reader, parser, netVars, thread, writers, published>>

Offline ==
  /\ main = "offline" /\ main' = "disconnect"
  /\ status' = IF up THEN "offline" ELSE status
  /\ UNCHANGED <<shutdown, reader, parser, net, up, shutdownWriter, thread, writers, published>>

(* disconnect() has on_disconnect called as a lost broker has, but no will  *)
(* is published; loop_stop(true) then cuts the network thread short.        *)
Disconnect ==
  /\ main = "disconnect" /\ main' = "loop_stop"
  /\ up' = FALSE /\ net' = IF Linked /\ net = "idle" THEN "flag" ELSE net
  /\ UNCHANGED <<shutdown, reader, parser, status, shutdownWriter, thread, writers, published>>

LoopStop ==
  /\ main = "loop_stop" /\ main' = "done"
  /\ net' = "off"
  /\ UNCHANGED <<shutdown, reader, parser, up, status, shutdownWriter, thread, writers, published>>

Main ==
  /\ Start \/ StopReader \/ StopParser \/ StopWriter \/ Offline \/ Disconnect \/ LoopStop
  /\ UNCHANGED <<calm, queueVars>>

signal_handler ==
  /\ ~shutdown /\ main # "done"
  /\ shutdown' = TRUE
  /\ UNCHANGED <<calm, main, reader, parser, queueVars, netVars, writers, thread, published>>

Next ==
  \/ ReaderEnd \/ Capture \/ ParserEnd
  \/ Network
  \/ \E w \in DOMAIN writers : writer_thread(w)
  \/ Main
  \/ signal_handler

Spec == Init /\ [][Next]_vars

(* Every thread gets its turn; the broker is reached again unless the       *)
(* program ends.                                                            *)
FairSpec ==
  /\ Spec
  /\ WF_vars(ReaderEnd /\ shutdown) /\ WF_vars(ParserEnd) /\ WF_vars(Main)
  /\ WF_vars(Network /\ net # "idle")
  /\ \A w \in 1..MaxConnects : WF_vars(w \in DOMAIN writers /\ writer_thread(w))

-----------------------------------------------------------------------------
(* Properties. *)

(* Every variable keeps its type, and QueueIts its bound (Queue::push).     *)
TypeOK ==
  /\ calm \in Weather
  /\ {shutdown, shutdownWriter, up} \subseteq BOOLEAN
  /\ main \in {"start", "stop_reader", "stop_parser", "stop_writer", "offline", "disconnect",
               "loop_stop", "done"}
  /\ {reader, parser} \subseteq {"off", "run", "done"}
  /\ net \in {"off", "idle", "online", "detach", "reset", "spawn", "flag", "mark"}
  /\ captured \in 0..MaxPackets
  /\ queueIts \in Seq(0..MaxPackets) /\ Len(queueIts) <= Size + 1
  /\ writers \in Seq([at : Places, data : 0..MaxPackets])
  /\ thread \in DOMAIN writers \cup {NULL}
  /\ status \in {"none", "online", "offline"} /\ published \in Seq(0..MaxPackets)

(* main goes on only after reader and parser have ended, and the parser     *)
(* ends only on shutdown.                                                   *)
Stopping ==
  /\ main # "start" /\ parser # "run" => shutdown
  /\ main \in {"stop_writer", "offline", "disconnect", "loop_stop", "done"} => parser # "run"
(* "online" stands only while the broker is connected, and no longer once   *)
(* main has said "offline".                                                 *)
StatusFollows ==
  /\ main \notin {"loop_stop", "done"} /\ status = "online" => up
  /\ calm /\ main \in {"disconnect", "loop_stop", "done"} => status # "online"
(* In a calm network only the writer of the last connection runs, none      *)
(* while the next one comes up or after main has waited for it.             *)
Stopped == main \in {"offline", "disconnect", "loop_stop", "done"}
OneWriter ==
  calm =>
    /\ \A w \in DOMAIN writers : Running(w) => thread = w
    /\ net \in {"online", "detach", "reset", "spawn"} =>
         ~Stopped /\ \A w \in DOMAIN writers : ~Running(w)
    /\ Stopped => \A w \in DOMAIN writers : ~Running(w)
(* A marker is in the queue, or in a writer's hand, only after the flag was *)
(* set, or before the writer has cleared the queue.                         *)
MarkerSeen ==
  /\ net = "mark" => shutdownWriter
  /\ calm =>
       \A w \in DOMAIN writers :
         /\ writers[w].at = "publish" => writers[w].data # EMPTY
         /\ Running(w) /\ writers[w].at # "clear" /\ ~shutdownWriter =>
              /\ \A i \in DOMAIN queueIts : queueIts[i] # EMPTY
              /\ writers[w].at = "check" => writers[w].data # EMPTY
(* Published, in the writer's hand, in the queue: the order of capture.     *)
InOrder ==
  /\ \A i \in DOMAIN queueIts : queueIts[i] <= captured
  /\ \A i, j \in DOMAIN queueIts :
       i < j /\ queueIts[j] # EMPTY => queueIts[i] < queueIts[j]
  /\ calm =>
       /\ \A i \in DOMAIN published, j \in DOMAIN queueIts :
            queueIts[j] # EMPTY => published[i] < queueIts[j]
       /\ \A w \in DOMAIN writers :
            writers[w].at \in {"check", "publish"} =>
              /\ writers[w].data <= captured
              /\ writers[w].data # EMPTY =>
                   \A i \in DOMAIN published : published[i] < writers[w].data
              /\ \A i \in DOMAIN queueIts :
                   queueIts[i] # EMPTY => writers[w].data < queueIts[i]

(* What the broker gets are captured packets, each once and in the order of *)
(* capture, across connections, as long as no writer outlives its           *)
(* connection into the next.                                                *)
PublishedWereCaptured ==
  calm =>
  /\ \A i \in DOMAIN published : published[i] \in 1..captured
  /\ \A i, j \in DOMAIN published : i < j => published[i] < published[j]

(* Once main has waited for the writer nothing is published any more, so    *)
(* that "offline" is the last thing said, in a calm network.                *)
SilentAfterStop ==
  [][calm /\ Stopped => published' = published]_vars

(* A program that ended leaves no "online" behind (statusOffline), in a     *)
(* calm network: else a connection can come up after the stop.              *)
EndsOffline == calm /\ main = "done" => status # "online"

(* The inductive invariant of these three (writer.cpp, main).               *)
IInv ==
  /\ TypeOK /\ Stopping /\ StatusFollows
  /\ OneWriter /\ MarkerSeen /\ InOrder /\ PublishedWereCaptured

(* After SIGINT the program ends, whatever its threads wait for.            *)
ShutdownCompletes == shutdown ~> main = "done"

(* While a connection lasts its writer keeps emptying the queue.            *)
WriterServes ==
  calm /\ <>[](up /\ net = "idle" /\ ~shutdown) => []<>(queueIts = <<>>)
=============================================================================

------------------------------ MODULE LogData ------------------------------
(***************************************************************************)
(* How a record gets to both of its readers: log_data (main.c), called by  *)
(* the Wi-Fi callback and by the esp_timer task, which may interrupt each  *)
(* other between any two of its steps, the two queues it fills without     *)
(* waiting, and the two tasks that empty them.  SdCard and UsbStream have  *)
(* what becomes of a record then; here both readers may stop for good.     *)
(***************************************************************************)
EXTENDS Naturals, Sequences

CONSTANTS
  QUEUE_SIZE, \* of usb_queue and of sdcard_queue
  MaxRecord,  \* bound: records logged
  MaxSwitch,  \* bound: how often cable and button change what is on
  NULL

ASSUME LogAssumption ==
  QUEUE_SIZE \in Nat \ {0} /\ MaxRecord \in Nat /\ MaxSwitch \in Nat

VARIABLES
  at, data,     \* per caller: where it is in log_data, and the record it logs
  connected,    \* usb_serial_jtag_is_connected
  sdcard_active,
  usb_queue, sdcard_queue,
  to_host, to_card,    \* history: the records each reader has taken out
  finished,     \* history: calls of log_data each caller has made
  stamped, switches \* history: what the bounds count

queueVars == <<usb_queue, sdcard_queue>>
readerVars == <<to_host, to_card>>
envVars == <<connected, sdcard_active, stamped, switches>>
vars == <<at, data, queueVars, readerVars, finished, envVars>>

Callers == {"its_log_data", "gps_log_data"}
Types(c) == IF c = "its_log_data" THEN {"its"} ELSE {"gps", "time"}
(* "seen" are the calls that were over when the record got its time stamp.  *)
Record == [src : Callers, type : {"its", "gps", "time"}, id : Nat,
           seen : [Callers -> Nat]]
ASSUME NullAssumption == NULL \notin Record

Init ==
  /\ at = [c \in Callers |-> "idle"] /\ data = [c \in Callers |-> NULL]
  /\ connected \in BOOLEAN /\ sdcard_active \in BOOLEAN
  /\ usb_queue = <<>> /\ sdcard_queue = <<>>
  /\ to_host = <<>> /\ to_card = <<>>
  /\ finished = [c \in Callers |-> 0]
  /\ stamped = 0 /\ switches = 0

-----------------------------------------------------------------------------
(* The callers. *)

(* A record gets its time stamp and is handed to log_data.                  *)
Stamp(c, t) ==
  /\ at[c] = "idle" /\ stamped < MaxRecord /\ stamped' = stamped + 1
  /\ data' = [data EXCEPT ![c] =
               [src |-> c, type |-> t, id |-> finished[c] + 1, seen |-> finished]]
  /\ at' = [at EXCEPT ![c] = "connected?"]
  /\ UNCHANGED <<connected, sdcard_active, queueVars, readerVars, finished, switches>>

(* A frame that is not for all or too long is passed over: no step.         *)
its_log_data == Stamp("its_log_data", "its")
(* Once a second, with a position if there is one.                          *)
gps_log_data == \E t \in {"gps", "time"} : Stamp("gps_log_data", t)

(* log_data goes on with one step; after the last one the call is over.     *)
Goto(c, place) ==
  /\ at' = [at EXCEPT ![c] = place]
  /\ IF place = "idle"
     THEN data' = [data EXCEPT ![c] = NULL] /\ finished' = [finished EXCEPT ![c] = @ + 1]
     ELSE UNCHANGED <<data, finished>>

TestConnected(c) ==
  /\ at[c] = "connected?"
  /\ Goto(c, IF connected THEN "usb" ELSE "active?")
  /\ UNCHANGED <<queueVars, readerVars, envVars>>

(* xQueueSend(queue, data, 0): a full queue refuses.                        *)
(* Slip: the newest record first.                                           *)
Send_Front(q, r) == IF Len(q) < QUEUE_SIZE THEN <<r>> \o q ELSE q
Send(q, r) == IF Len(q) < QUEUE_SIZE THEN Append(q, r) ELSE q

(* Slips: the send waits for room (portMAX_DELAY); a full queue ends the    *)
(* call.                                                                    *)
SendUsb_Wait(c) ==
  /\ at[c] = "usb" /\ Len(usb_queue) < QUEUE_SIZE
  /\ usb_queue' = Send(usb_queue, data[c]) /\ Goto(c, "active?")
  /\ UNCHANGED <<sdcard_queue, readerVars, envVars>>
SendUsb_Return(c) ==
  /\ at[c] = "usb"
  /\ usb_queue' = Send(usb_queue, data[c])
  /\ Goto(c, IF Len(usb_queue) < QUEUE_SIZE THEN "active?" ELSE "idle")
  /\ UNCHANGED <<sdcard_queue, readerVars, envVars>>
SendUsb(c) ==
  /\ at[c] = "usb"
  /\ usb_queue' = Send(usb_queue, data[c]) /\ Goto(c, "active?")
  /\ UNCHANGED <<sdcard_queue, readerVars, envVars>>

(* Records without a position are not for the card.                         *)
TestActive(c) ==
  /\ at[c] = "active?"
  /\ Goto(c, IF sdcard_active /\ data[c].type # "time" THEN "sd" ELSE "idle")
  /\ UNCHANGED <<queueVars, readerVars, envVars>>

(* The notification of the LED, which never waits, is left to Boot.         *)
SendSd(c) ==
  /\ at[c] = "sd"
  /\ sdcard_queue' = Send(sdcard_queue, data[c]) /\ Goto(c, "idle")
  /\ UNCHANGED <<usb_queue, readerVars, envVars>>

log_data(c) == TestConnected(c) \/ SendUsb(c) \/ TestActive(c) \/ SendSd(c)

-----------------------------------------------------------------------------
(* The readers of the queues take a record when they are through with the   *)
(* one before, which may be never (see UsbStream and SdCard).               *)

(* usb_transmitter_task passes a record over when no host is there.         *)
UsbReceive ==
  /\ usb_queue # <<>> /\ usb_queue' = Tail(usb_queue)
  /\ to_host' = IF connected THEN Append(to_host, Head(usb_queue)) ELSE to_host
  /\ UNCHANGED <<at, data, sdcard_queue, to_card, finished, envVars>>

(* sdcard_writer_task *)
SdReceive ==
  /\ sdcard_queue # <<>> /\ sdcard_queue' = Tail(sdcard_queue)
  /\ to_card' = Append(to_card, Head(sdcard_queue))
  /\ UNCHANGED <<at, data, usb_queue, to_host, finished, envVars>>

(* Cable and button. *)
Switch ==
  /\ switches < MaxSwitch /\ switches' = switches + 1
  /\ \/ connected' = ~connected /\ UNCHANGED sdcard_active
     \/ sdcard_active' = ~sdcard_active /\ UNCHANGED connected
  /\ UNCHANGED <<at, data, queueVars, readerVars, finished, stamped>>

Next ==
  \/ its_log_data \/ gps_log_data
  \/ \E c \in Callers : log_data(c)
  \/ UsbReceive \/ SdReceive
  \/ Switch

Spec == Init /\ [][Next]_vars

(* The callers have the highest priorities and finish what they began;      *)
(* nothing is promised of the readers, the host, the card or the user.      *)
FairSpec == Spec /\ \A c \in Callers : WF_vars(log_data(c))

-----------------------------------------------------------------------------
(* Properties. *)

(* Every variable keeps its type, and a caller has a record while it logs.  *)
TypeOK ==
  /\ at \in [Callers -> {"idle", "connected?", "usb", "active?", "sd"}]
  /\ data \in [Callers -> Record \cup {NULL}]
  /\ \A c \in Callers : data[c] = NULL <=> at[c] = "idle"
  /\ connected \in BOOLEAN /\ sdcard_active \in BOOLEAN
  /\ \A q \in {usb_queue, sdcard_queue} : q \in Seq(Record) /\ Len(q) <= QUEUE_SIZE
  /\ {to_host, to_card} \subseteq Seq(Record)
  /\ finished \in [Callers -> Nat]
  /\ stamped \in 0..MaxRecord /\ switches \in 0..MaxSwitch

(* What a reader gets, in this order. *)
HostStream == to_host \o usb_queue
CardStream == to_card \o sdcard_queue

(* A reader gets no record twice, and none before a record whose call was   *)
(* over when it got its time stamp: the times of a log go back only where   *)
(* one call interrupted the other, although two tasks fill both queues.     *)
InRealTime(s) ==
  \A i \in DOMAIN s, j \in DOMAIN s :
    i < j => s[i] # s[j] /\ s[i].seen[s[j].src] < s[j].id
RealTimeOrder == InRealTime(HostStream) /\ InRealTime(CardStream)

(* No reader holds up who logs: every call ends, with a host that does not  *)
(* read, with a card that does not write, and with both queues full.        *)
HoldsNobodyUp == \A c \in Callers : at[c] # "idle" ~> at[c] = "idle"

(* One reader's trouble is not the other's: while a reader is there and its *)
(* queue has room, it gets every record that is for it.                     *)
Logged(c, n, types) == data[c] # NULL /\ data[c].id = n /\ data[c].type \in types
Has(s, c, n) == \E i \in DOMAIN s : s[i].src = c /\ s[i].id = n
HostHears ==
  [](connected /\ Len(usb_queue) < QUEUE_SIZE) =>
    \A c \in Callers, n \in 1..MaxRecord : Logged(c, n, Types(c)) ~> Has(HostStream, c, n)
CardHears ==
  [](sdcard_active /\ Len(sdcard_queue) < QUEUE_SIZE) =>
    \A c \in Callers, n \in 1..MaxRecord :
      Logged(c, n, {"its", "gps"}) ~> Has(CardStream, c, n)
EachHears == HostHears /\ CardHears
=============================================================================

------------------------------ MODULE UbxInit ------------------------------
(***************************************************************************)
(* gps_ubx_init: while the firmware boots it looks for a u-blox receiver   *)
(* at five baud rates, moves it to 115200 baud and to the UBX protocol and *)
(* asks for four messages; init_gps then starts the UBX or the NMEA read   *)
(* task.  A command is one frame sent and at most Tries frames read, each  *)
(* within 500 ms of silence; the receiver answers on its own time.         *)
(***************************************************************************)
EXTENDS Integers, Sequences

CONSTANTS
  Worlds,     \* worlds considered: what is on the other end of the line
  Builds,     \* builds considered: what a call that reaches the end of its
              \* body without a return may return, a set of Booleans each
  Tries,      \* frames read for one command (32 in the code)
  Rounds,     \* rounds through the baud rates (3 in the code)
  MaxPending, \* bound: a burst of messages, shorter than Tries
  NULL

(* The commands gps_ubx_tx sends. *)
Commands ==
  [type : {"poll_prt", "poll_ver", "garbage"}, baud : Nat]
    \cup [type : {"set_prt"}, baud : Nat, rate : Nat, out : {"nmea", "ubx"}]
    \cup [type : {"set_msg"}, baud : Nat, msg : {"status", "posllh", "velned", "timeutc"}]

ASSUME InitAssumption ==
  /\ Worlds \subseteq {"ublox", "flaky ublox", "nmea", "chatty nmea"}
  /\ Builds \subseteq (SUBSET BOOLEAN) \ {{}}
  /\ Rounds \in Nat \ {0} /\ MaxPending \in Nat
  /\ Tries \in Nat /\ Tries > MaxPending + 2  \* a burst and the two frames of an answer
  /\ NULL \notin Nat \cup BOOLEAN \cup Commands

VARIABLES
  world, build,     \* of this device; they never change
  pc, attempt,      \* place in gps_ubx_init, and in its loop over bauds or messages
  baud,             \* of the ESP's UART
  frame,            \* baud rate in the CFG-PRT frame; NULL while never filled
  sent, found, try, \* gps_ubx_cmd_poll and gps_ubx_cmd_set
  wire,             \* command on its way to the receiver
  rxq,              \* frames on their way to the ESP
  gps,              \* the receiver's settings
  result            \* of gps_ubx_init: which read task init_gps starts

cmdVars == <<sent, found, try>>
constVars == <<world, build>>
vars == <<constVars, pc, attempt, baud, frame, cmdVars, wire, rxq, gps, result>>

Bauds == <<9600, 115200, 19200, 38400, 57600>>
Attempts == Rounds * Len(Bauds)
NavMsgs == <<"status", "posllh", "velned", "timeutc">>

Ublox == world \in {"ublox", "flaky ublox"}  \* the receiver knows UBX
Lossy == world = "flaky ublox"     \* frames get lost, commands are refused
Chatter == world = "chatty nmea"   \* its output leaves no pause of 500 ms
FallOff == build

Init ==
  /\ world \in Worlds /\ build \in Builds
  /\ pc = "try" /\ attempt = 0 /\ baud = 9600
  /\ frame = NULL /\ sent = FALSE /\ found = FALSE /\ try = 0
  /\ wire = NULL /\ rxq = <<>> /\ result = NULL
  /\ \/ \E i \in DOMAIN Bauds : gps = [baud |-> Bauds[i], out |-> "nmea", msgs |-> {}]
     \/ Ublox /\ gps = [baud |-> 115200, out |-> "ubx", msgs |-> {"status", "posllh"}]

-----------------------------------------------------------------------------
(* The receiver.  It takes a command sent at its own baud rate and answers  *)
(* within 500 ms, after a change of baud rate at the new one.               *)

Reply(rate) == [type |-> "cfg_prt", baud |-> gps'.baud, rate |-> rate, ok |-> TRUE]
Other(type, ok) == [type |-> type, baud |-> gps'.baud, rate |-> 0, ok |-> ok]
Nav == [type |-> "nav", baud |-> gps.baud, rate |-> 0, ok |-> TRUE]

Obey ==
  \/ /\ wire.type = "poll_prt" /\ UNCHANGED gps
     /\ rxq' = rxq \o <<Reply(gps.baud), Other("ack_prt", TRUE)>>
  \/ /\ wire.type = "poll_ver" /\ UNCHANGED gps
     /\ rxq' = Append(rxq, Other("mon_ver", TRUE))
  \/ /\ wire.type = "set_prt" /\ gps' = [gps EXCEPT !.baud = wire.rate, !.out = wire.out]
     /\ rxq' = Append(rxq, Other("ack_prt", TRUE))
  \/ /\ wire.type = "set_msg" /\ gps' = [gps EXCEPT !.msgs = @ \cup {wire.msg}]
     /\ rxq' = Append(rxq, Other("ack_msg", TRUE))

Refuse ==
  /\ wire.type \in {"set_prt", "set_msg"} /\ UNCHANGED gps
  /\ rxq' = Append(rxq, Other(IF wire.type = "set_msg" THEN "ack_msg" ELSE "ack_prt", FALSE))

Handle ==
  /\ wire # NULL /\ wire' = NULL
  /\ IF Ublox /\ wire.baud = gps.baud /\ wire.type # "garbage"
     THEN \/ Obey
          \/ Lossy /\ (Refuse \/ UNCHANGED <<gps, rxq>>)
     ELSE UNCHANGED <<gps, rxq>>
  /\ UNCHANGED <<constVars, pc, attempt, baud, frame, cmdVars, result>>

(* Messages asked for earlier come in between, in bursts with pauses unless *)
(* the receiver chatters.                                                   *)
SendNav ==
  /\ gps.out = "ubx" /\ gps.msgs # {}
  /\ Chatter \/ wire # NULL \/ rxq = <<>>
  /\ Len(rxq) + (IF Chatter THEN 0 ELSE try) < MaxPending
  /\ rxq' = Append(rxq, Nav)
  /\ UNCHANGED <<constVars, pc, attempt, baud, frame, cmdVars, wire, gps, result>>

Lose ==
  /\ Lossy /\ rxq # <<>> /\ rxq' = Tail(rxq)
  /\ UNCHANGED <<constVars, pc, attempt, baud, frame, cmdVars, wire, gps, result>>

-----------------------------------------------------------------------------
(* gps_ubx_init after a command has returned r: the next command, or the end. *)

End(r) == pc' = "done" /\ attempt' = 0 /\ result' = r
Step(p, n) == pc' = p /\ attempt' = n /\ UNCHANGED result

(* Slip: the search starts over when it has found nothing. *)
Tried_Forever(r) ==
  /\ pc = "try"
  /\ IF r
     THEN \/ frame' \in {115200, NULL} /\ Step("set_proto", 0)
          \/ frame' # 115200 /\ Step("set_baud", 0)
     ELSE Step("try", (attempt + 1) % Attempts)
Tried(r) ==
  /\ pc = "try"
  /\ IF r
     THEN \/ frame' \in {115200, NULL} /\ Step("set_proto", 0)
          \/ frame' # 115200 /\ Step("set_baud", 0)
     ELSE IF attempt + 1 < Attempts THEN Step("try", attempt + 1) ELSE End(FALSE)

BaudSet(r) == pc = "set_baud" /\ Step("retry_115200", 0)
Retried(r) ==
  \/ pc = "retry_115200" /\ (IF r THEN Step("set_proto", 0) ELSE Step("retry_9600", 0))
  \/ pc = "retry_9600" /\ End(FALSE)
(* Slip: the result is not looked at, as for the messages. *)
ProtoSet_Unchecked(r) == pc = "set_proto" /\ Step("version", 0)
ProtoSet(r) == pc = "set_proto" /\ (IF r THEN Step("version", 0) ELSE End(FALSE))
Told(r) ==
  \/ pc = "version" /\ Step("messages", 0)
  \/ pc = "messages" /\ (IF attempt + 1 < Len(NavMsgs) THEN Step("messages", attempt + 1)
                                                       ELSE End(TRUE))

Trying == pc \in {"try", "retry_115200", "retry_9600"}

(* gps_ubx_cmd_poll or gps_ubx_cmd_set returns r.  gps_ubx_baudrate_try     *)
(* returns FALSE after a failure and reaches its end after a success.       *)
Return(r) ==
  /\ sent' = FALSE /\ found' = FALSE /\ try' = 0
  /\ \E v \in (IF Trying /\ r THEN FallOff ELSE {r}) :
       Tried(v) \/ BaudSet(v) \/ Retried(v) \/ ProtoSet(v) \/ Told(v)

Command ==
  IF pc = "messages" THEN "cfg_msg" ELSE IF pc = "version" THEN "mon_ver" ELSE "cfg_prt"
IsPoll == Trying \/ pc = "version"
AckOf ==
  IF Command = "cfg_msg" THEN "ack_msg" ELSE IF Command = "cfg_prt" THEN "ack_prt" ELSE "none"

(* The frame that gps_ubx_tx sends. *)
TryBaud ==
  CASE pc = "retry_115200" -> 115200
    [] pc = "retry_9600"   -> 9600
    [] OTHER               -> Bauds[(attempt % Len(Bauds)) + 1]

(* The CFG-PRT frame; one that was never filled is garbage. *)
set_prt(rate, out) ==
  IF frame = NULL THEN [type |-> "garbage", baud |-> baud]
                  ELSE [type |-> "set_prt", baud |-> baud, rate |-> rate, out |-> out]

(* Slip: the frame goes back with the baud rate it came with. *)
Message_OldRate ==
  CASE Trying           -> [type |-> "poll_prt", baud |-> TryBaud]
    [] pc = "version"   -> [type |-> "poll_ver", baud |-> baud]
    [] pc = "messages"  -> [type |-> "set_msg", baud |-> baud, msg |-> NavMsgs[attempt + 1]]
    [] pc = "set_baud"  -> set_prt(frame, gps.out)
    [] pc = "set_proto" -> set_prt(frame, "ubx")
Message ==
  CASE Trying           -> [type |-> "poll_prt", baud |-> TryBaud]
    [] pc = "version"   -> [type |-> "poll_ver", baud |-> baud]
    [] pc = "messages"  -> [type |-> "set_msg", baud |-> baud, msg |-> NavMsgs[attempt + 1]]
    [] pc = "set_baud"  -> set_prt(115200, gps.out)
    [] pc = "set_proto" -> set_prt(frame, "ubx")

(* Send the command; gps_ubx_baudrate_try sets and flushes the UART first. *)
Tx ==
  /\ pc # "done" /\ ~sent /\ wire = NULL
  /\ wire' = Message
  /\ IF Trying THEN baud' = TryBaud /\ rxq' = <<>> ELSE UNCHANGED <<baud, rxq>>
  /\ sent' = TRUE
  /\ UNCHANGED <<pc, attempt, frame, found, try, gps, result>>

(* One frame from gps_ubx_rx; bytes of another baud rate make none. *)
Rx ==
  /\ sent /\ rxq # <<>>
  /\ rxq' = Tail(rxq)
  /\ LET f == Head(rxq)
         answer == IsPoll /\ f.type = Command
         ack == f.type = AckOf
     IN \/ f.baud # baud /\ UNCHANGED <<pc, attempt, frame, cmdVars, result>>
        \/ /\ f.baud = baud
           /\ frame' = IF answer /\ Command = "cfg_prt" THEN f.rate ELSE frame
           /\ \/ answer /\ Command = "mon_ver" /\ Return(TRUE)
              \/ ack /\ Return((IsPoll => found) /\ f.ok)
              \/ /\ ~ack /\ ~(answer /\ Command = "mon_ver")
                 /\ IF try + 1 < Tries
                    THEN /\ found' = (found \/ answer) /\ try' = try + 1
                         /\ UNCHANGED <<pc, attempt, sent, result>>
                    ELSE \E v \in FallOff : Return(v)
  /\ UNCHANGED <<baud, wire, gps>>

(* A frame with a wrong checksum, or too long for gps_ubx_frame_t, ends the *)
(* command at once; the answer may still come, before the next is sent.     *)
Damaged ==
  /\ Lossy /\ sent /\ rxq # <<>> /\ Head(rxq).baud = baud
  /\ rxq' = Tail(rxq)
  /\ Return(FALSE)
  /\ UNCHANGED <<baud, frame, wire, gps>>

(* 500 ms without a byte. *)
Timeout ==
  /\ sent /\ rxq = <<>> /\ wire = NULL
  /\ ~(Chatter /\ (gps.out = "nmea" \/ gps.msgs # {}))
  /\ UNCHANGED frame
  /\ Return(FALSE)
  /\ UNCHANGED <<baud, wire, rxq, gps>>

gps_ubx_init == (Tx \/ Rx \/ Damaged \/ Timeout) /\ UNCHANGED constVars
Next == Handle \/ SendNav \/ Lose \/ gps_ubx_init

Spec == Init /\ [][Next]_vars

(* Commands get through or get lost, the boot task runs, and the receiver's *)
(* bursts are followed by pauses again and again.                           *)
FairSpec == Spec /\ WF_vars(Handle) /\ WF_vars((Tx \/ Rx) /\ UNCHANGED constVars)
            /\ SF_vars(Timeout /\ UNCHANGED constVars)

-----------------------------------------------------------------------------
(* Properties. *)

(* Every variable keeps its type; gps_ubx_baudrate_try_all makes no more    *)
(* attempts than rounds times baud rates.                                   *)
TypeOK ==
  /\ world \in Worlds /\ build \in Builds
  /\ pc \in {"try", "set_baud", "retry_115200", "retry_9600", "set_proto", "version", "messages",
             "done"}
  /\ attempt \in 0..(Attempts - 1) /\ try \in 0..Tries
  /\ baud \in Nat /\ frame \in Nat \cup {NULL} /\ {sent, found} \subseteq BOOLEAN
  /\ gps.baud \in Nat /\ gps.out \in {"nmea", "ubx"}
  /\ gps.msgs \subseteq {NavMsgs[i] : i \in DOMAIN NavMsgs}
  /\ result \in BOOLEAN \cup {NULL}

(* The UBX read task starts only over a receiver that speaks UBX at the     *)
(* UART's baud rate, whatever was lost or refused before (gps_ubx_init).    *)
UbxTaskHearsUbx == result = TRUE => gps.baud = baud /\ gps.out = "ubx"

(* A receiver that knows UBX is found at any of the five baud rates, also   *)
(* when it still has the settings of the last boot, and ends at 115200      *)
(* baud with all four messages on, provided nothing is lost and falling off *)
(* the end of gps_ubx_baudrate_try after a success counts as true.          *)
Configured ==
  pc = "done" /\ world = "ublox" /\ build = {TRUE} =>
    /\ result = TRUE /\ baud = 115200 /\ gps.baud = 115200
    /\ gps.msgs = {NavMsgs[i] : i \in DOMAIN NavMsgs}
=============================================================================

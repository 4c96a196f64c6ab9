------------------------------ MODULE GpsClock ------------------------------
(***************************************************************************)
(* How the receiver firmware gets UTC: the pulse-per-second interrupt      *)
(* (gps.c) notes the system time, the read task (gps_ubx.c or gps_nmea.c)  *)
(* learns from the sentences that follow which second that was, and every  *)
(* record is stamped with system time plus the offset (gps.c).  The read   *)
(* task has the lowest priority of all of them: the interrupt and the      *)
(* logging contexts may come between any two of its accesses, so a pc      *)
(* separates them.  Time is counted in seconds, and a 64 bit variable is    *)
(* two words, each known by the value that it is of.                       *)
(***************************************************************************)
EXTENDS Integers, FiniteSets

CONSTANTS
  Protocol,   \* "ubx" or "nmea": the read task init_gps started
  Word,       \* values one machine word of a 64 bit variable can hold
  Day,        \* seconds of a day
  Epoch,      \* UTC when the system time was 0
  PpsMayStop, \* the receiver may leave out pulses
  MaxBehind,  \* bound: seconds the read task may be behind, 0 when it is prompt
  MaxSecond,  \* bound: system time 0..MaxSecond
  NULL

ASSUME ClockAssumption ==
  /\ Protocol \in {"ubx", "nmea"}
  /\ Word \in Nat \ {0} /\ Day \in Nat \ {0} /\ Epoch \in Nat /\ MaxSecond \in Nat
  /\ MaxBehind \in Nat /\ PpsMayStop \in BOOLEAN

VARIABLES
  sys,                  \* esp_timer_get_time
  uart,                 \* sentences sent and not yet read
  gps_recv_time, sys_tick_at_last_pps,
  time_at_last_gga, date_at_last_rmc,
  offset,               \* offset_utc_to_sys_tick, word by word
  gps_time_active,
  rpc, rx,              \* where the read task is, and its sentence
  reg, tick,            \* its registers: flags read by |=, the tick of the pulse
  utc_us, todo,         \* the offset it computed, and the words not yet loaded or stored
  missed, late,         \* history: pulses left out, seconds a frame used was behind
  torn                  \* history: the offset is of two words of different ticks

ppsVars == <<gps_recv_time, sys_tick_at_last_pps>>
nmeaVars == <<time_at_last_gga, date_at_last_rmc>>
readerVars == <<rpc, rx, reg, tick, utc_us, todo>>
vars == <<sys, uart, ppsVars, nmeaVars, offset, gps_time_active, readerVars, missed, late, torn>>

Kinds == IF Protocol = "ubx" THEN {"timeutc"} ELSE {"gga", "rmc"}
GPS_RECV_TIME_ALL == {"pps"} \cup Kinds
Sentence == [kind : Kinds, sec : Nat, valid : BOOLEAN]

Utc(s) == Epoch + s
Half == {"lo", "hi"}
Both(v) == [w \in Half |-> v]
Value(o) == (o["hi"] \div Word) * Word + (o["lo"] % Word)
(* The words are of values with different high words. *)
Torn(o) == o["hi"] \div Word # o["lo"] \div Word

sys_to_gps_time_us(s) == s + Value(offset)

Init ==
  /\ sys = 0 /\ uart = {}
  /\ gps_recv_time = {} /\ sys_tick_at_last_pps = 0
  /\ time_at_last_gga = 0 /\ date_at_last_rmc = 0
  /\ offset = Both(0)
  /\ gps_time_active = FALSE
  /\ rpc = "idle" /\ rx = NULL /\ reg = {} /\ tick = Both(0) /\ utc_us = 0 /\ todo = {}
  /\ missed = 0 /\ late = 0 /\ torn = FALSE

-----------------------------------------------------------------------------
(* Slip: the interrupt adds its bit to those of the last second. *)
gps_pps_isr_handler_Or ==
  /\ sys_tick_at_last_pps' = sys'
  /\ gps_recv_time' = gps_recv_time \cup {"pps"}
(* Slip: a pulse is not noted while the last one has not been used. *)
gps_pps_isr_handler_First ==
  /\ sys_tick_at_last_pps' = IF "pps" \in gps_recv_time THEN sys_tick_at_last_pps ELSE sys'
  /\ gps_recv_time' = {"pps"}
gps_pps_isr_handler ==
  /\ sys_tick_at_last_pps' = sys'
  /\ gps_recv_time' = {"pps"}

(* A new second: the receiver pulses and then sends one sentence per kind;  *)
(* of these some are lost.                                                  *)
Second(out) ==
  /\ sys < MaxSecond /\ sys' = sys + 1
  /\ \A s \in uart : sys' - s.sec <= MaxBehind
  /\ rpc # "idle" => sys' - rx.sec <= MaxBehind
  /\ uart' = uart \cup {[kind |-> k, sec |-> sys', valid |-> out[k]] : k \in DOMAIN out}
  /\ \/ gps_pps_isr_handler /\ UNCHANGED missed
     \/ PpsMayStop /\ UNCHANGED ppsVars /\ missed' = missed + 1
  /\ UNCHANGED <<nmeaVars, offset, gps_time_active, readerVars, late, torn>>

-----------------------------------------------------------------------------
(* The read task. *)

Earliest(s) == \A t \in uart : s.sec <= t.sec

ReceiveTimeutc(s) ==
  /\ s.kind = "timeutc"
  /\ rpc' = "read"
  /\ UNCHANGED <<nmeaVars, gps_time_active>>

(* "$GPGGA" carries the time of day, "$GPRMC" and "$GNRMC" the date.  An    *)
(* empty field clears gps_time_active, at once and whatever the flags.      *)
ReceiveNmea(s) ==
  /\ s.kind \in {"gga", "rmc"}
  /\ IF s.valid
     THEN /\ rpc' = "read"
          /\ IF s.kind = "gga"
             THEN time_at_last_gga' = Utc(s.sec) % Day /\ UNCHANGED date_at_last_rmc
             ELSE date_at_last_rmc' = Utc(s.sec) \div Day /\ UNCHANGED time_at_last_gga
          /\ UNCHANGED gps_time_active
     ELSE rpc' = "idle" /\ gps_time_active' = FALSE /\ UNCHANGED nmeaVars

Receive ==
  /\ rpc = "idle"
  /\ \E s \in uart :
       /\ Earliest(s)
       /\ uart' = uart \ {s} /\ rx' = s
       /\ ReceiveTimeutc(s) \/ ReceiveNmea(s)
  /\ UNCHANGED <<sys, ppsVars, offset, reg, tick, utc_us, todo, missed, late, torn>>

(* gps_recv_time |= bit, then the test of the flag word read again. *)
ReadFlags ==
  /\ rpc = "read"
  /\ reg' = gps_recv_time /\ rpc' = "write"
  /\ UNCHANGED <<gps_recv_time, rx>>

WriteFlags ==
  /\ rpc = "write"
  /\ gps_recv_time' = reg \cup {rx.kind} /\ rpc' = "test"
  /\ UNCHANGED <<reg, rx>>

(* Slip: the flags are tested before the bit of this sentence is in. *)
TestFlags_Before ==
  /\ rpc = "test"
  /\ rpc' = IF reg = GPS_RECV_TIME_ALL THEN "calc" ELSE "idle"
  /\ UNCHANGED <<gps_recv_time, reg, rx>>
TestFlags ==
  /\ rpc = "test"
  /\ rpc' = IF gps_recv_time = GPS_RECV_TIME_ALL THEN "calc" ELSE "idle"
  /\ UNCHANGED <<gps_recv_time, reg, rx>>

Flags ==
  /\ ReadFlags \/ WriteFlags \/ TestFlags
  /\ UNCHANGED <<sys, uart, sys_tick_at_last_pps, nmeaVars, offset, gps_time_active,
                 tick, utc_us, todo, missed, late, torn>>

(* recv_time and calc_offset: the second the sentences name less the system *)
(* time of the last pulse, loaded and stored word by word; then the flag is *)
(* raised and the bits are cleared, by calc_offset in the opposite order.   *)
MkTime == IF Protocol = "ubx" THEN Utc(rx.sec)
                              ELSE date_at_last_rmc * Day + time_at_last_gga

(* Slip: the flag is raised before the offset is stored. *)
Calc_RaiseFirst ==
  /\ rpc = "calc"
  /\ rpc' = "load" /\ todo' = Half /\ gps_time_active' = TRUE
  /\ UNCHANGED <<tick, utc_us, offset, gps_recv_time, late, torn>>
Calc ==
  /\ rpc = "calc"
  /\ IF Protocol = "ubx" /\ ~rx.valid
     THEN rpc' = "clear" /\ gps_time_active' = FALSE /\ UNCHANGED todo
     ELSE rpc' = "load" /\ todo' = Half /\ UNCHANGED gps_time_active
  /\ UNCHANGED <<tick, utc_us, offset, gps_recv_time, late, torn>>

LoadWord ==
  /\ rpc = "load"
  /\ \E w \in todo :
       /\ tick' = [tick EXCEPT ![w] = sys_tick_at_last_pps]
       /\ IF todo = {w}
          THEN /\ rpc' = "store" /\ todo' = Half
               /\ utc_us' = MkTime - Value(tick')
               /\ late' = IF sys - rx.sec > late THEN sys - rx.sec ELSE late
               /\ torn' = (torn \/ Torn(tick'))
          ELSE todo' = todo \ {w} /\ UNCHANGED <<rpc, utc_us, late, torn>>
  /\ UNCHANGED <<offset, gps_time_active, gps_recv_time>>

StoreWord ==
  /\ rpc = "store"
  /\ \E w \in todo :
       /\ offset' = [offset EXCEPT ![w] = utc_us]
       /\ todo' = todo \ {w}
  /\ IF todo' = {}
     THEN rpc' = (IF Protocol = "ubx" THEN "raise" ELSE "clear") /\ torn' = Torn(tick)
     ELSE UNCHANGED <<rpc, torn>>
  /\ UNCHANGED <<tick, gps_time_active, utc_us, gps_recv_time, late>>

Raise ==
  /\ rpc = "raise"
  /\ gps_time_active' = TRUE
  /\ rpc' = IF Protocol = "ubx" THEN "clear" ELSE "idle"
  /\ UNCHANGED <<offset, tick, utc_us, todo, gps_recv_time, late, torn>>

Clear ==
  /\ rpc = "clear"
  /\ gps_recv_time' = {}
  /\ rpc' = IF Protocol = "ubx" THEN "idle" ELSE "raise"
  /\ UNCHANGED <<offset, tick, utc_us, todo, gps_time_active, late, torn>>

Offset ==
  /\ Calc \/ LoadWord \/ StoreWord \/ Raise \/ Clear
  /\ UNCHANGED <<sys, uart, sys_tick_at_last_pps, nmeaVars, rx, reg, missed>>

read_task == Receive \/ Flags \/ Offset

Next ==
  \/ \E K \in SUBSET Kinds : \E out \in [K -> BOOLEAN] : Second(out)
  \/ read_task

Spec == Init /\ [][Next]_vars

(* The read task runs whenever nothing of a higher priority does. *)
FairSpec == Spec /\ WF_vars(read_task)

-----------------------------------------------------------------------------
(* Properties. *)

(* Flags, ticks and registers of the clock keep their types.                *)
TypeOK ==
  /\ sys \in Nat /\ uart \subseteq Sentence
  /\ gps_recv_time \subseteq GPS_RECV_TIME_ALL /\ sys_tick_at_last_pps \in Nat
  /\ time_at_last_gga \in Nat /\ date_at_last_rmc \in Nat
  /\ offset \in [Half -> Int] /\ tick \in [Half -> Nat]
  /\ gps_time_active \in BOOLEAN
  /\ rpc \in {"idle", "read", "write", "test", "calc", "load", "store", "raise", "clear"}
  /\ rpc # "idle" => rx \in Sentence
  /\ reg \subseteq GPS_RECV_TIME_ALL
  /\ utc_us \in Int
  /\ todo \subseteq Half
  /\ missed \in Nat /\ late \in Nat /\ torn \in BOOLEAN

(* Once GPS time is active every timestamp is UTC (log-data.h:49), although *)
(* sentences get lost or come without time: pulse, time of day and date of  *)
(* different seconds are never put together.                                *)
UtcAfterFix == gps_time_active => sys_to_gps_time_us(sys) = Utc(sys)

(* The strengthening: what the flags stand for are the present second's,    *)
(* and the only offset ever computed is the right one.                      *)
FlagsFresh ==
  /\ sys_tick_at_last_pps = sys
  /\ \A s \in uart : s.sec = sys
  /\ rpc # "idle" => rx.sec = sys
  /\ rpc \in {"read", "write", "test", "calc", "load", "store"} =>
       (rx.kind = "gga" => time_at_last_gga = Utc(sys) % Day)
       /\ (rx.kind = "rmc" => date_at_last_rmc = Utc(sys) \div Day)
  /\ "gga" \in gps_recv_time \/ (rpc = "write" /\ "gga" \in reg)
       => time_at_last_gga = Utc(sys) % Day
  /\ "rmc" \in gps_recv_time \/ (rpc = "write" /\ "rmc" \in reg)
       => date_at_last_rmc = Utc(sys) \div Day
  /\ rpc \in {"calc", "load"} => gps_recv_time = GPS_RECV_TIME_ALL
OffsetRight ==
  /\ rpc = "load" => \A w \in Half \ todo : tick[w] = sys
  /\ rpc = "store" => utc_us = Epoch
  /\ rpc = "store" => \A w \in Half \ todo : offset[w] = Epoch
  /\ rpc = "raise" \/ gps_time_active => offset = Both(Epoch)
  /\ rpc = "clear" /\ Protocol = "nmea" => offset = Both(Epoch)
(* Both together, the inductive invariant (gps_recv_time, recv_time).       *)
IInv == TypeOK /\ FlagsFresh /\ OffsetRight

(* A second whose pulse and sentences all come through makes GPS time       *)
(* active with the right offset, whatever was lost before, unless the next  *)
(* pulse overtakes the read task.                                           *)
AllThrough ==
  /\ rpc = "idle" /\ uart = [kind : Kinds, sec : {sys}, valid : {TRUE}]
  /\ gps_recv_time = {"pps"} /\ sys_tick_at_last_pps = sys
GpsTimeHeals ==
  \A s \in 0..MaxSecond :
    (AllThrough /\ sys = s) ~> ((gps_time_active /\ offset = Both(Epoch)) \/ sys # s)

(* A UBX frame that is read only after the next pulse, with the pulse       *)
(* between any two accesses of the read task, sets the clock back, and a    *)
(* pulse left out puts it forward: it is never further behind than the task *)
(* was, nor further ahead than pulses were left out, for a logging context  *)
(* between any two accesses, while an offset is stored over another, too.   *)
(* Where the words of two ticks or of two offsets are put together that is  *)
(* so only when they agree in the high word (gps_recv_time,                 *)
(* sys_tick_at_last_pps, offset_utc_to_sys_tick).                           *)
NearUtc ==
  gps_time_active /\ ~torn /\ ~Torn(offset)
    => sys_to_gps_time_us(sys) - Utc(sys) \in (-late)..missed
=============================================================================

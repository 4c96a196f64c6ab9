--------------------------- MODULE GpsClockProofs ---------------------------
(***************************************************************************)
(* What GpsClock promises for every word size, day length and epoch: UTC,  *)
(* as long as every second has its pulse (~PpsMayStop) and its sentences   *)
(* are read before the next one (MaxBehind = 0), and how far off the clock *)
(* is when frames are late and pulses are left out.                        *)
(***************************************************************************)
EXTENDS GpsClock, TLAPS

(* TypeOK, FlagsFresh and OffsetRight in the parts the proofs use one by one. *)
StampType ==
  /\ sys \in Nat /\ sys_tick_at_last_pps \in Nat
  /\ missed \in Nat /\ late \in Nat /\ torn \in BOOLEAN
UartType == uart \subseteq Sentence
NmeaType == time_at_last_gga \in Nat /\ date_at_last_rmc \in Nat
FlagType ==
  gps_recv_time \subseteq GPS_RECV_TIME_ALL /\ reg \subseteq GPS_RECV_TIME_ALL
OffsetType ==
  /\ offset \in [Half -> Int] /\ tick \in [Half -> Nat]
  /\ utc_us \in Int /\ todo \subseteq Half
ReaderType ==
  /\ gps_time_active \in BOOLEAN
  /\ rpc \in {"idle", "read", "write", "test", "calc", "load", "store", "raise", "clear"}
  /\ rpc # "idle" => rx \in Sentence
UartFresh == \A s \in uart : s.sec = sys
RxFresh ==
  /\ rpc # "idle" => rx.sec = sys
  /\ rpc \in {"read", "write", "test", "calc", "load", "store"} =>
       (rx.kind = "gga" => time_at_last_gga = Utc(sys) % Day)
       /\ (rx.kind = "rmc" => date_at_last_rmc = Utc(sys) \div Day)
BitsFresh ==
  /\ "gga" \in gps_recv_time \/ (rpc = "write" /\ "gga" \in reg)
       => time_at_last_gga = Utc(sys) % Day
  /\ "rmc" \in gps_recv_time \/ (rpc = "write" /\ "rmc" \in reg)
       => date_at_last_rmc = Utc(sys) \div Day
PpsFresh == sys_tick_at_last_pps = sys
AllAtCalc == rpc \in {"calc", "load"} => gps_recv_time = GPS_RECV_TIME_ALL

Parts ==
  /\ StampType /\ UartType /\ NmeaType /\ FlagType /\ OffsetType /\ ReaderType
  /\ UartFresh /\ RxFresh /\ BitsFresh /\ PpsFresh /\ AllAtCalc /\ OffsetRight

(* The parts are the invariant that the runs check. *)
LEMMA PartsIsIInv == Parts <=> IInv
  BY DEF Parts, IInv, TypeOK, FlagsFresh, StampType, UartType, NmeaType, FlagType, OffsetType,
         ReaderType, UartFresh, RxFresh, BitsFresh, PpsFresh, AllAtCalc

(* A number is what its two words say. *)
LEMMA WordsSplit ==
  ASSUME NEW x \in Nat, NEW d \in Nat \ {0}
  PROVE  /\ (x \div d) * d + (x % d) = x
         /\ x % d \in Nat /\ x \div d \in Nat
  OBVIOUS

(* Two words of values with one high word give the value the low one is of. *)
LEMMA ValueOfWords ==
  ASSUME NEW o \in [Half -> Int], ~Torn(o)
  PROVE  Value(o) = o["lo"]
<1>1. o["lo"] \in Int /\ o["hi"] \in Int
  BY DEF Half
<1>2. (o["lo"] \div Word) * Word + (o["lo"] % Word) = o["lo"]
  BY <1>1, ClockAssumption
<1> QED  BY <1>2 DEF Value, Torn

(* So do both words of one value. *)
LEMMA ValueOfBoth ==
  ASSUME NEW v \in Int
  PROVE  Value(Both(v)) = v /\ ~Torn(Both(v)) /\ Both(v) \in [Half -> Int]
<1>1. Both(v) \in [Half -> Int] /\ ~Torn(Both(v)) /\ Both(v)["lo"] = v
  BY DEF Both, Half, Torn
<1> QED  BY <1>1, ValueOfWords

(* Before the first pulse nothing is claimed (gps.c:33-39). *)
LEMMA InitParts ==
  ASSUME Init
  PROVE  Parts
<1>1. StampType /\ UartType /\ NmeaType /\ FlagType /\ ReaderType
  BY DEF Init, StampType, UartType, NmeaType, FlagType, ReaderType, GPS_RECV_TIME_ALL
<1>2. OffsetType
  BY DEF Init, OffsetType, Both
<1>3. UartFresh /\ RxFresh /\ BitsFresh /\ PpsFresh /\ AllAtCalc
  BY DEF Init, UartFresh, RxFresh, BitsFresh, PpsFresh, AllAtCalc
<1>4. OffsetRight
  BY DEF Init, OffsetRight
<1> QED  BY <1>1, <1>2, <1>3, <1>4 DEF Parts

(* A second begins only when the last one's sentences have all been read:   *)
(* the bits of that second go with the pulse.                               *)
LEMMA SecondParts ==
  ASSUME Parts, MaxBehind = 0, ~PpsMayStop,
         NEW K \in SUBSET Kinds, NEW out \in [K -> BOOLEAN], Second(out)
  PROVE  Parts'
<1>0. uart = {} /\ rpc = "idle"
  <2>1. /\ sys' = sys + 1 /\ \A s \in uart : sys' - s.sec <= 0
        /\ rpc # "idle" => sys' - rx.sec <= 0
    BY DEF Second
  <2>2. sys \in Nat /\ (\A s \in uart : s.sec = sys) /\ (rpc # "idle" => rx.sec = sys)
    BY DEF Parts, StampType, UartFresh, RxFresh
  <2>3. ~(sys + 1 - sys <= 0)
    BY <2>2
  <2> QED  BY <2>1, <2>2, <2>3
<1>1. /\ uart = {} /\ rpc = "idle" /\ rpc' = rpc /\ sys' = sys + 1
      /\ sys_tick_at_last_pps' = sys' /\ gps_recv_time' = {"pps"} /\ reg' = reg
      /\ UNCHANGED <<time_at_last_gga, date_at_last_rmc, offset, gps_time_active, tick, utc_us,
                     todo, missed, late, torn>>
  BY <1>0 DEF Second, gps_pps_isr_handler, nmeaVars, readerVars
<1>2. uart' = {[kind |-> k, sec |-> sys', valid |-> out[k]] : k \in DOMAIN out}
  BY <1>1 DEF Second
<1>3. StampType' /\ PpsFresh'
  BY <1>1 DEF Parts, StampType, PpsFresh
<1>4. UartType' /\ UartFresh'
  BY <1>2, <1>3 DEF StampType, UartType, UartFresh, Sentence
<1>5. NmeaType' /\ OffsetType'
  BY <1>1 DEF Parts, NmeaType, OffsetType
<1>6. FlagType' /\ ReaderType'
  BY <1>1 DEF Parts, FlagType, ReaderType, GPS_RECV_TIME_ALL
<1>7. RxFresh' /\ BitsFresh' /\ AllAtCalc'
  BY <1>1 DEF RxFresh, BitsFresh, AllAtCalc
<1>8. OffsetRight'
  BY <1>1 DEF Parts, OffsetRight
<1> QED  BY <1>3, <1>4, <1>5, <1>6, <1>7, <1>8 DEF Parts

(* Time of day and day number are what the NMEA variables hold. *)
LEMMA UtcType == ASSUME StampType PROVE Utc(sys) % Day \in Nat /\ Utc(sys) \div Day \in Nat
<1>1. Utc(sys) \in Nat
  BY ClockAssumption DEF StampType, Utc
<1> QED  BY <1>1, WordsSplit, ClockAssumption

(* A sentence brings its own second's time or date. *)
LEMMA ReceiveParts ==
  ASSUME Parts, Receive
  PROVE  Parts'
<1>1. PICK s \in uart : /\ uart' = uart \ {s} /\ rx' = s
                        /\ ReceiveTimeutc(s) \/ ReceiveNmea(s)
  BY DEF Receive
<1>2. /\ rpc = "idle" /\ rpc' \in {"read", "idle"}
      /\ UNCHANGED <<sys, gps_recv_time, sys_tick_at_last_pps, offset, reg, tick, utc_us, todo,
                     missed, late, torn>>
  BY <1>1 DEF Receive, ReceiveTimeutc, ReceiveNmea, ppsVars
<1>3. s.sec = sys /\ s \in Sentence
  BY <1>1 DEF Parts, UartType, UartFresh
<1>4. /\ gps_time_active' \in {gps_time_active, FALSE}
      /\ time_at_last_gga' \in {time_at_last_gga, Utc(sys) % Day}
      /\ date_at_last_rmc' \in {date_at_last_rmc, Utc(sys) \div Day}
      /\ rpc' = "read" /\ s.kind = "gga" => time_at_last_gga' = Utc(sys) % Day
      /\ rpc' = "read" /\ s.kind = "rmc" => date_at_last_rmc' = Utc(sys) \div Day
  BY <1>1, <1>3 DEF ReceiveTimeutc, ReceiveNmea, nmeaVars
<1>5. StampType' /\ PpsFresh' /\ FlagType' /\ OffsetType'
  BY <1>2 DEF Parts, StampType, PpsFresh, FlagType, OffsetType
<1>6. UartType' /\ UartFresh'
  BY <1>1, <1>2 DEF Parts, UartType, UartFresh
<1>7. NmeaType'
  BY <1>4, UtcType DEF Parts, NmeaType
<1>8. ReaderType'
  BY <1>1, <1>2, <1>3, <1>4 DEF Parts, ReaderType
<1>9. RxFresh'
  BY <1>1, <1>2, <1>3, <1>4 DEF RxFresh, Utc
<1>10. BitsFresh'
  BY <1>2, <1>4 DEF Parts, BitsFresh, Utc
<1>11. AllAtCalc'
  BY <1>2 DEF AllAtCalc
<1>12. OffsetRight'
  <2>1. gps_time_active' => gps_time_active
    BY <1>4
  <2>2. gps_time_active => offset = Both(Epoch)
    BY DEF Parts, OffsetRight
  <2>3. rpc' # "load" /\ rpc' # "store" /\ rpc' # "raise" /\ rpc' # "clear" /\ offset' = offset
    BY <1>2
  <2> QED  BY <2>1, <2>2, <2>3 DEF OffsetRight
<1> QED  BY <1>5, <1>6, <1>7, <1>8, <1>9, <1>10, <1>11, <1>12 DEF Parts

(* Reading, writing and testing the flags: what the task carries in its     *)
(* register is of the second the flags are of.                              *)
LEMMA FlagsParts ==
  ASSUME Parts, Flags
  PROVE  Parts'
<1>1. /\ rpc # "idle" /\ rx' = rx
      /\ UNCHANGED <<sys, uart, sys_tick_at_last_pps, time_at_last_gga, date_at_last_rmc, offset,
                     gps_time_active, tick, utc_us, todo, missed, late, torn>>
  BY DEF Flags, ReadFlags, WriteFlags, TestFlags, nmeaVars
<1>2. StampType' /\ PpsFresh' /\ UartType' /\ UartFresh' /\ NmeaType' /\ OffsetType'
  BY <1>1 DEF Parts, StampType, PpsFresh, UartType, UartFresh, NmeaType, OffsetType
<1>3. rx \in Sentence /\ rx.kind \in Kinds
  BY <1>1 DEF Parts, ReaderType, Sentence
<1>4. RxFresh
  BY DEF Parts
<1>5. CASE ReadFlags
  <2>1. /\ rpc = "read" /\ rpc' = "write" /\ reg' = gps_recv_time
        /\ gps_recv_time' = gps_recv_time
    BY <1>5 DEF ReadFlags
  <2>2. FlagType' /\ ReaderType' /\ AllAtCalc'
    BY <2>1, <1>1, <1>3 DEF Parts, FlagType, ReaderType, AllAtCalc
  <2>3. RxFresh'
    BY <2>1, <1>1, <1>4 DEF RxFresh, Utc
  <2>4. BitsFresh'
    BY <2>1, <1>1 DEF Parts, BitsFresh, Utc
  <2>5. OffsetRight'
    BY <2>1, <1>1 DEF Parts, OffsetRight
  <2> QED  BY <1>2, <2>2, <2>3, <2>4, <2>5 DEF Parts
<1>6. CASE WriteFlags
  <2>1. /\ rpc = "write" /\ rpc' = "test" /\ reg' = reg
        /\ gps_recv_time' = reg \cup {rx.kind}
    BY <1>6 DEF WriteFlags
  <2>2. FlagType' /\ ReaderType' /\ AllAtCalc'
    BY <2>1, <1>1, <1>3 DEF Parts, FlagType, ReaderType, AllAtCalc, GPS_RECV_TIME_ALL
  <2>3. RxFresh'
    BY <2>1, <1>1, <1>4 DEF RxFresh, Utc
  <2>4. BitsFresh'
    BY <2>1, <1>1, <1>4 DEF Parts, BitsFresh, RxFresh, Utc
  <2>5. OffsetRight'
    BY <2>1, <1>1 DEF Parts, OffsetRight
  <2> QED  BY <1>2, <2>2, <2>3, <2>4, <2>5 DEF Parts
<1>7. CASE TestFlags
  <2>1. /\ rpc = "test" /\ rpc' \in {"calc", "idle"} /\ reg' = reg
        /\ gps_recv_time' = gps_recv_time
        /\ rpc' = "calc" => gps_recv_time = GPS_RECV_TIME_ALL
    BY <1>7 DEF TestFlags
  <2>2. FlagType' /\ ReaderType' /\ AllAtCalc'
    BY <2>1, <1>1, <1>3 DEF Parts, FlagType, ReaderType, AllAtCalc, GPS_RECV_TIME_ALL, Kinds
  <2>3. RxFresh'
    BY <2>1, <1>1, <1>4 DEF RxFresh, Utc
  <2>4. BitsFresh'
    BY <2>1, <1>1 DEF Parts, BitsFresh, Utc
  <2>5. OffsetRight'
    BY <2>1, <1>1 DEF Parts, OffsetRight
  <2> QED  BY <1>2, <2>2, <2>3, <2>4, <2>5 DEF Parts
<1> QED  BY <1>5, <1>6, <1>7 DEF Flags

(* With all bits set, pulse, time and date are this second's: the task      *)
(* computes the epoch whatever second it is.                                *)
LEMMA CalcRight ==
  ASSUME Parts, rpc = "load"
  PROVE  MkTime - sys = Epoch
<1>1. sys \in Nat /\ rx.sec = sys
  BY DEF Parts, StampType, RxFresh
<1>2. Utc(sys) = Epoch + sys /\ Utc(sys) \in Nat
  BY <1>1, ClockAssumption DEF Utc
<1>3. CASE Protocol = "ubx"
  BY <1>1, <1>2, <1>3, ClockAssumption DEF MkTime
<1>4. CASE Protocol = "nmea"
  <2>1. "gga" \in gps_recv_time /\ "rmc" \in gps_recv_time
    BY <1>4 DEF Parts, AllAtCalc, GPS_RECV_TIME_ALL, Kinds
  <2>2. /\ time_at_last_gga = Utc(sys) % Day
        /\ date_at_last_rmc = Utc(sys) \div Day
    BY <2>1 DEF Parts, BitsFresh
  <2>3. date_at_last_rmc * Day + time_at_last_gga = Utc(sys)
    BY <2>2, <1>2, WordsSplit, ClockAssumption
  <2>4. MkTime = Utc(sys)
    BY <2>3, <1>4 DEF MkTime
  <2> QED  BY <2>4, <1>1, <1>2, ClockAssumption
<1> QED  BY <1>3, <1>4, ClockAssumption

(* With the last word to load or store both are of the one value. *)
LEMMA WordRight ==
  ASSUME NEW x, NEW y, NEW S, x \in [Half -> S], NEW v \in S, todo \subseteq Half,
         \A h \in Half \ todo : x[h] = v,
         NEW w \in todo, y = [x EXCEPT ![w] = v]
  PROVE  /\ y \in [Half -> S] /\ \A h \in Half \ (todo \ {w}) : y[h] = v
         /\ todo \ {w} = {} => y = Both(v)
         /\ x = Both(v) => y = Both(v)
<1>1. y \in [Half -> S] /\ \A h \in Half : y[h] = IF h = w THEN v ELSE x[h]
  OBVIOUS
<1>2. \A h \in Half \ (todo \ {w}) : y[h] = v
  BY <1>1
<1>3. Both(v) \in [Half -> S] /\ \A h \in Half : Both(v)[h] = v
  BY DEF Both
<1>4. ASSUME \A h \in Half : y[h] = v PROVE y = Both(v)
  BY <1>1, <1>3, <1>4
<1> QED  BY <1>1, <1>2, <1>3, <1>4

(* recv_time and calc_offset store only the right offset, word by word,      *)
(* and raise gps_time_active only over a complete one.                      *)
LEMMA OffsetParts ==
  ASSUME Parts, Offset
  PROVE  Parts'
<1>1. /\ rpc # "idle" /\ rx' = rx /\ reg' = reg
      /\ UNCHANGED <<sys, uart, sys_tick_at_last_pps, time_at_last_gga, date_at_last_rmc,
                     missed>>
  BY DEF Offset, Calc, LoadWord, StoreWord, Raise, Clear, nmeaVars
<1>h. late' \in Nat /\ torn' \in BOOLEAN
  <2>1. late \in Nat /\ torn \in BOOLEAN /\ sys \in Nat /\ rx.sec = sys
    BY <1>1 DEF Parts, StampType, RxFresh
  <2>2. late' \in {late, sys - rx.sec} /\ sys - rx.sec \in Nat
    BY <2>1 DEF Offset, Calc, LoadWord, StoreWord, Raise, Clear
  <2>3. torn' \in {torn, torn \/ Torn(tick'), Torn(tick)}
    BY DEF Offset, Calc, LoadWord, StoreWord, Raise, Clear
  <2>4. (torn \/ Torn(tick')) \in BOOLEAN /\ Torn(tick) \in BOOLEAN
    BY <2>1 DEF Torn
  <2> QED  BY <2>1, <2>2, <2>3, <2>4
<1>2. StampType' /\ PpsFresh' /\ UartType' /\ UartFresh' /\ NmeaType'
  BY <1>1, <1>h DEF Parts, StampType, PpsFresh, UartType, UartFresh, NmeaType
<1>3. rx \in Sentence /\ rx.kind \in Kinds
  BY <1>1 DEF Parts, ReaderType, Sentence
<1>4. gps_recv_time' \in {gps_recv_time, {}}
  BY DEF Offset, Calc, LoadWord, StoreWord, Raise, Clear
<1>5. /\ rpc' \in {"load", "store", "raise", "clear", "idle"}
      /\ rpc' = "load" => rpc \in {"calc", "load"} /\ gps_recv_time' = gps_recv_time
  BY DEF Offset, Calc, LoadWord, StoreWord, Raise, Clear
<1>6. FlagType' /\ BitsFresh' /\ AllAtCalc'
  BY <1>1, <1>4, <1>5 DEF Parts, FlagType, BitsFresh, AllAtCalc, Utc
<1>7. rpc \in {"calc", "load", "store"} \/ rpc' \notin {"load", "store"}
  BY DEF Offset, Calc, LoadWord, StoreWord, Raise, Clear
<1>8. RxFresh'
  BY <1>1, <1>5, <1>7 DEF Parts, RxFresh, Utc
<1>9. CASE Calc
  <2>1. /\ rpc = "calc" /\ offset' = offset /\ utc_us' = utc_us /\ tick' = tick
    BY <1>9 DEF Calc
  <2>2. gps_time_active => offset = Both(Epoch)
    BY DEF Parts, OffsetRight
  <2>3. CASE Protocol = "ubx" /\ ~rx.valid
    <3>1. rpc' = "clear" /\ gps_time_active' = FALSE /\ todo' = todo /\ Protocol # "nmea"
      BY <1>9, <2>3 DEF Calc
    <3>2. OffsetType' /\ ReaderType'
      BY <3>1, <2>1, <1>1, <1>3 DEF Parts, OffsetType, ReaderType
    <3>3. OffsetRight'
      BY <3>1 DEF OffsetRight
    <3> QED  BY <3>2, <3>3, <1>2, <1>6, <1>8 DEF Parts
  <2>4. CASE ~(Protocol = "ubx" /\ ~rx.valid)
    <3>1. rpc' = "load" /\ gps_time_active' = gps_time_active /\ todo' = Half
      BY <1>9, <2>4 DEF Calc
    <3>2. OffsetType' /\ ReaderType'
      BY <3>1, <2>1, <1>1, <1>3 DEF Parts, OffsetType, ReaderType
    <3>3. OffsetRight'
      BY <3>1, <2>1, <2>2 DEF OffsetRight
    <3> QED  BY <3>2, <3>3, <1>2, <1>6, <1>8 DEF Parts
  <2> QED  BY <2>3, <2>4
<1>a. CASE LoadWord
  <2>1. rpc = "load" /\ offset' = offset /\ gps_time_active' = gps_time_active
    BY <1>a DEF LoadWord
  <2>2. /\ sys_tick_at_last_pps = sys /\ sys \in Nat /\ Epoch \in Nat
        /\ tick \in [Half -> Nat] /\ todo \subseteq Half /\ utc_us \in Int
        /\ \A w \in Half \ todo : tick[w] = sys
        /\ gps_time_active => offset = Both(Epoch)
    BY <2>1, ClockAssumption DEF Parts, PpsFresh, StampType, OffsetType, OffsetRight
  <2>3. PICK w \in todo :
          /\ tick' = [tick EXCEPT ![w] = sys]
          /\ \/ todo = {w} /\ rpc' = "store" /\ todo' = Half /\ utc_us' = MkTime - Value(tick')
             \/ todo' = todo \ {w} /\ rpc' = rpc /\ utc_us' = utc_us
    BY <1>a, <2>2 DEF LoadWord
  <2>4. /\ tick' \in [Half -> Nat] /\ \A h \in Half \ (todo \ {w}) : tick'[h] = sys
        /\ todo \ {w} = {} => tick' = Both(sys)
    BY <2>2, <2>3, WordRight
  <2>5. CASE todo = {w} /\ rpc' = "store" /\ todo' = Half /\ utc_us' = MkTime - Value(tick')
    <3>1. tick' = Both(sys)
      BY <2>4, <2>5
    <3>2. Value(tick') = sys
      BY <3>1, <2>2, ValueOfBoth
    <3>3. utc_us' = Epoch
      BY <3>2, <2>1, <2>5, CalcRight
    <3>4. OffsetType' /\ ReaderType'
      BY <3>3, <2>1, <2>2, <2>4, <2>5, <1>1, <1>3 DEF Parts, OffsetType, ReaderType
    <3>5. OffsetRight'
      BY <3>3, <2>1, <2>2, <2>5 DEF OffsetRight
    <3> QED  BY <3>4, <3>5, <1>2, <1>6, <1>8 DEF Parts
  <2>6. CASE todo' = todo \ {w} /\ rpc' = rpc /\ utc_us' = utc_us
    <3>1. OffsetType' /\ ReaderType'
      BY <2>1, <2>2, <2>4, <2>6, <1>1, <1>3 DEF Parts, OffsetType, ReaderType
    <3>2. OffsetRight'
      BY <2>1, <2>2, <2>4, <2>6, <1>1 DEF OffsetRight
    <3> QED  BY <3>1, <3>2, <1>2, <1>6, <1>8 DEF Parts
  <2> QED  BY <2>3, <2>5, <2>6
<1>10. CASE StoreWord
  <2>1. /\ rpc = "store" /\ gps_time_active' = gps_time_active /\ utc_us' = utc_us
        /\ tick' = tick
        /\ rpc' = "store" \/ (todo' = {} /\ rpc' \in {"raise", "clear"})
    BY <1>10 DEF StoreWord
  <2>2. utc_us = Epoch /\ \A w \in Half \ todo : offset[w] = Epoch
    BY <2>1 DEF Parts, OffsetRight
  <2>3. PICK w \in todo : offset' = [offset EXCEPT ![w] = Epoch] /\ todo' = todo \ {w}
    BY <1>10, <2>2 DEF StoreWord
  <2>4. /\ offset \in [Half -> Int] /\ todo \subseteq Half /\ Epoch \in Int
        /\ tick \in [Half -> Nat]
    BY ClockAssumption DEF Parts, OffsetType
  <2>r. /\ offset' \in [Half -> Int]
        /\ \A h \in Half \ (todo \ {w}) : offset'[h] = Epoch
        /\ todo \ {w} = {} => offset' = Both(Epoch)
        /\ offset = Both(Epoch) => offset' = Both(Epoch)
    <3>1. /\ offset \in [Half -> Int] /\ Epoch \in Int /\ todo \subseteq Half
          /\ \A h \in Half \ todo : offset[h] = Epoch
      BY <2>2, <2>4
    <3>2. offset' = [offset EXCEPT ![w] = Epoch] /\ w \in todo
      BY <2>3
    <3> HIDE <2>3
    <3> QED  BY <3>1, <3>2, WordRight
  <2>5. /\ offset' \in [Half -> Int]
        /\ \A h \in Half \ todo' : offset'[h] = Epoch
        /\ todo' = {} => offset' = Both(Epoch)
        /\ offset = Both(Epoch) => offset' = Both(Epoch)
    BY <2>r, <2>3
  <2>6. OffsetType' /\ ReaderType'
    BY <2>1, <2>2, <2>3, <2>4, <2>5, <1>1, <1>3 DEF Parts, OffsetType, ReaderType
  <2>7. gps_time_active => offset = Both(Epoch)
    BY DEF Parts, OffsetRight
  <2>8. OffsetRight'
    BY <2>1, <2>2, <2>5, <2>7 DEF OffsetRight
  <2> QED  BY <2>6, <2>8, <1>2, <1>6, <1>8 DEF Parts
<1>11. CASE Raise
  <2>1. /\ rpc = "raise" /\ gps_time_active' = TRUE /\ rpc' \in {"clear", "idle"}
        /\ offset' = offset /\ utc_us' = utc_us /\ todo' = todo /\ tick' = tick
    BY <1>11 DEF Raise
  <2>2. offset = Both(Epoch)
    BY <2>1 DEF Parts, OffsetRight
  <2>3. OffsetType' /\ ReaderType'
    BY <2>1, <1>1, <1>3 DEF Parts, OffsetType, ReaderType
  <2>4. OffsetRight'
    BY <2>1, <2>2 DEF OffsetRight
  <2> QED  BY <2>3, <2>4, <1>2, <1>6, <1>8 DEF Parts
<1>12. CASE Clear
  <2>1. /\ rpc = "clear" /\ gps_time_active' = gps_time_active
        /\ rpc' = IF Protocol = "ubx" THEN "idle" ELSE "raise"
        /\ offset' = offset /\ utc_us' = utc_us /\ todo' = todo /\ tick' = tick
    BY <1>12 DEF Clear
  <2>2. gps_time_active => offset = Both(Epoch)
    BY DEF Parts, OffsetRight
  <2>3. Protocol = "nmea" => offset = Both(Epoch)
    BY <2>1 DEF Parts, OffsetRight
  <2>4. OffsetType' /\ ReaderType'
    BY <2>1, <1>1, <1>3 DEF Parts, OffsetType, ReaderType
  <2>5. OffsetRight'
    BY <2>1, <2>2, <2>3, ClockAssumption DEF OffsetRight
  <2> QED  BY <2>4, <2>5, <1>2, <1>6, <1>8 DEF Parts
<1> QED  BY <1>9, <1>a, <1>10, <1>11, <1>12 DEF Offset

(* Nothing else moves the variables of the invariant. *)
LEMMA StutterParts ==
  ASSUME Parts, UNCHANGED vars
  PROVE  Parts'
<1>1. UNCHANGED <<sys, uart, gps_recv_time, sys_tick_at_last_pps, time_at_last_gga,
                  date_at_last_rmc, offset, gps_time_active, rpc, rx, reg, tick,
                  utc_us, todo, missed, late, torn>>
  BY DEF vars, ppsVars, nmeaVars, readerVars
<1>2. (StampType /\ UartType /\ NmeaType /\ FlagType /\ OffsetType /\ ReaderType)'
  BY <1>1 DEF Parts, StampType, UartType, NmeaType, FlagType, OffsetType, ReaderType
<1>3. (UartFresh /\ RxFresh /\ BitsFresh /\ PpsFresh /\ AllAtCalc /\ OffsetRight)'
  BY <1>1 DEF Parts, UartFresh, RxFresh, BitsFresh, PpsFresh, AllAtCalc, OffsetRight, Utc
<1> QED  BY <1>2, <1>3 DEF Parts

-----------------------------------------------------------------------------
(* The invariant holds: what the flags stand for is always of the present   *)
(* second, and the only offset ever computed is the right one (recv_time,   *)
(* calc_offset).                                                            *)
THEOREM ClockInvariance ==
  ASSUME MaxBehind = 0, ~PpsMayStop
  PROVE  Spec => []IInv
<1>1. Init => Parts
  BY InitParts
<1>2. Parts /\ [Next]_vars => Parts'
  <2> SUFFICES ASSUME Parts, [Next]_vars PROVE Parts'
    OBVIOUS
  <2>1. CASE \E K \in SUBSET Kinds : \E out \in [K -> BOOLEAN] : Second(out)
    BY <2>1, SecondParts
  <2>2. CASE Receive
    BY <2>2, ReceiveParts
  <2>3. CASE Flags
    BY <2>3, FlagsParts
  <2>4. CASE Offset
    BY <2>4, OffsetParts
  <2>5. CASE UNCHANGED vars
    BY <2>5, StutterParts
  <2> QED  BY <2>1, <2>2, <2>3, <2>4, <2>5 DEF Next, read_task
<1>3. Parts => IInv
  BY PartsIsIInv
<1> QED  BY <1>1, <1>2, <1>3, PTL DEF Spec

(* Every timestamp taken while GPS time is active is UTC                    *)
(* (sys_to_gps_time_us, log-data.h:49), although interrupt and logging come *)
(* between any two accesses of the read task.                               *)
THEOREM UtcAfterFixHolds ==
  ASSUME MaxBehind = 0, ~PpsMayStop
  PROVE  Spec => []UtcAfterFix
<1>1. Spec => []IInv
  BY ClockInvariance
<1>2. IInv => UtcAfterFix
  <2> SUFFICES ASSUME IInv, gps_time_active PROVE sys_to_gps_time_us(sys) = Utc(sys)
    BY DEF UtcAfterFix
  <2>1. offset = Both(Epoch) /\ sys \in Nat
    BY DEF IInv, OffsetRight, TypeOK
  <2>2. Value(offset) = Epoch
    BY <2>1, ValueOfBoth, ClockAssumption
  <2> QED  BY <2>1, <2>2, ClockAssumption DEF sys_to_gps_time_us, Utc
<1> QED  BY <1>1, <1>2, PTL

-----------------------------------------------------------------------------
(* UBX frames that are read late, and pulses left out. *)

(* An offset is off by the seconds from the pulse that the task has used to *)
(* the frame: back by the most that a frame was behind, forward by the      *)
(* pulses left out.                                                         *)
Near(d) == d >= -late /\ d <= missed
LateTypes ==
  /\ sys \in Nat /\ sys_tick_at_last_pps \in Nat
  /\ missed \in Nat /\ late \in Nat /\ torn \in BOOLEAN
  /\ uart \subseteq Sentence /\ gps_time_active \in BOOLEAN
  /\ rpc \in {"idle", "read", "write", "test", "calc", "load", "store", "raise", "clear"}
  /\ rpc # "idle" => rx \in Sentence
  /\ offset \in [Half -> Int] /\ tick \in [Half -> Nat]
  /\ utc_us \in Int /\ todo \subseteq Half
(* Every second since the last pulse is one left out; no frame comes early. *)
LastPulse == sys_tick_at_last_pps <= sys /\ sys - sys_tick_at_last_pps <= missed
FrameOfLate ==
  /\ \A s \in uart : s.sec <= sys
  /\ rpc # "idle" => rx.sec <= sys
(* A word of the tick, of this pulse or of the last one. *)
NearTick(t) == t <= sys /\ rx.sec - t <= missed
LoadNear == rpc = "load" => \A h \in Half \ todo : NearTick(tick[h])
StoreNear ==
  rpc = "store" =>
    /\ Torn(tick) => torn
    /\ ~Torn(tick) => Near(utc_us - Epoch)
    /\ \A h \in Half \ todo : offset[h] = utc_us
OffsetNear ==
  (rpc = "raise" \/ gps_time_active) /\ ~torn => \A h \in Half : Near(offset[h] - Epoch)
LateInv ==
  LateTypes /\ LastPulse /\ FrameOfLate /\ LoadNear /\ StoreNear /\ OffsetNear

(* Before the first pulse nothing is off. *)
LEMMA LateInit == Init => LateInv
<1> SUFFICES ASSUME Init PROVE LateInv
  OBVIOUS
<1>1. Both(0) \in [Half -> Int] /\ Both(0) \in [Half -> Nat]
  BY DEF Both
<1>2. rpc = "idle" /\ gps_time_active = FALSE
  BY DEF Init
<1>3. LateTypes
  <2>1. /\ sys \in Nat /\ sys_tick_at_last_pps \in Nat /\ utc_us \in Int
        /\ missed \in Nat /\ late \in Nat
    BY DEF Init
  <2>2. gps_time_active \in BOOLEAN /\ torn \in BOOLEAN
    BY DEF Init
  <2>3. uart \subseteq Sentence /\ todo \subseteq Half
    BY DEF Init
  <2>4. offset \in [Half -> Int] /\ tick \in [Half -> Nat]
    BY <1>1 DEF Init
  <2> QED  BY <1>2, <2>1, <2>2, <2>3, <2>4 DEF LateTypes
<1>4. LastPulse /\ FrameOfLate
  BY DEF Init, LastPulse, FrameOfLate
<1>5. LoadNear /\ StoreNear /\ OffsetNear
  BY <1>2 DEF LoadNear, StoreNear, OffsetNear
<1> QED  BY <1>3, <1>4, <1>5 DEF LateInv

(* What was near is so with more frames late and more pulses left out. *)
LEMMA NearStays ==
  ASSUME NEW d \in Int, NEW l \in Nat, NEW m \in Nat, NEW l1 \in Nat, NEW m1 \in Nat,
         d >= -l, d <= m, l <= l1, m <= m1
  PROVE  d >= -l1 /\ d <= m1
  OBVIOUS

(* A new second: a pulse is this second's, one that is left out is counted, *)
(* and the frame the task has goes on falling behind (gps_pps_isr_handler). *)
LEMMA LateSecond ==
  ASSUME LateInv, NEW K \in SUBSET Kinds, NEW out \in [K -> BOOLEAN], Second(out)
  PROVE  LateInv'
<1>1. /\ sys' = sys + 1
      /\ UNCHANGED <<offset, gps_time_active, rpc, rx, tick, utc_us, todo, late, torn>>
  BY DEF Second, readerVars
<1>2. uart' = uart \cup {[kind |-> k, sec |-> sys', valid |-> out[k]] : k \in DOMAIN out}
  BY DEF Second
<1>3. \/ sys_tick_at_last_pps' = sys' /\ missed' = missed
      \/ sys_tick_at_last_pps' = sys_tick_at_last_pps /\ missed' = missed + 1
  BY DEF Second, gps_pps_isr_handler, ppsVars
<1>4. LateTypes /\ LastPulse /\ FrameOfLate /\ LoadNear /\ StoreNear /\ OffsetNear
  BY DEF LateInv
<1>5. sys \in Nat /\ sys_tick_at_last_pps \in Nat /\ missed \in Nat /\ late \in Nat
  BY <1>4 DEF LateTypes
<1>6. sys' \in Nat /\ sys_tick_at_last_pps' \in Nat /\ missed' \in Nat /\ missed <= missed'
  BY <1>1, <1>3, <1>5
<1>7. uart' \subseteq Sentence /\ \A s \in uart' : s.sec <= sys'
  <2>1. \A s \in uart : s \in Sentence /\ s.sec \in Nat /\ s.sec <= sys
    BY <1>4 DEF LateTypes, FrameOfLate, Sentence
  <2>2. \A k \in DOMAIN out : [kind |-> k, sec |-> sys', valid |-> out[k]] \in Sentence
    BY <1>6 DEF Sentence
  <2>3. \A s \in uart : s.sec <= sys'
    BY <2>1, <1>1, <1>5
  <2>4. \A k \in DOMAIN out : [kind |-> k, sec |-> sys', valid |-> out[k]].sec <= sys'
    BY <1>6
  <2> QED  BY <2>1, <2>2, <2>3, <2>4, <1>2
<1>8. LateTypes'
  BY <1>1, <1>4, <1>6, <1>7 DEF LateTypes
<1>9. LastPulse'
  BY <1>1, <1>3, <1>4, <1>5 DEF LastPulse
<1>r. rpc # "idle" => rx.sec \in Nat /\ rx.sec <= sys
  BY <1>4 DEF LateTypes, FrameOfLate, Sentence
<1>10. FrameOfLate'
  BY <1>1, <1>5, <1>7, <1>r DEF FrameOfLate
<1>11. LoadNear'
  <2> SUFFICES ASSUME rpc = "load", NEW h \in Half \ todo
               PROVE  tick[h] <= sys' /\ rx.sec - tick[h] <= missed'
    BY <1>1 DEF LoadNear, NearTick
  <2>1. tick[h] \in Nat /\ tick[h] <= sys /\ rx.sec - tick[h] <= missed /\ rx.sec \in Nat
    BY <1>4, <1>r DEF LoadNear, NearTick, LateTypes
  <2> QED  BY <2>1, <1>1, <1>5, <1>6
<1>12. StoreNear'
  <2> SUFFICES ASSUME rpc = "store"
               PROVE  /\ Torn(tick) => torn
                      /\ ~Torn(tick) => (Near(utc_us - Epoch))'
                      /\ \A h \in Half \ todo : offset[h] = utc_us
    BY <1>1 DEF StoreNear, Torn
  <2>1. /\ Torn(tick) => torn
        /\ ~Torn(tick) => Near(utc_us - Epoch)
        /\ \A h \in Half \ todo : offset[h] = utc_us
    BY <1>4 DEF StoreNear
  <2>2. utc_us - Epoch \in Int /\ utc_us' - Epoch = utc_us - Epoch
    BY <1>1, <1>4, ClockAssumption DEF LateTypes
  <2>3. ASSUME ~Torn(tick) PROVE (Near(utc_us - Epoch))'
    BY <2>1, <2>2, <2>3, <1>1, <1>5, <1>6, NearStays DEF Near
  <2> QED  BY <2>1, <2>3
<1>13. OffsetNear'
  <2> SUFFICES ASSUME rpc = "raise" \/ gps_time_active, ~torn, NEW h \in Half
               PROVE  (Near(offset[h] - Epoch))'
    BY <1>1 DEF OffsetNear, Near
  <2>1. Near(offset[h] - Epoch)
    BY <1>4 DEF OffsetNear
  <2>2. offset[h] - Epoch \in Int /\ offset'[h] - Epoch = offset[h] - Epoch
    BY <1>1, <1>4, ClockAssumption DEF LateTypes
  <2> QED  BY <2>1, <2>2, <1>1, <1>5, <1>6, NearStays DEF Near
<1> QED  BY <1>8, <1>9, <1>10, <1>11, <1>12, <1>13 DEF LateInv

(* A frame that is received is one that was on its way. *)
LEMMA LateReceive == ASSUME LateInv, Receive PROVE LateInv'
<1>1. PICK s \in uart : /\ uart' = uart \ {s} /\ rx' = s
                        /\ ReceiveTimeutc(s) \/ ReceiveNmea(s)
  BY DEF Receive
<1>2. /\ rpc = "idle" /\ rpc' \in {"read", "idle"}
      /\ gps_time_active' \in {gps_time_active, FALSE}
      /\ UNCHANGED <<sys, sys_tick_at_last_pps, offset, tick, utc_us, todo, missed, late, torn>>
  BY <1>1 DEF Receive, ReceiveTimeutc, ReceiveNmea, ppsVars
<1>3. LateTypes /\ LastPulse /\ FrameOfLate /\ OffsetNear
  BY DEF LateInv
<1>4. LateTypes' /\ FrameOfLate'
  BY <1>1, <1>2, <1>3 DEF LateTypes, FrameOfLate
<1>5. LastPulse' /\ LoadNear' /\ StoreNear'
  BY <1>2, <1>3 DEF LastPulse, LoadNear, StoreNear
<1>6. OffsetNear'
  BY <1>2, <1>3 DEF OffsetNear, Near
<1> QED  BY <1>4, <1>5, <1>6 DEF LateInv

(* The flags decide only whether an offset is computed. *)
LEMMA LateFlags == ASSUME LateInv, Flags PROVE LateInv'
<1>1. /\ rpc # "idle" /\ rpc # "raise" /\ rx' = rx
      /\ rpc' \in {"write", "test", "calc", "idle"}
      /\ UNCHANGED <<sys, uart, sys_tick_at_last_pps, offset, gps_time_active, tick, utc_us, todo,
                     missed, late, torn>>
  BY DEF Flags, ReadFlags, WriteFlags, TestFlags
<1>2. LateTypes' /\ LastPulse' /\ FrameOfLate'
  BY <1>1 DEF LateInv, LateTypes, LastPulse, FrameOfLate
<1>3. LoadNear' /\ StoreNear'
  BY <1>1 DEF LoadNear, StoreNear
<1>4. OffsetNear'
  BY <1>1 DEF LateInv, OffsetNear, Near
<1> QED  BY <1>2, <1>3, <1>4 DEF LateInv

(* The words of the tick are of pulses not after this second, and the frame *)
(* is not ahead of them by more than the pulses left out; if they make one  *)
(* tick, the offset from it is near (calc_offset).                          *)
LEMMA LateLoad == ASSUME Protocol = "ubx", LateInv, LoadWord,
                         UNCHANGED <<sys, uart, sys_tick_at_last_pps, rx, missed>>
                  PROVE  LateInv'
<1>1. LateTypes /\ LastPulse /\ FrameOfLate /\ LoadNear /\ OffsetNear
  BY DEF LateInv
<1>2. rpc = "load" /\ offset' = offset /\ gps_time_active' = gps_time_active
  BY DEF LoadWord
<1>3. PICK w \in todo :
        /\ tick' = [tick EXCEPT ![w] = sys_tick_at_last_pps]
        /\ IF todo = {w}
           THEN /\ rpc' = "store" /\ todo' = Half
                /\ utc_us' = MkTime - Value(tick')
                /\ late' = IF sys - rx.sec > late THEN sys - rx.sec ELSE late
                /\ torn' = (torn \/ Torn(tick'))
           ELSE /\ todo' = todo \ {w} /\ rpc' = rpc
                /\ utc_us' = utc_us /\ late' = late /\ torn' = torn
  BY DEF LoadWord
<1>4. /\ sys \in Nat /\ sys_tick_at_last_pps \in Nat /\ missed \in Nat /\ late \in Nat
      /\ torn \in BOOLEAN /\ tick \in [Half -> Nat] /\ todo \subseteq Half /\ utc_us \in Int
      /\ rx \in Sentence /\ rx.sec \in Nat /\ rx.sec <= sys /\ offset \in [Half -> Int]
  BY <1>1, <1>2 DEF LateTypes, FrameOfLate, Sentence
<1>5. /\ tick' \in [Half -> Nat]
      /\ \A h \in Half : tick'[h] = IF h = w THEN sys_tick_at_last_pps ELSE tick[h]
  BY <1>3, <1>4
<1>6. NearTick(sys_tick_at_last_pps)
  BY <1>1, <1>4 DEF NearTick, LastPulse
<1>7. \A h \in Half \ (todo \ {w}) : NearTick(tick'[h])
  BY <1>1, <1>2, <1>5, <1>6 DEF LoadNear
<1>8. LastPulse' /\ FrameOfLate'
  BY <1>1, <1>2 DEF LastPulse, FrameOfLate
<1>9. CASE todo = {w}
  <2>1. /\ rpc' = "store" /\ todo' = Half /\ utc_us' = MkTime - Value(tick')
        /\ late' = IF sys - rx.sec > late THEN sys - rx.sec ELSE late
        /\ torn' = (torn \/ Torn(tick'))
    BY <1>3, <1>9
  <2>2. late' \in Nat /\ late <= late' /\ sys - rx.sec <= late'
    BY <2>1, <1>4
  <2>3. torn' \in BOOLEAN /\ (torn => torn') /\ (Torn(tick') => torn')
    BY <2>1, <1>4 DEF Torn
  <2>4. MkTime = Epoch + rx.sec
    BY DEF MkTime, Utc
  <2>5. tick'["lo"] \in Nat /\ tick'["hi"] \in Nat /\ tick' \in [Half -> Int]
    BY <1>5 DEF Half
  <2>6. Value(tick') \in Int
    BY <2>5, ClockAssumption DEF Value
  <2>7. utc_us' \in Int
    BY <2>1, <2>4, <2>6, <1>4, ClockAssumption
  <2>8. LateTypes'
    BY <2>1, <2>2, <2>3, <2>7, <1>1, <1>2, <1>4, <1>5 DEF LateTypes
  <2>9. ASSUME ~Torn(tick') PROVE (-late') <= utc_us' - Epoch /\ utc_us' - Epoch <= missed
    <3>1. Value(tick') = tick'["lo"]
      BY <2>5, <2>9, ValueOfWords
    <3>2. "lo" \in Half \ (todo \ {w})
      BY <1>9 DEF Half
    <3>3. tick'["lo"] <= sys /\ rx.sec - tick'["lo"] <= missed
      BY <3>2, <1>7 DEF NearTick
    <3>4. utc_us' - Epoch = rx.sec - tick'["lo"]
      BY <3>1, <2>1, <2>4, <2>5, <1>4, ClockAssumption
    <3> QED  BY <3>3, <3>4, <2>2, <2>5, <1>4
  <2>10. StoreNear'
    <3>1. Half \ todo' = {}
      BY <2>1
    <3>2. ~Torn(tick') => (Near(utc_us - Epoch))'
      BY <2>2, <2>7, <2>9, <1>4, ClockAssumption DEF Near
    <3> QED  BY <3>1, <3>2, <2>3 DEF StoreNear, Torn
  <2>11. OffsetNear'
    <3> SUFFICES ASSUME gps_time_active, ~torn', NEW h \in Half
                 PROVE  (Near(offset[h] - Epoch))'
      BY <1>2, <2>1 DEF OffsetNear, Near
    <3>1. Near(offset[h] - Epoch)
      BY <2>3, <1>1 DEF OffsetNear
    <3>2. offset[h] - Epoch \in Int /\ offset'[h] - Epoch = offset[h] - Epoch
      BY <1>2, <1>4, ClockAssumption
    <3> QED  BY <3>1, <3>2, <2>2, <1>4, NearStays DEF Near
  <2> QED  BY <2>1, <2>8, <2>10, <2>11, <1>8 DEF LateInv, LoadNear
<1>10. CASE todo # {w}
  <2>1. /\ todo' = todo \ {w} /\ rpc' = rpc /\ utc_us' = utc_us /\ late' = late /\ torn' = torn
    BY <1>3, <1>10
  <2>2. LateTypes'
    BY <2>1, <1>1, <1>2, <1>4, <1>5 DEF LateTypes
  <2>3. LoadNear' /\ StoreNear'
    BY <2>1, <1>2, <1>7 DEF LoadNear, StoreNear, NearTick
  <2>4. OffsetNear'
    BY <2>1, <1>1, <1>2 DEF OffsetNear, Near
  <2> QED  BY <2>2, <2>3, <2>4, <1>8 DEF LateInv
<1> QED  BY <1>9, <1>10

(* Every word stored is of the offset computed, and the offset under it was *)
(* near before (recv_time, calc_offset).                                    *)
LEMMA LateStore == ASSUME Protocol = "ubx", LateInv, StoreWord,
                          UNCHANGED <<sys, uart, sys_tick_at_last_pps, rx, missed>>
                   PROVE  LateInv'
<1>1. LateTypes /\ LastPulse /\ FrameOfLate /\ StoreNear /\ OffsetNear
  BY DEF LateInv
<1>2. /\ rpc = "store" /\ gps_time_active' = gps_time_active /\ utc_us' = utc_us
      /\ tick' = tick /\ late' = late
  BY DEF StoreWord
<1>3. PICK w \in todo : offset' = [offset EXCEPT ![w] = utc_us] /\ todo' = todo \ {w}
  BY DEF StoreWord
<1>4. IF todo \ {w} = {} THEN rpc' = "raise" /\ torn' = Torn(tick)
                         ELSE rpc' = rpc /\ torn' = torn
  BY <1>3 DEF StoreWord
<1>5. /\ Torn(tick) => torn
      /\ ~Torn(tick) => Near(utc_us - Epoch)
      /\ \A h \in Half \ todo : offset[h] = utc_us
      /\ offset \in [Half -> Int] /\ todo \subseteq Half /\ utc_us \in Int /\ torn \in BOOLEAN
      /\ missed \in Nat /\ late \in Nat
  BY <1>1, <1>2 DEF StoreNear, LateTypes
<1>6. /\ offset' \in [Half -> Int]
      /\ \A h \in Half : offset'[h] = IF h = w THEN utc_us ELSE offset[h]
  BY <1>3, <1>5
<1>7. \A h \in Half \ (todo \ {w}) : offset'[h] = utc_us
  BY <1>5, <1>6
<1>8. torn' \in BOOLEAN /\ rpc' \in {"raise", "store"}
  BY <1>2, <1>4, <1>5 DEF Torn
<1>9. LateTypes'
  BY <1>1, <1>2, <1>3, <1>5, <1>6, <1>8 DEF LateTypes
<1>10. LastPulse' /\ FrameOfLate' /\ LoadNear'
  BY <1>1, <1>2, <1>8 DEF LastPulse, FrameOfLate, LoadNear
<1>11. StoreNear' /\ OffsetNear'
  <2>1. CASE todo \ {w} = {}
    <3>1. rpc' = "raise" /\ torn' = Torn(tick)
      BY <1>4, <2>1
    <3>2. \A h \in Half : offset'[h] = utc_us
      BY <1>7, <2>1
    <3>3. ~torn' => \A h \in Half : (Near(offset[h] - Epoch))'
      BY <3>1, <3>2, <1>2, <1>5 DEF Near
    <3> QED  BY <3>1, <3>3 DEF StoreNear, OffsetNear, Near
  <2>2. CASE todo \ {w} # {}
    <3>1. rpc' = "store" /\ torn' = torn
      BY <1>2, <1>4, <2>2
    <3>2. StoreNear'
      BY <3>1, <1>2, <1>3, <1>5, <1>7 DEF StoreNear, Near, Torn
    <3>3. ASSUME gps_time_active, ~torn, NEW h \in Half
          PROVE  (Near(offset[h] - Epoch))'
      <4>1. Near(offset[h] - Epoch) /\ Near(utc_us - Epoch)
        BY <3>3, <1>1, <1>5 DEF OffsetNear
      <4> QED  BY <4>1, <1>2, <1>6 DEF Near
    <3> QED  BY <3>1, <3>2, <3>3, <1>2 DEF OffsetNear, Near
  <2> QED  BY <2>1, <2>2
<1> QED  BY <1>9, <1>10, <1>11 DEF LateInv

(* The test of the frame, the flag and the bits store no offset. *)
LEMMA LateOffset == ASSUME Protocol = "ubx", LateInv, Offset PROVE LateInv'
<1>1. UNCHANGED <<sys, uart, sys_tick_at_last_pps, rx, missed>>
  BY DEF Offset
<1>2. LateTypes /\ LastPulse /\ FrameOfLate /\ OffsetNear
  BY DEF LateInv
<1>3. CASE LoadWord
  BY <1>1, <1>3, LateLoad
<1>4. CASE StoreWord
  BY <1>1, <1>4, LateStore
<1>5. CASE Calc \/ Raise \/ Clear
  <2>1. /\ rpc \in {"calc", "raise", "clear"}
        /\ offset' = offset /\ tick' = tick /\ utc_us' = utc_us /\ late' = late /\ torn' = torn
        /\ todo' \in {todo, Half}
        /\ rpc' \in {"load", "clear", "idle"} /\ (rpc' = "load" => todo' = Half)
    BY <1>2, <1>5 DEF Calc, Raise, Clear
  <2>a. \/ gps_time_active' = gps_time_active
        \/ gps_time_active' = FALSE
        \/ rpc = "raise" /\ gps_time_active' = TRUE
    BY <1>5 DEF Calc, Raise, Clear
  <2>t. gps_time_active \in BOOLEAN
    BY <1>2 DEF LateTypes
  <2>c. gps_time_active' \in BOOLEAN
    BY <2>a, <2>t
  <2>b. gps_time_active' => gps_time_active \/ rpc = "raise"
    BY <2>a
  <2>2. rx \in Sentence /\ rx.sec <= sys
    BY <2>1, <1>2 DEF LateTypes, FrameOfLate
  <2>3. LateTypes' /\ LastPulse' /\ FrameOfLate'
    BY <2>1, <2>c, <2>2, <1>1, <1>2 DEF LateTypes, LastPulse, FrameOfLate
  <2>4. LoadNear' /\ StoreNear'
    BY <2>1 DEF LoadNear, StoreNear
  <2>5. OffsetNear'
    BY <2>1, <2>b, <1>1, <1>2 DEF OffsetNear, Near
  <2> QED  BY <2>3, <2>4, <2>5 DEF LateInv
<1> QED  BY <1>3, <1>4, <1>5 DEF Offset

(* A UBX frame read late, with pulses between any two accesses of the read  *)
(* task, sets the clock back, and a pulse left out puts it forward; never   *)
(* is it further behind than a frame used was, nor further ahead than       *)
(* pulses were left out, also while an offset is stored over another, for   *)
(* every delay of the task, any word size and any epoch, unless the words   *)
(* of two ticks or two offsets with different high words are put together   *)
(* (recv_time).                                                             *)
THEOREM NearUtcHolds ==
  ASSUME Protocol = "ubx"
  PROVE  Spec => []NearUtc
<1>1. Init => LateInv
  BY LateInit
<1>2. LateInv /\ [Next]_vars => LateInv'
  <2> SUFFICES ASSUME LateInv, [Next]_vars PROVE LateInv'
    OBVIOUS
  <2>1. CASE \E K \in SUBSET Kinds : \E out \in [K -> BOOLEAN] : Second(out)
    BY <2>1, LateSecond
  <2>2. CASE Receive
    BY <2>2, LateReceive
  <2>3. CASE Flags
    BY <2>3, LateFlags
  <2>4. CASE Offset
    BY <2>4, LateOffset
  <2>5. CASE UNCHANGED vars
    <3>1. UNCHANGED <<sys, uart, sys_tick_at_last_pps, offset, gps_time_active, rpc, rx, tick,
                      utc_us, todo, missed, late, torn>>
      BY <2>5 DEF vars, ppsVars, readerVars
    <3>2. LateTypes' /\ LastPulse' /\ FrameOfLate'
      BY <3>1 DEF LateInv, LateTypes, LastPulse, FrameOfLate
    <3>3. LoadNear' /\ StoreNear' /\ OffsetNear'
      BY <3>1 DEF LateInv, LoadNear, NearTick, StoreNear, OffsetNear, Near, Torn
    <3> QED  BY <3>2, <3>3 DEF LateInv
  <2> QED  BY <2>1, <2>2, <2>3, <2>4, <2>5 DEF Next, read_task
<1>3. LateInv => NearUtc
  <2> SUFFICES ASSUME LateInv, gps_time_active, ~torn, ~Torn(offset)
               PROVE  sys_to_gps_time_us(sys) - Utc(sys) \in (-late)..missed
    BY DEF NearUtc
  <2>1. /\ \A h \in Half : Near(offset[h] - Epoch)
        /\ sys \in Nat /\ missed \in Nat /\ late \in Nat /\ offset \in [Half -> Int]
    BY DEF LateInv, LateTypes, OffsetNear
  <2>2. Value(offset) = offset["lo"] /\ offset["lo"] \in Int /\ "lo" \in Half
    BY <2>1, ValueOfWords DEF Half
  <2>3. sys_to_gps_time_us(sys) - Utc(sys) = offset["lo"] - Epoch
    BY <2>1, <2>2, ClockAssumption DEF sys_to_gps_time_us, Utc
  <2>4. Near(offset["lo"] - Epoch)
    BY <2>1, <2>2
  <2> QED  BY <2>1, <2>2, <2>3, <2>4, ClockAssumption DEF Near
<1> QED  BY <1>1, <1>2, <1>3, PTL DEF Spec

=============================================================================

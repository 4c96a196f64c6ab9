------------------------------- MODULE GpsPos -------------------------------
(***************************************************************************)
(* How a position gets from the receiver into the log: the read task       *)
(* (recv_pos in gps_ubx.c, the GGA branch of gps_nmea.c) writes the shared *)
(* gps_data one field at a time, and the esp_timer task, which runs        *)
(* gps_log_data (gps.c) once a second and preempts the read task anywhere, *)
(* copies it.  A measurement is known by the number of its epoch (iTOW).   *)
(***************************************************************************)
EXTENDS Integers, Sequences, Functions

CONSTANTS
  Receivers, \* receivers considered: "ubx", "nmea", and "worn", an NMEA
             \* receiver on a cable that makes lines lose characters
  MaxEpoch,  \* bound: epochs 1..MaxEpoch
  NULL

ASSUME PosAssumption ==
  Receivers \subseteq {"ubx", "nmea", "worn"} /\ MaxEpoch \in Nat

VARIABLES
  receiver,          \* the receiver of this device; it never changes
  epoch,             \* the receiver's present epoch
  uart,              \* frames or lines sent and not yet read
  last_nav_posllh, last_nav_status, last_nav_velned,
  gps_data, gps_pos_active,
  todo,              \* stores the read task still makes for its frame
  logged             \* the last record gps_log_data made

navVars == <<last_nav_posllh, last_nav_status, last_nav_velned>>
vars == <<receiver, epoch, uart, navVars, gps_data, gps_pos_active, todo, logged>>

(* struct Gps; altitudeWGS and heading fare as altitudeMSL and speed do. *)
FIELDS == <<"latitude", "longitude", "altitudeMSL", "speed">>
Field == Range(FIELDS)

(* What was measured in epoch e, in the units of log-data.h: a place south  *)
(* and west of the origin, e metres up.  0 is a field nobody measured.      *)
Measured(e) == [latitude |-> -e, longitude |-> -e, altitudeMSL |-> 1000 * e, speed |-> e]

Kinds == IF receiver = "ubx" THEN {"posllh", "status", "velned"} ELSE {"gga"}
(* "short" lines have nine commas or fewer, "blank" ones an empty quality.  *)
Shapes == IF receiver = "worn" THEN {"full", "short", "blank"} ELSE {"full"}
Frame == [kind : Kinds, iTOW : Nat, fix : BOOLEAN, shape : Shapes]

Init ==
  /\ receiver \in Receivers
  /\ epoch = 0 /\ uart = {}
  /\ last_nav_posllh = 0 /\ last_nav_velned = 0
  /\ last_nav_status = [iTOW |-> 0, fix |-> FALSE]
  /\ gps_data = [f \in Field |-> 0] /\ gps_pos_active = FALSE
  /\ todo = <<>> /\ logged = NULL

-----------------------------------------------------------------------------
(* The receiver sends what it measured; some of it may get lost.  What is   *)
(* not read within an epoch is read in the next.                            *)
Measure(K, fix, shape) ==
  /\ epoch < MaxEpoch
  /\ \A r \in uart : r.iTOW = epoch
  /\ epoch' = epoch + 1
  /\ uart' = uart \cup {[kind |-> k, iTOW |-> epoch', fix |-> fix, shape |-> shape] : k \in K}
  /\ UNCHANGED <<receiver, navVars, gps_data, gps_pos_active, todo, logged>>

Set(f, v) == [op |-> "set", field |-> f, value |-> v]
Negate(f) == [op |-> "negate", field |-> f]
Active(b) == [op |-> "active", value |-> b]

(* Slip: the fields of the last position are not cleared. *)
Memset_None == <<>>
Memset == [i \in DOMAIN FIELDS |-> Set(FIELDS[i], 0)]

(* recv_pos: nothing until the three frames are of one epoch, then zeroes,  *)
(* the fields in turn and last the flag.                                    *)
PosStores(pos, velned) ==
  <<Set("latitude", Measured(pos).latitude), Set("longitude", Measured(pos).longitude),
    Set("altitudeMSL", Measured(pos).altitudeMSL), Set("speed", Measured(velned).speed)>>

(* Slip: the speed may be of another epoch. *)
recv_pos_NoVelned(pos, status, velned) ==
  IF status.iTOW # pos
  THEN <<>>
  ELSE Memset \o IF status.fix THEN Append(PosStores(pos, velned), Active(TRUE))
                               ELSE <<Active(FALSE)>>
recv_pos(pos, status, velned) ==
  IF status.iTOW # pos \/ status.iTOW # velned
  THEN <<>>
  ELSE Memset \o IF status.fix THEN Append(PosStores(pos, velned), Active(TRUE))
                               ELSE <<Active(FALSE)>>

(* The GGA branch: zeroes, then each coordinate without its sign, the sign  *)
(* by a second store, the altitude in tenths of a metre, the flag.  A short *)
(* line ends after the zeroes.                                              *)
GgaStores(e, fix) ==
  Memset \o
  IF fix
  THEN <<Set("latitude", e), Negate("latitude"), Set("longitude", e), Negate("longitude"),
         Set("altitudeMSL", 10 * e), Active(TRUE)>>
  ELSE <<Active(FALSE)>>

(* Slip: the flag is left over from the line before. *)
ReceiveGga_KeepFlag(r) ==
  /\ r.kind = "gga"
  /\ todo' = IF r.shape = "short" \/ ~r.fix THEN Memset ELSE GgaStores(r.iTOW, TRUE)
  /\ UNCHANGED navVars
ReceiveGga(r) ==
  /\ r.kind = "gga"
  /\ \/ r.shape = "full" /\ todo' = GgaStores(r.iTOW, r.fix)
     \/ r.shape = "short" /\ todo' = Memset
     \/ r.shape = "blank" /\ \E gps_fix \in BOOLEAN :   \* never initialised
          todo' = GgaStores(r.iTOW, gps_fix)
  /\ UNCHANGED navVars

ReceiveUbx(r) ==
  /\ \/ /\ r.kind = "posllh"
        /\ last_nav_posllh' = r.iTOW /\ UNCHANGED <<last_nav_status, last_nav_velned>>
     \/ /\ r.kind = "status"
        /\ last_nav_status' = [iTOW |-> r.iTOW, fix |-> r.fix]
        /\ UNCHANGED <<last_nav_posllh, last_nav_velned>>
     \/ /\ r.kind = "velned"
        /\ last_nav_velned' = r.iTOW /\ UNCHANGED <<last_nav_posllh, last_nav_status>>
  /\ todo' = recv_pos(last_nav_posllh', last_nav_status', last_nav_velned')

Receive ==
  /\ todo = <<>>
  /\ \E r \in uart :
       /\ \A s \in uart : r.iTOW <= s.iTOW
       /\ uart' = uart \ {r}
       /\ ReceiveUbx(r) \/ ReceiveGga(r)
  /\ UNCHANGED <<receiver, epoch, gps_data, gps_pos_active, logged>>

(* One store of the read task.  A field of the packed struct may take more  *)
(* than one access: its parts fare as do the neighbouring fields here.      *)
Store ==
  /\ todo # <<>>
  /\ LET s == Head(todo) IN
       \/ /\ s.op = "set"
          /\ gps_data' = [gps_data EXCEPT ![s.field] = s.value] /\ UNCHANGED gps_pos_active
       \/ /\ s.op = "negate"
          /\ gps_data' = [gps_data EXCEPT ![s.field] = -@] /\ UNCHANGED gps_pos_active
       \/ /\ s.op = "active"
          /\ gps_pos_active' = s.value /\ UNCHANGED gps_data
  /\ todo' = Tail(todo)
  /\ UNCHANGED <<receiver, epoch, uart, navVars, logged>>

(* The timer task copies the position, between any two stores. *)
gps_log_data ==
  /\ logged' = IF gps_pos_active THEN [at |-> epoch, gps |-> gps_data] ELSE NULL
  /\ UNCHANGED <<receiver, epoch, uart, navVars, gps_data, gps_pos_active, todo>>

read_task == Receive \/ Store
Next ==
  \/ \E K \in SUBSET Kinds, fix \in BOOLEAN, shape \in Shapes : Measure(K, fix, shape)
  \/ read_task
  \/ gps_log_data

Spec == Init /\ [][Next]_vars

(* The read task runs whenever nothing of a higher priority does. *)
FairSpec == Spec /\ WF_vars(read_task)

-----------------------------------------------------------------------------
(* Properties. *)

(* Every variable keeps its type; what gps_log_data logs as a position is   *)
(* one, with all its fields.                                                *)
TypeOK ==
  /\ receiver \in Receivers
  /\ epoch \in 0..MaxEpoch /\ uart \subseteq Frame
  /\ last_nav_posllh \in Nat /\ last_nav_velned \in Nat
  /\ last_nav_status \in [iTOW : Nat, fix : BOOLEAN]
  /\ gps_data \in [Field -> Int] /\ gps_pos_active \in BOOLEAN
  /\ \A i \in DOMAIN todo : todo[i].op \in {"set", "negate", "active"}
  /\ logged # NULL => logged \in [at : Nat, gps : [Field -> Int]]

(* The fields that say where a measurement was made; an NMEA log has no     *)
(* speed, and its altitude is in tenths of a metre (gps_nmea.c:155).        *)
Known == IF receiver = "ubx" THEN Field ELSE {"latitude", "longitude"}
Whole(data, e) == \A f \in Known : data[f] = Measured(e)[f]

(* When the read task is through with a frame, an active position is one    *)
(* measurement, put together from frames of one epoch (recv_pos), although  *)
(* any frame may be lost or late; only a line given up in the middle leaves *)
(* the flag of the last position over the zeroes.                           *)
AssembledWhole ==
  receiver # "worn" /\ gps_pos_active /\ todo = <<>> => \E e \in 1..epoch : Whole(gps_data, e)

(* Whenever the timer task copies it, fields of two measurements are never  *)
(* mixed: the zeroes come between them (gps_ubx.c:334, gps_nmea.c:114).     *)
FieldsOfOneEpoch ==
  logged # NULL =>
    \E e \in 1..epoch : \A f \in Known :
      logged.gps[f] \in {0, Measured(e)[f], -Measured(e)[f]}

(* An epoch whose frames all come through decides gps_pos_active, whatever  *)
(* came before: a lost fix is noticed, and so is one found again.           *)
AllThrough(fix) ==
  todo = <<>> /\ uart = [kind : Kinds, iTOW : {epoch}, fix : {fix}, shape : {"full"}]
FixHeard ==
  /\ AllThrough(TRUE) ~> gps_pos_active
  /\ AllThrough(FALSE) ~> ~gps_pos_active

(* README.md:29, "a timestamp/postion per second": what is logged as a      *)
(* position was measured.                                                   *)
LoggedWhole == logged # NULL => \E e \in 1..epoch : Whole(logged.gps, e)
=============================================================================

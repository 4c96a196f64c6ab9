------------------------------- MODULE SdCard -------------------------------
(***************************************************************************)
(* The SD card logger of the receiver firmware (sdcard.c) with the half of *)
(* log_data (main.c) that feeds it.  Five actors share the state: the      *)
(* button interrupt, the control task that opens and closes a log, the     *)
(* writer task that drains the queue into the log, the two contexts that   *)
(* call log_data (Wi-Fi callback and esp_timer task) and the power supply. *)
(* A program counter separates the steps another task may come between.    *)
(***************************************************************************)
EXTENDS Integers, Sequences, FiniteSets

CONSTANTS
  QUEUE_SIZE,     \* items sdcard_queue holds
  CardSpace,      \* header and body chunks the card has room for
  MaxSecond,      \* bound: clock values 0..MaxSecond
  MaxRecord,      \* bound: records handed to log_data
  EndlessRecords, \* records never run out (their identities are reused)
  MaxPress,       \* bound: button presses
  MaxReset,       \* bound: power losses
  FopenMayFail,   \* fopen can return NULL on a card that mounted
  WriterSettles,  \* vTaskDelay(200 ms) lets writer and producers run dry
  NULL

ASSUME SizesAssumption ==
  /\ QUEUE_SIZE \in Nat \ {0}
  /\ CardSpace \in Nat
  /\ MaxSecond \in Nat /\ MaxRecord \in Nat /\ MaxPress \in Nat /\ MaxReset \in Nat
ASSUME SwitchAssumption == {EndlessRecords, FopenMayFail, WriterSettles} \subseteq BOOLEAN

VARIABLES
  notified,       \* a notification is pending for the control task
  cpc,            \* where the control task is
  wpc, wrec,      \* where the writer task is, and the record it holds
  pending,        \* record log_data has decided to send, per caller
  logFileMutex,   \* owner of the mutex
  logFile,        \* second in the name of the open log, NULL when closed
  sdcard_active, sdcard_queue, mounted,
  stream,         \* chunks written to the open log since fopen
  files,          \* durable content of log-<second>.dat
  free,           \* chunks the card still has room for
  now,            \* the clock the file name is taken from, in seconds
  session,        \* history: number of logs opened
  produced, presses, resets \* history: bounds and record identities

logVars == <<logFile, stream, files, free, session>>
rtosVars == <<notified, logFileMutex, sdcard_queue>>
flagVars == <<sdcard_active, mounted>>
wrtVars == <<wpc, wrec>>
envVars == <<now, produced, presses, resets>>
vars == <<logVars, rtosVars, flagVars, cpc, wrtVars, envVars, pending>>

Seconds == 0 .. MaxSecond
Producers == {"wifi", "timer"}
Types(p) == IF p = "wifi" THEN {"its"} ELSE {"gps", "time"}
Record == [type : {"its", "gps", "time"}, src : Producers, id : Nat, session : Nat]
            \cup [type : {"version", "info"}, src : {"control"}, id : {0}, session : Nat]
ASSUME NullAssumption ==
  NULL \notin Record /\ NULL \notin Seconds /\ NULL \notin {"control", "writer"}

Chunk == [part : {"header", "body"}, rec : Record]
Starting == {"mount", "openLock", "open", "check", "sendVersion", "sendInfo", "activate"}
Stopping == {"closeLock", "close", "deactivate", "unmount"}

NewRecord(t, src, id) == [type |-> t, src |-> src, id |-> id, session |-> session]

Init ==
  /\ notified = FALSE
  /\ cpc = "take"
  /\ wpc = "receive" /\ wrec = NULL
  /\ pending = [p \in Producers |-> NULL]
  /\ logFileMutex = NULL /\ logFile = NULL
  /\ sdcard_active = FALSE /\ sdcard_queue = <<>> /\ mounted = FALSE
  /\ stream = <<>>
  /\ files = [n \in Seconds |-> <<>>]
  /\ free = CardSpace
  /\ now = 0 /\ session = 0 /\ produced = 0 /\ presses = 0 /\ resets = 0

-----------------------------------------------------------------------------
(* Button interrupt. *)

button_isr_handler ==
  /\ presses < MaxPress
  /\ presses' = presses + 1
  /\ notified' = TRUE
  /\ UNCHANGED <<logVars, flagVars, cpc, wrtVars, now, produced, resets, pending,
                 logFileMutex, sdcard_queue>>

-----------------------------------------------------------------------------
(* log_data, SD half: test the flag and the type, then send without waiting. *)

(* Slip: xQueueSendToFront. *)
QueueSend_Front(q, r) == IF Len(q) < QUEUE_SIZE THEN <<r>> \o q ELSE q
QueueSend(q, r) == IF Len(q) < QUEUE_SIZE THEN Append(q, r) ELSE q

LogDataCheck(p, t) ==
  /\ produced < MaxRecord \/ EndlessRecords
  /\ pending[p] = NULL
  /\ produced' = IF produced < MaxRecord THEN produced + 1 ELSE 1
  /\ pending' = IF sdcard_active /\ t # "time"
                THEN [pending EXCEPT ![p] = NewRecord(t, p, produced')]
                ELSE pending
  /\ UNCHANGED <<logVars, rtosVars, flagVars, cpc, wrtVars, now, presses, resets>>

LogDataSend(p) ==
  /\ pending[p] # NULL
  /\ sdcard_queue' = QueueSend(sdcard_queue, pending[p])
  /\ pending' = [pending EXCEPT ![p] = NULL]
  /\ UNCHANGED <<logVars, flagVars, cpc, wrtVars, envVars, notified, logFileMutex>>

-----------------------------------------------------------------------------
(* sdcard_control_task. *)

Take ==
  /\ cpc = "take" /\ notified
  /\ notified' = FALSE
  /\ cpc' = IF sdcard_active THEN "closeLock" ELSE "mount"
  /\ UNCHANGED <<logVars, flagVars, logFileMutex, sdcard_queue>>

mount_sdcard ==
  /\ cpc = "mount"
  /\ \E ok \in BOOLEAN : mounted' = ok /\ cpc' = IF ok THEN "openLock" ELSE "delay"
  /\ UNCHANGED <<logVars, rtosVars, sdcard_active>>

(* Slip: the control task does not wait for the mutex. *)
ControlLock_NoWait ==
  /\ cpc \in {"openLock", "closeLock"}
  /\ cpc' = IF cpc = "openLock" THEN "open" ELSE "close"
  /\ UNCHANGED <<logVars, rtosVars, flagVars>>
ControlLock ==
  /\ cpc \in {"openLock", "closeLock"}
  /\ logFileMutex = NULL
  /\ logFileMutex' = "control"
  /\ cpc' = IF cpc = "openLock" THEN "open" ELSE "close"
  /\ UNCHANGED <<logVars, flagVars, notified, sdcard_queue>>

(* fopen(..., "wb") truncates a log of the same second. *)
Fopen(name) ==
  /\ logFile' = name
  /\ files' = [files EXCEPT ![name] = <<>>]
  /\ free' = free + Len(files[name])
  /\ session' = session + 1

Open ==
  /\ cpc = "open"
  /\ \/ Fopen(now)
     \/ FopenMayFail /\ logFile' = NULL /\ UNCHANGED <<files, free, session>>
  /\ stream' = <<>> /\ logFileMutex' = NULL /\ cpc' = "check"
  /\ UNCHANGED <<flagVars, notified, sdcard_queue>>

(* Slip: logging is announced before the version and info records are sent. *)
CheckOpened_ActivateFirst ==
  /\ cpc = "check"
  /\ mounted' = (logFile # NULL) /\ sdcard_active' = TRUE /\ cpc' = "sendVersion"
  /\ UNCHANGED <<logVars, rtosVars>>
CheckOpened ==
  /\ cpc = "check"
  /\ mounted' = (logFile # NULL) /\ cpc' = "sendVersion"
  /\ UNCHANGED <<logVars, rtosVars, sdcard_active>>

SendPreamble ==
  /\ cpc \in {"sendVersion", "sendInfo"}
  /\ LET t == IF cpc = "sendVersion" THEN "version" ELSE "info"
     IN  sdcard_queue' = QueueSend(sdcard_queue, NewRecord(t, "control", 0))
  /\ cpc' = IF cpc = "sendVersion" THEN "sendInfo" ELSE "activate"
  /\ UNCHANGED <<logVars, flagVars, notified, logFileMutex>>

(* sdcard_active = true behind the preamble, = false behind the fclose      *)
(* (sdcard.c:113, 129).                                                     *)
SetActive ==
  /\ cpc \in {"activate", "deactivate"}
  /\ sdcard_active' = (cpc = "activate")
  /\ cpc' = IF cpc = "activate" THEN "delay" ELSE "unmount"
  /\ UNCHANGED <<logVars, rtosVars, mounted>>

(* fsync and fclose; on a NULL FILE the fsync faults and the chip panics. *)
Close ==
  /\ cpc = "close"
  /\ IF logFile = NULL
     THEN cpc' = "panic" /\ UNCHANGED <<logVars, logFileMutex>>
     ELSE /\ files' = [files EXCEPT ![logFile] = stream]
          /\ stream' = <<>> /\ logFile' = NULL
          /\ logFileMutex' = NULL /\ cpc' = "deactivate"
          /\ UNCHANGED <<free, session>>
  /\ UNCHANGED <<flagVars, notified, sdcard_queue>>

unmount_sdcard ==
  /\ cpc = "unmount"
  /\ mounted' = FALSE /\ cpc' = "delay"
  /\ UNCHANGED <<logVars, rtosVars, sdcard_active>>

(* After the debounce time a press made meanwhile is thrown away. *)
Settled ==
  /\ sdcard_queue = <<>> /\ wpc = "receive"
  /\ \A p \in Producers : pending[p] = NULL

(* Slip: no delay before the next press is served. *)
Debounce_NoDelay ==
  /\ cpc = "delay"
  /\ notified' = FALSE /\ cpc' = "take"
  /\ UNCHANGED <<logVars, flagVars, logFileMutex, sdcard_queue>>
Debounce ==
  /\ cpc = "delay"
  /\ WriterSettles /\ ~sdcard_active => Settled
  /\ notified' = FALSE /\ cpc' = "take"
  /\ UNCHANGED <<logVars, flagVars, logFileMutex, sdcard_queue>>

sdcard_control_task ==
  /\ \/ Take \/ mount_sdcard \/ ControlLock \/ Open \/ CheckOpened
     \/ SendPreamble \/ SetActive \/ Close \/ unmount_sdcard \/ Debounce
  /\ UNCHANGED <<wrtVars, envVars, pending>>

-----------------------------------------------------------------------------
(* sdcard_writer_task. *)

(* Slip: the writer only serves its queue while the card is logging. *)
Receive_WhileActive ==
  /\ wpc = "receive" /\ sdcard_queue # <<>> /\ sdcard_active
  /\ wrec' = Head(sdcard_queue) /\ sdcard_queue' = Tail(sdcard_queue)
  /\ wpc' = "lock"
  /\ UNCHANGED <<stream, free, logFileMutex>>
Receive ==
  /\ wpc = "receive" /\ sdcard_queue # <<>>
  /\ wrec' = Head(sdcard_queue) /\ sdcard_queue' = Tail(sdcard_queue)
  /\ wpc' = "lock"
  /\ UNCHANGED <<stream, free, logFileMutex>>

WriterLock ==
  /\ wpc = "lock" /\ logFileMutex = NULL
  /\ logFileMutex' = "writer"
  /\ wpc' = IF logFile # NULL THEN "header" ELSE "give"
  /\ UNCHANGED <<wrec, sdcard_queue, stream, free>>

(* Slip: the result of xSemaphoreTake is not tested. *)
WriterTimeout_WriteAnyway ==
  /\ wpc = "lock" /\ logFileMutex # NULL
  /\ wpc' = IF logFile # NULL THEN "header" ELSE "give"
  /\ UNCHANGED <<wrec, logFileMutex, sdcard_queue, stream, free>>
(* xSemaphoreTake gives up after 500 ms: the record is dropped. *)
WriterTimeout ==
  /\ wpc = "lock" /\ logFileMutex # NULL
  /\ wpc' = "receive" /\ wrec' = NULL
  /\ UNCHANGED <<logFileMutex, sdcard_queue, stream, free>>

(* A chunk that a full card takes a part of uses up the last of the space   *)
(* and ends the log like one it takes nothing of: free = 0, not in stream.  *)
FwriteChunk ==
  IF free > 0
  THEN stream' = Append(stream, [part |-> wpc, rec |-> wrec]) /\ free' = free - 1
  ELSE UNCHANGED <<stream, free>>

(* Slip: a short fwrite leaves the loop body without giving the mutex back. *)
Fwrite_EarlyOut ==
  /\ wpc \in {"header", "body"}
  /\ FwriteChunk
  /\ wpc' = IF free = 0 THEN "receive" ELSE IF wpc = "header" THEN "body" ELSE "give"
  /\ UNCHANGED <<wrec, logFileMutex, sdcard_queue>>
(* fwrite's result is not looked at: on a full card the chunk is just lost. *)
Fwrite ==
  /\ wpc \in {"header", "body"}
  /\ FwriteChunk
  /\ wpc' = IF wpc = "header" THEN "body" ELSE "give"
  /\ UNCHANGED <<wrec, logFileMutex, sdcard_queue>>

Give ==
  /\ wpc = "give"
  /\ logFileMutex' = NULL
  /\ wpc' = "receive" /\ wrec' = NULL
  /\ UNCHANGED <<sdcard_queue, stream, free>>

sdcard_writer_task ==
  /\ Receive \/ WriterLock \/ WriterTimeout \/ Fwrite \/ Give
  /\ UNCHANGED <<logFile, files, session, notified, flagVars, cpc, envVars, pending>>

-----------------------------------------------------------------------------
(* Time and power.  A restart keeps what was synced and nothing else; the   *)
(* space of the unsynced log stays allocated.                               *)

Tick ==
  /\ now < MaxSecond
  /\ now' = now + 1
  /\ UNCHANGED <<logVars, rtosVars, flagVars, cpc, wrtVars, pending,
                 produced, presses, resets>>

Restart ==
  /\ notified' = FALSE /\ cpc' = "take"
  /\ wpc' = "receive" /\ wrec' = NULL
  /\ pending' = [p \in Producers |-> NULL]
  /\ logFileMutex' = NULL /\ logFile' = NULL
  /\ sdcard_active' = FALSE /\ sdcard_queue' = <<>> /\ mounted' = FALSE
  /\ stream' = <<>>
  /\ now' = 0
  /\ UNCHANGED <<files, free, session, produced, presses>>

PanicReboot == cpc = "panic" /\ Restart /\ UNCHANGED resets
PowerLoss == resets < MaxReset /\ resets' = resets + 1 /\ Restart

-----------------------------------------------------------------------------
(* A panic stops every task of the chip until the reboot. *)
Running ==
  \/ button_isr_handler
  \/ \E p \in Producers : \E t \in Types(p) : LogDataCheck(p, t)
  \/ \E p \in Producers : LogDataSend(p)
  \/ sdcard_control_task
  \/ sdcard_writer_task
  \/ Tick
  \/ PowerLoss

Next ==
  \/ cpc # "panic" /\ Running
  \/ PanicReboot

Spec == Init /\ [][Next]_vars

(* The tasks are ready whenever they can run and the FreeRTOS scheduler     *)
(* runs every ready task, but a give does not hand the mutex over: between  *)
(* tasks of one priority the writer may take it again before the control    *)
(* task, made ready by the give, runs and finds it taken.  Only when the    *)
(* writer blocks on its queue does the control task, ready before it, run   *)
(* first.  Nobody has to press the button or send a record.                 *)
Alive(A) == cpc # "panic" /\ A
WriterWaits == wpc = "receive" /\ sdcard_queue = <<>>
FairSpec ==
  /\ Spec
  /\ WF_vars(Alive(sdcard_control_task))
  /\ SF_vars(Alive(WriterWaits /\ cpc \in {"openLock", "closeLock"} /\ sdcard_control_task))
  /\ WF_vars(Alive(sdcard_writer_task))
  /\ \A p \in Producers : WF_vars(Alive(LogDataSend(p)))
  /\ WF_vars(PanicReboot)

-----------------------------------------------------------------------------
(* Properties. *)

TasksTypeOK ==
  /\ notified \in BOOLEAN
  /\ cpc \in {"take", "delay", "panic"} \cup Starting \cup Stopping
  /\ wpc \in {"receive", "lock", "header", "body", "give"}
  /\ wrec \in Record \cup {NULL}
  /\ pending \in [Producers -> Record \cup {NULL}]
  /\ logFileMutex \in {NULL, "control", "writer"}
  /\ sdcard_active \in BOOLEAN
  /\ sdcard_queue \in Seq(Record) /\ Len(sdcard_queue) <= QUEUE_SIZE
  /\ mounted \in BOOLEAN
CardTypeOK ==
  /\ logFile \in Seconds \cup {NULL}
  /\ stream \in Seq(Chunk)
  /\ files \in [Seconds -> Seq(Chunk)]
  /\ free \in Nat
EnvTypeOK ==
  /\ now \in Seconds
  /\ session \in Nat /\ produced \in Nat /\ presses \in Nat /\ resets \in Nat
(* Every variable keeps its type, and sdcard_queue never holds more than   *)
(* QUEUE_SIZE records (main.c:245-257 sends without waiting).               *)
TypeOK == TasksTypeOK /\ CardTypeOK /\ EnvTypeOK

(* fwrite never runs on a FILE the control task has closed or is opening:   *)
(* between the writer's test of logFile and its fflush the log stays open.  *)
NoWriteAfterClose ==
  wpc \in {"header", "body"} => logFile # NULL /\ cpc \notin {"open", "close"}

(* The converter reads a log as header, body, header, body ... and has no   *)
(* way to resynchronise: whatever the interleaving of writer, control task, *)
(* full card and power loss, that is what a log on the card looks like.     *)
Paired(s) ==
  \A i \in 1 .. Len(s) :
    \/ i % 2 = 1 /\ s[i].part = "header"
    \/ i % 2 = 0 /\ s[i].part = "body" /\ s[i].rec = s[i - 1].rec
FilesParsable == Paired(stream) /\ \A n \in Seconds : Paired(files[n])

(* The strengthening that makes the above inductive: who owns the mutex in  *)
(* which step, when a log is open, and how the open log ends.               *)
MutexOwned ==
  /\ logFileMutex = "control" <=> cpc \in {"open", "close", "panic"}
  /\ logFileMutex = "writer" <=> wpc \in {"header", "body", "give"}
ActiveWhen ==
  /\ sdcard_active => cpc \notin Starting \cup {"unmount"}
  /\ ~sdcard_active => cpc \notin {"closeLock", "close", "panic", "deactivate"}
OpenWhen ==
  logFile # NULL =>
    \/ cpc \in {"check", "sendVersion", "sendInfo", "activate", "closeLock", "close"}
    \/ (sdcard_active /\ cpc \in {"delay", "take"})
WriterHolds == wpc # "receive" => wrec \in Record
TailWhole ==
  /\ logFile = NULL => stream = <<>>
  /\ wpc = "body" /\ free > 0 =>
       Len(stream) % 2 = 1 /\ stream[Len(stream)].rec = wrec
  /\ wpc # "body" /\ free > 0 => Len(stream) % 2 = 0
(* All of it together, the inductive invariant of both tasks (sdcard.c).    *)
IInv ==
  /\ TypeOK /\ NoWriteAfterClose /\ FilesParsable /\ MutexOwned
  /\ ActiveWhen /\ OpenWhen /\ WriterHolds /\ TailWhole

(* Stopping a log never cuts the record being written in two; only a full   *)
(* card can leave a header without its body at the end.                     *)
StopKeepsRecordsWhole ==
  [][\A n \in Seconds :
       files'[n] # files[n] /\ free > 0 => Len(files'[n]) % 2 = 0]_vars

(* As soon as sdcard_active (and with it the blue flash) goes off, the log  *)
(* is closed and synced: switching off then loses nothing that was written. *)
InactiveIsSafe ==
  ~sdcard_active /\ cpc \notin Starting => logFile = NULL /\ stream = <<>>

(* All records of a log were handed over during the session that opened it: *)
(* nothing queued before a stop turns up in the log of the next start.      *)
OneSession(s) == \A i, j \in 1 .. Len(s) : s[i].rec.session = s[j].rec.session
SessionPure == OneSession(stream) /\ \A n \in Seconds : OneSession(files[n])

(* A log starts with the version record and the info record, once each.     *)
PreambleFirst(s) ==
  \A i \in 1 .. Len(s) : /\ s[i].rec.type = "version" <=> i \in {1, 2}
                         /\ s[i].rec.type = "info" <=> i \in {3, 4}
LogStartsWithPreamble ==
  PreambleFirst(stream) /\ \A n \in Seconds : PreambleFirst(files[n])

(* Records of one caller are logged in the order they were handed over and  *)
(* none is logged twice.                                                    *)
InOrder(s) ==
  \A i, j \in 1 .. Len(s) :
    i < j /\ s[i].part = s[j].part /\ s[i].rec.src = s[j].rec.src
      /\ s[i].rec.src # "control" => s[i].rec.id < s[j].rec.id
InOrderOnce == InOrder(stream) /\ \A n \in Seconds : InOrder(files[n])

(* A stop runs to its end and the card can be taken out, also on a full     *)
(* card and after the writer gave up waiting for the mutex, unless records  *)
(* come so fast that the writer never again waits for one: the control task *)
(* may then starve at the mutex (sdcard.c:44-53, 122).                      *)
StopCompletes ==
  []<>WriterWaits =>
    (cpc = "closeLock" ~> (~mounted /\ ~sdcard_active /\ logFileMutex # "control"))

(* As long as records are queued the writer takes one again and again, so   *)
(* that each leaves the queue: to be written, or to be discarded because    *)
(* the log was closed in the meantime.                                      *)
QueueDrains == sdcard_queue # <<>> ~> wpc = "lock"

(* The card as its reader sees it is the log store: a header becomes part   *)
(* of a log only with its body, in one step, and in the writer's order.     *)
Whole(s) == [i \in 1 .. (Len(s) \div 2) |-> s[2 * i].rec]
Store == INSTANCE LogStore WITH
           Name <- Seconds, None <- NULL,
           logs <- [n \in Seconds |-> Whole(files[n])],
           open <- logFile, current <- Whole(stream)
ImplementsLogStore == Store!Spec

(* README.md:52, the blue flash (sdcard_active) means "SD card logging":    *)
(* with no start or stop in progress an active logger has an open log.      *)
ActiveMeansLogging == sdcard_active /\ cpc = "take" => logFile # NULL
=============================================================================

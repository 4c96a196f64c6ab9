---------------------------- MODULE SdCardProofs ----------------------------
(***************************************************************************)
(* Proofs about the SD card logger, for every queue size, card size, clock *)
(* and number of records, presses and power losses.                        *)
(***************************************************************************)
EXTENDS SdCard, SequenceTheorems, TLAPS

(* What a step must see of the invariant to keep the types. *)
TypeInv == TypeOK /\ WriterHolds

(* A full queue refuses the record, so a send keeps the queue's bound.      *)
LEMMA QueueSendType ==
  ASSUME NEW q \in Seq(Record), Len(q) <= QUEUE_SIZE, NEW r \in Record
  PROVE  QueueSend(q, r) \in Seq(Record) /\ Len(QueueSend(q, r)) <= QUEUE_SIZE
BY SizesAssumption DEF QueueSend

(* Replacing the content of one log leaves a function of logs.              *)
LEMMA FilesExcept ==
  ASSUME NEW n \in Seconds, NEW s \in Seq(Chunk), files \in [Seconds -> Seq(Chunk)]
  PROVE  [files EXCEPT ![n] = s] \in [Seconds -> Seq(Chunk)]
OBVIOUS

(* One fwrite, on a full card too, leaves a sequence of chunks (sdcard.c:48).*)
LEMMA FwriteType ==
  ASSUME stream \in Seq(Chunk), free \in Nat, [part |-> wpc, rec |-> wrec] \in Chunk,
         FwriteChunk
  PROVE  stream' \in Seq(Chunk) /\ free' \in Nat
<1>1. CASE free > 0
  BY <1>1, AppendProperties DEF FwriteChunk
<1>2. CASE ~(free > 0)
  BY <1>2 DEF FwriteChunk
<1> QED
  BY <1>1, <1>2

(* The types hold after init_sdcard.                                        *)
LEMMA InitType == Init => TypeInv
BY SizesAssumption
DEF Init, TypeInv, TypeOK, TasksTypeOK, CardTypeOK, EnvTypeOK, WriterHolds, Seconds

(* log_data keeps the types (main.c:245-257).                               *)
LEMMA LogDataType ==
  ASSUME TypeInv, NEW p \in Producers,
         LogDataSend(p) \/ \E t \in Types(p) : LogDataCheck(p, t)
  PROVE  TypeInv'
<1> USE DEF TypeInv, TypeOK, WriterHolds, logVars, rtosVars, flagVars, wrtVars, envVars
<1>1. CardTypeOK'
  BY DEF LogDataSend, LogDataCheck, CardTypeOK
<1>2. produced' \in Nat
  BY SizesAssumption DEF LogDataSend, LogDataCheck, EnvTypeOK
<1>3. EnvTypeOK'
  BY <1>2 DEF LogDataSend, LogDataCheck, EnvTypeOK
<1>4. CASE LogDataSend(p)
  <2>1. pending[p] \in Record
    BY <1>4 DEF LogDataSend, TasksTypeOK
  <2> QED
    BY <1>1, <1>3, <1>4, <2>1, QueueSendType DEF LogDataSend, TasksTypeOK
<1>5. ASSUME NEW t \in Types(p), LogDataCheck(p, t) PROVE TypeInv'
  <2>1. NewRecord(t, p, produced') \in Record
    BY <1>2 DEF NewRecord, Record, Types, Producers, EnvTypeOK
  <2>2. pending' \in [Producers -> Record \cup {NULL}]
    BY <1>5, <2>1 DEF LogDataCheck, TasksTypeOK
  <2> QED
    BY <1>1, <1>3, <1>5, <2>2 DEF LogDataCheck, TasksTypeOK
<1> QED
  BY <1>4, <1>5

(* Every step of sdcard_control_task keeps the types.                       *)
LEMMA ControlType ==
  ASSUME TypeInv, sdcard_control_task PROVE TypeInv'
<1> USE DEF TypeInv, TypeOK, WriterHolds, logVars, rtosVars, flagVars, wrtVars, envVars
<1>1. UNCHANGED <<wpc, wrec, pending, now, produced, presses, resets>>
  BY DEF sdcard_control_task
<1>2. CASE Take \/ mount_sdcard \/ ControlLock \/ CheckOpened \/ SetActive
             \/ unmount_sdcard \/ Debounce
  <2> USE <1>1, <1>2 DEF Take, mount_sdcard, ControlLock, CheckOpened, SetActive,
                         unmount_sdcard, Debounce
  <2>1. CardTypeOK' /\ EnvTypeOK'
    BY DEF CardTypeOK, EnvTypeOK
  <2>2. TasksTypeOK'
    BY DEF TasksTypeOK, Starting, Stopping
  <2> QED
    BY <2>1, <2>2
<1>3. CASE Open
  <2>1. EnvTypeOK'
    BY <1>1, <1>3 DEF Open, Fopen, EnvTypeOK
  <2>2. TasksTypeOK'
    BY <1>1, <1>3 DEF Open, TasksTypeOK, Starting
  <2>3. now \in Seconds /\ Len(files[now]) \in Nat
    BY DEF CardTypeOK, EnvTypeOK
  <2>4. CardTypeOK'
    <3>1. CASE Fopen(now)
      BY <1>3, <2>3, <3>1, FilesExcept DEF Open, Fopen, CardTypeOK
    <3>2. CASE ~Fopen(now)
      BY <1>3, <3>2 DEF Open, CardTypeOK
    <3> QED
      BY <3>1, <3>2
  <2> QED
    BY <1>1, <2>1, <2>2, <2>4
<1>4. CASE SendPreamble
  <2> DEFINE t == IF cpc = "sendVersion" THEN "version" ELSE "info"
  <2>1. NewRecord(t, "control", 0) \in Record
    BY DEF NewRecord, Record, EnvTypeOK
  <2>2. CardTypeOK' /\ EnvTypeOK'
    BY <1>1, <1>4 DEF SendPreamble, CardTypeOK, EnvTypeOK
  <2>3. /\ sdcard_queue' = QueueSend(sdcard_queue, NewRecord(t, "control", 0))
        /\ cpc' \in Starting
        /\ UNCHANGED <<logVars, flagVars, notified, logFileMutex>>
    BY <1>4 DEF SendPreamble, Starting
  <2> HIDE DEF t
  <2>4. TasksTypeOK'
    BY <1>1, <2>1, <2>3, QueueSendType DEF TasksTypeOK
  <2> QED
    BY <1>1, <2>2, <2>4
<1>5. CASE Close
  <2>1. TasksTypeOK' /\ EnvTypeOK'
    BY <1>1, <1>5 DEF Close, Stopping, TasksTypeOK, EnvTypeOK
  <2>2. CardTypeOK'
    <3>1. CASE logFile = NULL
      BY <1>5, <3>1 DEF Close, CardTypeOK
    <3>2. CASE logFile # NULL
      BY <1>5, <3>2, FilesExcept DEF Close, CardTypeOK
    <3> QED
      BY <3>1, <3>2
  <2> QED
    BY <1>1, <2>1, <2>2
<1> QED
  BY <1>2, <1>3, <1>4, <1>5 DEF sdcard_control_task

(* Every step of sdcard_writer_task keeps the types.                        *)
LEMMA WriterType ==
  ASSUME TypeInv, sdcard_writer_task PROVE TypeInv'
<1> USE DEF TypeInv, TypeOK, WriterHolds, logVars, rtosVars, flagVars, wrtVars, envVars
<1>1. UNCHANGED <<logFile, files, session, notified, flagVars, cpc, envVars, pending>>
  BY DEF sdcard_writer_task
<1>2. EnvTypeOK'
  BY <1>1 DEF EnvTypeOK
<1>3. CASE Receive
  <2>1. /\ Head(sdcard_queue) \in Record
        /\ Tail(sdcard_queue) \in Seq(Record)
        /\ Len(Tail(sdcard_queue)) <= QUEUE_SIZE
    BY <1>3, SizesAssumption DEF Receive, TasksTypeOK
  <2>2. TasksTypeOK' /\ WriterHolds'
    BY <1>1, <1>3, <2>1 DEF Receive, TasksTypeOK
  <2> QED
    BY <1>1, <1>2, <1>3, <2>2 DEF Receive, CardTypeOK
<1>4. CASE WriterLock \/ WriterTimeout \/ Give
  <2> USE <1>1, <1>4 DEF WriterLock, WriterTimeout, Give
  <2>1. CardTypeOK'
    BY DEF CardTypeOK
  <2>2. TasksTypeOK' /\ WriterHolds'
    BY DEF TasksTypeOK
  <2> QED
    BY <1>2, <2>1, <2>2
<1>5. CASE Fwrite
  <2>1. [part |-> wpc, rec |-> wrec] \in Chunk
    BY <1>5 DEF Fwrite, Chunk
  <2>2. CardTypeOK'
    BY <1>1, <1>5, <2>1, FwriteType DEF Fwrite, CardTypeOK
  <2>3. TasksTypeOK' /\ WriterHolds'
    BY <1>1, <1>5 DEF Fwrite, TasksTypeOK
  <2> QED
    BY <1>2, <2>2, <2>3
<1> QED
  BY <1>3, <1>4, <1>5 DEF sdcard_writer_task

(* A restart of the chip, by panic or power loss, keeps the types.          *)
LEMMA RestartType ==
  ASSUME TypeInv, Restart, resets' \in Nat PROVE TypeInv'
<1>1. TasksTypeOK' /\ WriterHolds'
  <2>1. pending' \in [Producers -> Record \cup {NULL}]
    BY DEF Restart
  <2>2. sdcard_queue' \in Seq(Record) /\ Len(sdcard_queue') <= QUEUE_SIZE
    BY SizesAssumption DEF Restart
  <2> QED
    BY <2>1, <2>2 DEF Restart, TasksTypeOK, WriterHolds
<1>2. CardTypeOK'
  BY DEF TypeInv, TypeOK, Restart, CardTypeOK
<1>3. EnvTypeOK'
  BY SizesAssumption DEF TypeInv, TypeOK, Restart, EnvTypeOK, Seconds
<1> QED
  BY <1>1, <1>2, <1>3 DEF TypeInv, TypeOK

(* Every step keeps the types.                                              *)
LEMMA NextType ==
  ASSUME TypeInv, [Next]_vars PROVE TypeInv'
<1>1. CASE button_isr_handler \/ Tick \/ UNCHANGED vars
  <2> USE <1>1 DEF button_isr_handler, Tick, TypeInv, TypeOK, vars,
                   logVars, rtosVars, flagVars, wrtVars, envVars
  <2>1. TasksTypeOK' /\ WriterHolds'
    BY DEF TasksTypeOK, WriterHolds
  <2>2. CardTypeOK'
    BY DEF CardTypeOK
  <2>3. EnvTypeOK'
    BY SizesAssumption DEF EnvTypeOK, Seconds
  <2> QED
    BY <2>1, <2>2, <2>3
<1>2. CASE PanicReboot \/ PowerLoss
  <2>1. Restart /\ resets' \in Nat
    BY <1>2 DEF PanicReboot, PowerLoss, TypeInv, TypeOK, EnvTypeOK
  <2> QED
    BY <2>1, RestartType
<1>3. CASE \E p \in Producers :
             LogDataSend(p) \/ \E t \in Types(p) : LogDataCheck(p, t)
  BY <1>3, LogDataType
<1>4. CASE sdcard_control_task \/ sdcard_writer_task
  BY <1>4, ControlType, WriterType
<1> QED
  BY <1>1, <1>2, <1>3, <1>4 DEF Next, Running

(* Every value the program works with has its type, the queue stays within *)
(* the size it was created with.                                           *)
THEOREM TypeCorrect == Spec => []TypeOK
<1>1. TypeInv => TypeOK
  BY DEF TypeInv
<1> QED
  BY <1>1, InitType, NextType, PTL DEF Spec

-----------------------------------------------------------------------------
(* Who owns the mutex, when a log is open, and that no write meets a close. *)
LockInv == NoWriteAfterClose /\ MutexOwned /\ ActiveWhen /\ OpenWhen

(* After init_sdcard nobody owns the mutex and no log is open.              *)
LEMMA InitLock == Init => LockInv
BY NullAssumption
DEF Init, LockInv, NoWriteAfterClose, MutexOwned, ActiveWhen, OpenWhen, Starting

(* Every step keeps the discipline of the mutex and of the open log.        *)
LEMMA LockStep ==
  ASSUME TypeInv, LockInv, [Next]_vars PROVE LockInv'
<1> DEFINE Ranges ==
          /\ cpc \in {"take", "delay", "panic"} \cup Starting \cup Stopping
          /\ wpc \in {"receive", "lock", "header", "body", "give"}
          /\ sdcard_active \in BOOLEAN
          /\ now # NULL /\ NULL \notin {"control", "writer"}
<1>1. Ranges
  BY NullAssumption DEF TypeInv, TypeOK, TasksTypeOK, EnvTypeOK
<1> USE DEF LockInv, NoWriteAfterClose, MutexOwned, ActiveWhen, OpenWhen, Starting,
            Stopping, logVars, rtosVars, flagVars, wrtVars, envVars
<1>2. CASE UNCHANGED vars
  BY <1>2 DEF vars
<1>3. CASE button_isr_handler \/ Tick
  BY <1>3 DEF button_isr_handler, Tick
<1>4. CASE \E p \in Producers :
             LogDataSend(p) \/ \E t \in Types(p) : LogDataCheck(p, t)
  BY <1>4 DEF LogDataSend, LogDataCheck
<1>5. ASSUME sdcard_control_task PROVE LockInv'
  <2>1. UNCHANGED <<wpc, wrec>>
    BY <1>5 DEF sdcard_control_task
  <2>2. CASE Take
    BY <1>1, <2>1, <2>2 DEF Take
  <2>3. CASE mount_sdcard
    BY <1>1, <2>1, <2>3 DEF mount_sdcard
  <2>4. CASE ControlLock
    BY <1>1, <2>1, <2>4 DEF ControlLock
  <2>5. CASE Open
    BY <1>1, <2>1, <2>5 DEF Open, Fopen
  <2>6. CASE CheckOpened
    BY <1>1, <2>1, <2>6 DEF CheckOpened
  <2>7. CASE SendPreamble
    BY <1>1, <2>1, <2>7 DEF SendPreamble
  <2>8. CASE SetActive
    BY <1>1, <2>1, <2>8 DEF SetActive
  <2>9. CASE Close
    BY <1>1, <2>1, <2>9 DEF Close
  <2>10. CASE unmount_sdcard \/ Debounce
    BY <1>1, <2>1, <2>10 DEF unmount_sdcard, Debounce
  <2> QED
    BY <1>5, <2>2, <2>3, <2>4, <2>5, <2>6, <2>7, <2>8, <2>9, <2>10
    DEF sdcard_control_task
<1>6. ASSUME sdcard_writer_task PROVE LockInv'
  <2>1. UNCHANGED <<logFile, cpc, sdcard_active>>
    BY <1>6 DEF sdcard_writer_task
  <2>2. CASE Receive
    BY <1>1, <2>1, <2>2 DEF Receive
  <2>3. CASE WriterLock
    BY <1>1, <2>1, <2>3 DEF WriterLock
  <2>4. CASE WriterTimeout
    BY <1>1, <2>1, <2>4 DEF WriterTimeout
  <2>5. CASE Fwrite
    BY <1>1, <2>1, <2>5 DEF Fwrite
  <2>6. CASE Give
    BY <1>1, <2>1, <2>6 DEF Give
  <2> QED
    BY <1>6, <2>2, <2>3, <2>4, <2>5, <2>6 DEF sdcard_writer_task
<1>7. CASE Restart
  BY <1>1, <1>7 DEF Restart
<1> HIDE DEF LockInv
<1>8. CASE PanicReboot \/ PowerLoss
  BY <1>7, <1>8 DEF PanicReboot, PowerLoss
<1> QED
  BY <1>2, <1>3, <1>4, <1>5, <1>6, <1>8 DEF Next, Running

-----------------------------------------------------------------------------
(* What the open log and the logs on the card look like. *)
ContentInv == FilesParsable /\ TailWhole

(* An empty log is paired.                                                  *)
LEMMA PairedEmpty == Paired(<<>>)
BY DEF Paired

(* A header after whole records, or the body of the last header, keeps a log*)
(* paired.                                                                  *)
LEMMA PairedAppend ==
  ASSUME NEW s \in Seq(Chunk), NEW c \in Chunk, Paired(s),
         \/ Len(s) % 2 = 0 /\ c.part = "header"
         \/ Len(s) % 2 = 1 /\ c.part = "body" /\ c.rec = s[Len(s)].rec
  PROVE  Paired(Append(s, c))
<1> DEFINE t == Append(s, c)
<1>1. /\ Len(t) = Len(s) + 1 /\ t[Len(s) + 1] = c
      /\ \A i \in 1 .. Len(s) : t[i] = s[i]
  BY AppendProperties
<1>2. Len(s) \in Nat
  OBVIOUS
<1> HIDE DEF t
<1> SUFFICES ASSUME NEW i \in 1 .. Len(t)
             PROVE  \/ i % 2 = 1 /\ t[i].part = "header"
                    \/ i % 2 = 0 /\ t[i].part = "body" /\ t[i].rec = t[i - 1].rec
  BY DEF Paired, t
<1>3. CASE i = Len(s) + 1
  <2>1. CASE Len(s) % 2 = 0 /\ c.part = "header"
    BY <1>1, <1>2, <1>3, <2>1
  <2>2. CASE Len(s) % 2 = 1 /\ c.part = "body" /\ c.rec = s[Len(s)].rec
    <3>1. Len(s) >= 1
      BY <1>2, <2>2
    <3>2. t[i - 1] = s[Len(s)]
      BY <1>1, <1>2, <1>3, <3>1
    <3> QED
      BY <1>1, <1>2, <1>3, <2>2, <3>2
  <2> QED
    BY <2>1, <2>2
<1>4. CASE i # Len(s) + 1
  <2>1. i \in 1 .. Len(s)
    BY <1>1, <1>2, <1>4
  <2>2. t[i] = s[i] /\ (i # 1 => t[i - 1] = s[i - 1])
    BY <1>1, <1>2, <2>1
  <2>3. i % 2 = 0 => i # 1
    BY <2>1
  <2>4. \/ i % 2 = 1 /\ s[i].part = "header"
        \/ i % 2 = 0 /\ s[i].part = "body" /\ s[i].rec = s[i - 1].rec
    BY <2>1 DEF Paired
  <2> QED
    BY <2>2, <2>3, <2>4
<1> QED
  BY <1>3, <1>4

(* The card starts with empty logs.                                         *)
LEMMA InitContent == Init => ContentInv
BY PairedEmpty DEF Init, ContentInv, FilesParsable, TailWhole, Seconds

(* A write, or one lost to a full card, keeps the logs paired (sdcard.c:48-50).*)
LEMMA FwriteContent ==
  ASSUME TypeInv, LockInv, ContentInv, sdcard_writer_task, Fwrite PROVE ContentInv'
<1> DEFINE chunk == [part |-> wpc, rec |-> wrec]
<1>1. /\ stream \in Seq(Chunk) /\ free \in Nat /\ logFile # NULL
      /\ logFile' = logFile /\ files' = files
      /\ wpc \in {"header", "body"} /\ wpc' = IF wpc = "header" THEN "body" ELSE "give"
      /\ wrec' = wrec
      /\ chunk \in Chunk
  BY DEF TypeInv, TypeOK, CardTypeOK, WriterHolds, LockInv, NoWriteAfterClose,
         sdcard_writer_task, Fwrite, Chunk
<1>2. CASE free > 0
  <2>1. stream' = Append(stream, chunk) /\ free' = free - 1
    BY <1>2 DEF Fwrite, FwriteChunk
  <2>2. \/ Len(stream) % 2 = 0 /\ chunk.part = "header"
        \/ Len(stream) % 2 = 1 /\ chunk.part = "body" /\ chunk.rec = stream[Len(stream)].rec
    BY <1>1, <1>2 DEF ContentInv, TailWhole
  <2>3. Paired(stream')
    BY <1>1, <2>1, <2>2, PairedAppend DEF ContentInv, FilesParsable
  <2>4. Len(stream') = Len(stream) + 1 /\ stream'[Len(stream')] = chunk
    BY <1>1, <2>1, AppendProperties
  <2>5. Len(stream) \in Nat
    BY <1>1
  <2>6. TailWhole'
    BY <1>1, <2>2, <2>4, <2>5 DEF TailWhole
  <2> QED
    BY <1>1, <2>3, <2>6 DEF ContentInv, FilesParsable
<1>3. CASE ~(free > 0)
  BY <1>1, <1>3 DEF Fwrite, FwriteChunk, ContentInv, FilesParsable, TailWhole
<1> QED
  BY <1>2, <1>3

(* A log is opened, closed or lost only while no body is outstanding.       *)
LEMMA ControlContent ==
  ASSUME TypeInv, LockInv, ContentInv, sdcard_control_task PROVE ContentInv'
<1>1. UNCHANGED <<wpc, wrec>>
  BY DEF sdcard_control_task, wrtVars
<1>2. CASE Open
  <2>1. wpc # "body" /\ stream' = <<>> /\ now \in Seconds
    BY <1>2, NullAssumption DEF Open, LockInv, MutexOwned, TypeInv, TypeOK, EnvTypeOK
  <2>2. \A n \in Seconds : Paired(files'[n])
    <3>1. CASE Fopen(now)
      BY <2>1, <3>1, PairedEmpty
      DEF Fopen, ContentInv, FilesParsable, TypeInv, TypeOK, CardTypeOK
    <3>2. CASE ~Fopen(now)
      BY <1>2, <3>2 DEF Open, ContentInv, FilesParsable
    <3> QED
      BY <3>1, <3>2
  <2> QED
    BY <1>1, <2>1, <2>2, PairedEmpty DEF ContentInv, FilesParsable, TailWhole
<1>3. CASE Close /\ logFile # NULL
  <2>1. wpc # "body" /\ stream' = <<>> /\ logFile \in Seconds
    BY <1>3, NullAssumption DEF Close, LockInv, MutexOwned, TypeInv, TypeOK, CardTypeOK
  <2>2. \A n \in Seconds : Paired(files'[n])
    BY <1>3, <2>1 DEF Close, ContentInv, FilesParsable, TypeInv, TypeOK, CardTypeOK
  <2> QED
    BY <1>1, <2>1, <2>2, PairedEmpty DEF ContentInv, FilesParsable, TailWhole
<1>4. CASE ~Open /\ ~(Close /\ logFile # NULL)
  <2>1. UNCHANGED logVars
    BY <1>4 DEF sdcard_control_task, Take, mount_sdcard, ControlLock, CheckOpened,
                SendPreamble, SetActive, Close, unmount_sdcard, Debounce, logVars
  <2> QED
    BY <1>1, <2>1 DEF logVars, ContentInv, FilesParsable, TailWhole
<1> QED
  BY <1>2, <1>3, <1>4

(* Every step keeps the logs paired.                                        *)
LEMMA ContentStep ==
  ASSUME TypeInv, LockInv, ContentInv, [Next]_vars PROVE ContentInv'
<1> USE DEF ContentInv, FilesParsable, TailWhole, logVars, wrtVars
<1>1. CASE UNCHANGED <<logVars, wrtVars>>
  BY <1>1
<1>2. CASE sdcard_writer_task
  <2>1. UNCHANGED <<logFile, files>>
    BY <1>2 DEF sdcard_writer_task
  <2>2. CASE Receive \/ WriterLock \/ WriterTimeout \/ Give
    BY <2>1, <2>2 DEF Receive, WriterLock, WriterTimeout, Give
  <2>3. CASE Fwrite
    BY <1>2, <2>3, FwriteContent
  <2> QED
    BY <1>2, <2>2, <2>3 DEF sdcard_writer_task
<1>3. CASE Restart
  BY <1>3, PairedEmpty DEF Restart
<1>4. CASE \/ button_isr_handler \/ Tick
           \/ \E p \in Producers :
                LogDataSend(p) \/ \E t \in Types(p) : LogDataCheck(p, t)
  BY <1>1, <1>4 DEF button_isr_handler, Tick, LogDataSend, LogDataCheck
<1>5. CASE PanicReboot \/ PowerLoss
  BY <1>3, <1>5 DEF PanicReboot, PowerLoss
<1>6. CASE UNCHANGED vars
  BY <1>1, <1>6 DEF vars
<1> HIDE DEF ContentInv
<1> QED
  BY <1>2, <1>4, <1>5, <1>6, ControlContent DEF Next, Running

-----------------------------------------------------------------------------
(* The inductive invariant holds after init_sdcard ...                      *)
LEMMA InitIInv == Init => IInv
BY InitType, InitLock, InitContent DEF IInv, TypeInv, LockInv, ContentInv

(* ... and every step keeps it ...                                          *)
LEMMA StepIInv ==
  ASSUME IInv, [Next]_vars PROVE IInv'
BY NextType, LockStep, ContentStep DEF IInv, TypeInv, LockInv, ContentInv

(* ... so it always holds: for any queue, card, number of records, presses and*)
(* power losses, with or without the pause being long enough (sdcard.c:134).*)
THEOREM Invariance == Spec => []IInv
BY InitIInv, StepIInv, PTL DEF Spec

(* No fwrite runs on a FILE that is closed or being opened or closed.       *)
THEOREM NoWriteAfterCloseHolds == Spec => []NoWriteAfterClose
<1>1. IInv => NoWriteAfterClose
  BY DEF IInv
<1> QED
  BY <1>1, Invariance, PTL

(* Every log on the card, and the open one, is pairs of header and body,    *)
(* of one record each, but for a last header on a full card or of the       *)
(* record being written.                                                    *)
THEOREM FilesParsableHolds == Spec => []FilesParsable
<1>1. IInv => FilesParsable
  BY DEF IInv
<1> QED
  BY <1>1, Invariance, PTL

(* With the flag off nothing written is unsynced.                           *)
THEOREM InactiveIsSafeHolds == Spec => []InactiveIsSafe
<1>1. IInv => InactiveIsSafe
  BY DEF IInv, InactiveIsSafe, OpenWhen, ActiveWhen, TailWhole, Starting
<1> QED
  BY <1>1, Invariance, PTL

(* Only Open and Close touch durable logs.                                  *)
LEMMA FilesChange ==
  ASSUME IInv, [Next]_vars, files' # files
  PROVE  \/ cpc = "open" /\ files' = [files EXCEPT ![now] = <<>>]
         \/ cpc = "close" /\ logFile # NULL /\ files' = [files EXCEPT ![logFile] = stream]
<1> USE DEF logVars, vars
<1>1. CASE sdcard_control_task
  BY <1>1 DEF sdcard_control_task, Take, mount_sdcard, ControlLock, Open, Fopen,
     CheckOpened, SendPreamble, SetActive, Close, unmount_sdcard, Debounce
<1>2. CASE ~sdcard_control_task
  BY <1>2 DEF Next, Running, button_isr_handler, LogDataSend, LogDataCheck,
     sdcard_writer_task, Tick, PowerLoss, PanicReboot, Restart
<1> QED
  BY <1>1, <1>2

(* A stop cuts no record in two.                                            *)
THEOREM StopKeepsRecordsWholeHolds == Spec => StopKeepsRecordsWhole
<1>1. ASSUME IInv, [Next]_vars, NEW n \in Seconds, files'[n] # files[n], free > 0
      PROVE  Len(files'[n]) % 2 = 0
  <2>1. files \in [Seconds -> Seq(Chunk)] /\ now \in Seconds /\ logFile \in Seconds \cup {NULL}
    BY <1>1 DEF IInv, TypeOK, CardTypeOK, EnvTypeOK
  <2>2. CASE cpc = "open" /\ files' = [files EXCEPT ![now] = <<>>]
    <3>1. files'[n] = <<>>
      BY <1>1, <2>1, <2>2
    <3> QED
      BY <3>1
  <2>3. CASE cpc = "close" /\ logFile # NULL /\ files' = [files EXCEPT ![logFile] = stream]
    <3>1. wpc # "body"
      BY <1>1, <2>3, NullAssumption DEF IInv, MutexOwned
    <3>2. Len(stream) % 2 = 0
      BY <1>1, <3>1 DEF IInv, TailWhole
    <3> QED
      BY <1>1, <2>1, <2>3, <3>2
  <2> QED
    BY <1>1, <2>2, <2>3, FilesChange
<1>2. ASSUME IInv, [Next]_vars
      PROVE  [\A n \in Seconds : files'[n] # files[n] /\ free > 0
                => Len(files'[n]) % 2 = 0]_vars
  BY <1>1, <1>2
<1> QED
  BY <1>2, Invariance, PTL DEF Spec, StopKeepsRecordsWhole

-----------------------------------------------------------------------------
(* The card implements the log store. *)
LEMMA WholeEmpty == Whole(<<>>) = <<>>
BY EmptySeq DEF Whole

(* Two chunks make a record.                                                *)
LEMMA WholeLen ==
  ASSUME NEW s \in Seq(Chunk) PROVE Len(Whole(s)) = Len(s) \div 2
BY DEF Whole

(* A header alone adds no record.                                           *)
LEMMA WholeHeader ==
  ASSUME NEW s \in Seq(Chunk), NEW c \in Chunk, Len(s) % 2 = 0
  PROVE  Whole(Append(s, c)) = Whole(s)
<1>1. (Len(s) + 1) \div 2 = Len(s) \div 2
  OBVIOUS
<1>2. \A i \in 1 .. (Len(s) \div 2) : 2 * i \in 1 .. Len(s)
  OBVIOUS
<1> QED
  BY <1>1, <1>2, AppendProperties DEF Whole

(* A body adds one record and keeps the others.                             *)
LEMMA WholeBody ==
  ASSUME NEW s \in Seq(Chunk), NEW c \in Chunk, Len(s) % 2 = 1
  PROVE  /\ Len(Whole(Append(s, c))) = Len(Whole(s)) + 1
         /\ \A i \in 1 .. Len(Whole(s)) : Whole(Append(s, c))[i] = Whole(s)[i]
<1>1. (Len(s) + 1) \div 2 = (Len(s) \div 2) + 1
  OBVIOUS
<1>2. \A i \in 1 .. (Len(s) \div 2) : 2 * i \in 1 .. Len(s)
  OBVIOUS
<1>3. Append(s, c) \in Seq(Chunk) /\ Len(Append(s, c)) = Len(s) + 1
      /\ \A i \in 1 .. Len(s) : Append(s, c)[i] = s[i]
  BY AppendProperties
<1>4. Len(Whole(s)) = Len(s) \div 2 /\ Len(Whole(Append(s, c))) = (Len(s) + 1) \div 2
  BY <1>3, WholeLen
<1> QED
  BY <1>1, <1>2, <1>3, <1>4 DEF Whole

(* Initial states are initial states of the log store.                      *)
LEMMA StoreInit == Init => Store!Init
<1> SUFFICES ASSUME Init PROVE Store!Init
  OBVIOUS
<1>1. logFile = NULL /\ stream = <<>> /\ files = [n \in Seconds |-> <<>>]
  BY DEF Init
<1>2. [n \in Seconds |-> Whole(files[n])] = [n \in Seconds |-> <<>>]
  BY <1>1, WholeEmpty
<1> QED
  BY <1>1, <1>2, WholeEmpty DEF Store!Init

(* A write is the logging of one record or invisible to the log store.      *)
LEMMA StoreWrite ==
  ASSUME IInv, IInv', sdcard_writer_task, Fwrite
  PROVE  \/ Store!Log
         \/ Whole(stream') = Whole(stream) /\ UNCHANGED <<logFile, files>>
<1> DEFINE chunk == [part |-> wpc, rec |-> wrec]
<1>1. /\ stream \in Seq(Chunk) /\ stream' \in Seq(Chunk) /\ free \in Nat /\ logFile # NULL
      /\ UNCHANGED <<logFile, files>> /\ wpc \in {"header", "body"} /\ chunk \in Chunk
  BY DEF IInv, TypeOK, CardTypeOK, WriterHolds, NoWriteAfterClose, sdcard_writer_task,
         Fwrite, Chunk
<1>2. CASE free > 0 /\ wpc = "header"
  BY <1>1, <1>2, WholeHeader DEF Fwrite, FwriteChunk, IInv, TailWhole
<1>3. CASE free > 0 /\ wpc = "body"
  <2>1. stream' = Append(stream, chunk) /\ Len(stream) % 2 = 1
    BY <1>3 DEF Fwrite, FwriteChunk, IInv, TailWhole
  <2>2. /\ Len(Whole(stream')) = Len(Whole(stream)) + 1
        /\ \A i \in 1 .. Len(Whole(stream)) : Whole(stream')[i] = Whole(stream)[i]
    BY <1>1, <2>1, WholeBody
  <2> QED
    BY <1>1, <2>2 DEF Store!Log
<1>4. CASE ~(free > 0)
  BY <1>1, <1>4 DEF Fwrite, FwriteChunk
<1> QED
  BY <1>1, <1>2, <1>3, <1>4

(* A step of the control task is a start, a stop or invisible.              *)
LEMMA StoreControl ==
  ASSUME IInv, sdcard_control_task
  PROVE  \/ \E n \in Seconds : Store!Start(n)
         \/ Store!Stop
         \/ UNCHANGED <<logFile, files, stream>>
<1>1. files \in [Seconds -> Seq(Chunk)] /\ now \in Seconds /\ logFile \in Seconds \cup {NULL}
  BY DEF IInv, TypeOK, CardTypeOK, EnvTypeOK
<1>2. CASE Open
  <2>1. logFile = NULL /\ stream = <<>> /\ stream' = <<>>
    BY <1>2 DEF Open, IInv, OpenWhen, TailWhole
  <2>2. CASE Fopen(now)
    <3>1. [n \in Seconds |-> Whole(files'[n])]
            = [[n \in Seconds |-> Whole(files[n])] EXCEPT ![now] = <<>>]
      BY <1>1, <2>2, WholeEmpty DEF Fopen
    <3>2. Store!Start(now)
      BY <2>1, <2>2, <3>1, WholeEmpty DEF Fopen, Store!Start
    <3> QED
      BY <1>1, <3>2
  <2>3. CASE ~Fopen(now)
    BY <1>2, <2>1, <2>3 DEF Open
  <2> QED
    BY <2>2, <2>3
<1>3. CASE Close /\ logFile # NULL
  <2>1. files' = [files EXCEPT ![logFile] = stream] /\ logFile' = NULL /\ stream' = <<>>
    BY <1>3 DEF Close
  <2>2. [n \in Seconds |-> Whole(files'[n])]
          = [[n \in Seconds |-> Whole(files[n])] EXCEPT ![logFile] = Whole(stream)]
    BY <1>1, <1>3, <2>1
  <2> QED
    BY <1>3, <2>1, <2>2, WholeEmpty DEF Store!Stop
<1>4. CASE ~Open /\ ~(Close /\ logFile # NULL)
  BY <1>4 DEF sdcard_control_task, Take, mount_sdcard, ControlLock, CheckOpened,
              SendPreamble, SetActive, Close, unmount_sdcard, Debounce, logVars
<1> QED
  BY <1>2, <1>3, <1>4

(* Every step is one of the log store, or invisible to it.                  *)
LEMMA StoreStep ==
  ASSUME IInv, [Next]_vars PROVE [Store!Next]_(Store!vars)
<1>1. IInv'
  BY StepIInv
<1>2. CASE UNCHANGED <<logFile, files, stream>>
  BY <1>2 DEF Store!vars
<1>3. CASE sdcard_writer_task
  <2>1. CASE Fwrite
    <3>1. CASE Store!Log
      BY <3>1 DEF Store!Next
    <3>2. CASE Whole(stream') = Whole(stream) /\ UNCHANGED <<logFile, files>>
      BY <3>2 DEF Store!vars
    <3> QED
      BY <1>1, <1>3, <2>1, <3>1, <3>2, StoreWrite
  <2>2. CASE ~Fwrite
    BY <1>2, <1>3, <2>2 DEF sdcard_writer_task, Receive, WriterLock, WriterTimeout, Give
  <2> QED
    BY <2>1, <2>2
<1>4. CASE sdcard_control_task
  BY <1>2, <1>4, StoreControl DEF Store!Next
<1>5. CASE Restart
  <2>1. Store!Lose
    BY <1>5, WholeEmpty DEF Restart, Store!Lose
  <2> QED
    BY <2>1 DEF Store!Next
<1>6. CASE ~sdcard_control_task /\ ~sdcard_writer_task /\ ~Restart
  BY <1>2, <1>6 DEF Next, Running, vars, logVars, button_isr_handler, LogDataSend,
     LogDataCheck, Tick, PanicReboot, PowerLoss
<1> QED
  BY <1>3, <1>4, <1>5, <1>6

(* Whatever its tasks, mutex and queue do, the logger is the log store.     *)
THEOREM Refinement == Spec => ImplementsLogStore
BY StoreInit, StoreStep, Invariance, PTL DEF Spec, ImplementsLogStore, Store!Spec

-----------------------------------------------------------------------------
(* Records on their way: what a send, a receive and a write do to each. *)

(* A send leaves the queue as it is, when full, or adds the record behind.  *)
LEMMA QueueSendElements ==
  ASSUME NEW q \in Seq(Record), NEW r \in Record
  PROVE  /\ QueueSend(q, r) \in Seq(Record) /\ Len(q) \in Nat
         /\ \A i \in 1 .. Len(QueueSend(q, r)) :
              \/ i \in 1 .. Len(q) /\ QueueSend(q, r)[i] = q[i]
              \/ i = Len(q) + 1 /\ QueueSend(q, r)[i] = r
         /\ \/ QueueSend(q, r) = q /\ Len(q) >= QUEUE_SIZE
            \/ /\ Len(QueueSend(q, r)) = Len(q) + 1
               /\ \A i \in 1 .. Len(q) : QueueSend(q, r)[i] = q[i]
               /\ QueueSend(q, r)[Len(q) + 1] = r
<1>1. Len(q) \in Nat
  OBVIOUS
<1>2. CASE Len(q) < QUEUE_SIZE
  BY <1>1, <1>2, AppendProperties DEF QueueSend
<1>3. CASE ~(Len(q) < QUEUE_SIZE)
  BY <1>1, <1>3, SizesAssumption DEF QueueSend
<1> QED
  BY <1>2, <1>3

(* The writer takes the record at the head of the queue (sdcard.c:29-33).   *)
LEMMA ReceiveElements ==
  ASSUME TypeInv, Receive
  PROVE  /\ Len(sdcard_queue) \in Nat \ {0} /\ wrec' = sdcard_queue[1]
         /\ Len(sdcard_queue') = Len(sdcard_queue) - 1
         /\ \A i \in 1 .. Len(sdcard_queue') : sdcard_queue'[i] = sdcard_queue[i + 1]
         /\ wpc = "receive" /\ wpc' = "lock" /\ UNCHANGED <<stream, free, logFileMutex>>
<1>1. sdcard_queue \in Seq(Record) /\ sdcard_queue # <<>>
  BY DEF Receive, TypeInv, TypeOK, TasksTypeOK
<1> QED
  BY <1>1, HeadTailProperties DEF Receive

(* One fwrite adds a chunk of the writer's record or, on a full card, none. *)
LEMMA FwriteElements ==
  ASSUME TypeInv, Fwrite
  PROVE  /\ Len(stream) \in Nat /\ UNCHANGED <<wrec, sdcard_queue, logFileMutex>>
         /\ wpc \in {"header", "body"} /\ wrec \in Record
         /\ wpc' = IF wpc = "header" THEN "body" ELSE "give"
         /\ \/ ~(free > 0) /\ UNCHANGED <<stream, free>>
            \/ /\ free > 0 /\ free' = free - 1
               /\ Len(stream') = Len(stream) + 1
               /\ \A i \in 1 .. Len(stream) : stream'[i] = stream[i]
               /\ stream'[Len(stream) + 1] = [part |-> wpc, rec |-> wrec]
<1>1. stream \in Seq(Chunk) /\ wrec \in Record /\ wpc \in {"header", "body"}
  BY DEF Fwrite, TypeInv, TypeOK, CardTypeOK, WriterHolds
<1>2. [part |-> wpc, rec |-> wrec] \in Chunk
  BY <1>1 DEF Chunk
<1>3. CASE free > 0
  <2>1. stream' = Append(stream, [part |-> wpc, rec |-> wrec]) /\ free' = free - 1
    BY <1>3 DEF Fwrite, FwriteChunk
  <2> QED
    BY <1>1, <1>2, <1>3, <2>1, AppendProperties DEF Fwrite
<1>4. CASE ~(free > 0)
  BY <1>1, <1>4 DEF Fwrite, FwriteChunk
<1> QED
  BY <1>3, <1>4

(* A record that log_data has decided to send is of the caller that did.    *)
PendingTyped ==
  \A p \in Producers : pending[p] # NULL => pending[p].src = p /\ pending[p].type \in Types(p)

(* No caller has one before the first log is opened, and each caller sends  *)
(* records of its own.                                                      *)
LEMMA PendingTypedStep ==
  /\ Init => PendingTyped
  /\ IInv /\ PendingTyped /\ [Next]_vars => PendingTyped'
<1>1. Init => PendingTyped
  BY DEF Init, PendingTyped
<1>2. ASSUME IInv, PendingTyped, [Next]_vars PROVE PendingTyped'
  <2>1. pending \in [Producers -> Record \cup {NULL}]
    BY <1>2 DEF IInv, TypeOK, TasksTypeOK
  <2>2. ASSUME NEW p \in Producers, NEW t \in Types(p), LogDataCheck(p, t)
        PROVE  PendingTyped'
    BY <1>2, <2>1, <2>2 DEF LogDataCheck, PendingTyped, NewRecord
  <2>3. ASSUME NEW p \in Producers, LogDataSend(p) PROVE PendingTyped'
    BY <1>2, <2>1, <2>3 DEF LogDataSend, PendingTyped
  <2>4. CASE Restart
    BY <2>4 DEF Restart, PendingTyped
  <2>5. CASE UNCHANGED pending
    BY <1>2, <2>5 DEF PendingTyped
  <2> QED
    BY <1>2, <2>2, <2>3, <2>4, <2>5 DEF Next, Running, button_isr_handler, sdcard_control_task,
       sdcard_writer_task, Tick, PowerLoss, PanicReboot, vars
<1> QED
  BY <1>1, <1>2

-----------------------------------------------------------------------------
(* Records stay in the log they were handed over for. *)

(* When the next log is opened nothing of the last one is on its way.       *)
Quiet ==
  ~sdcard_active /\ cpc \in {"take", "mount", "openLock", "open", "check", "sendVersion"}
    => Settled
(* All that is on its way was handed over since the log was opened.         *)
CurrentOnly ==
  /\ \A i \in 1 .. Len(sdcard_queue) : sdcard_queue[i].session = session
  /\ \A p \in Producers : pending[p] # NULL => pending[p].session = session
  /\ wpc # "receive" => wrec.session = session
  /\ \A i \in 1 .. Len(stream) : stream[i].rec.session = session

(* The pause before the next press is served lets everything run dry; until *)
(* the flag is set nothing new comes (sdcard.c:134, main.c:245).            *)
LEMMA QuietStep ==
  ASSUME WriterSettles
  PROVE  /\ Init => Quiet
         /\ IInv /\ Quiet /\ [Next]_vars => Quiet'
<1>1. Init => Quiet
  BY DEF Init, Quiet, Settled
<1>2. ASSUME IInv, Quiet, [Next]_vars PROVE Quiet'
  <2> USE DEF Quiet, Settled, logVars, rtosVars, flagVars, wrtVars, envVars
  <2>1. CASE button_isr_handler \/ Tick \/ UNCHANGED vars
    BY <1>2, <2>1 DEF button_isr_handler, Tick, vars
  <2>2. ASSUME NEW p \in Producers, NEW t \in Types(p), LogDataCheck(p, t) PROVE Quiet'
    BY <1>2, <2>2 DEF LogDataCheck
  <2>3. ASSUME NEW p \in Producers, LogDataSend(p) PROVE Quiet'
    BY <1>2, <2>3 DEF LogDataSend
  <2>4. CASE Restart
    BY <2>4 DEF Restart
  <2>5. CASE sdcard_control_task
    <3>1. UNCHANGED <<wpc, pending>>
      BY <2>5 DEF sdcard_control_task
    <3>2. CASE Take \/ mount_sdcard \/ ControlLock \/ Open \/ CheckOpened \/ Close
                 \/ unmount_sdcard \/ SetActive
      BY <1>2, <3>1, <3>2 DEF Take, mount_sdcard, ControlLock, Open, CheckOpened, Close,
         unmount_sdcard, SetActive
    <3>3. CASE SendPreamble \/ Debounce
      BY <1>2, <3>1, <3>3 DEF SendPreamble, Debounce
    <3> QED
      BY <2>5, <3>2, <3>3 DEF sdcard_control_task
  <2>6. CASE sdcard_writer_task
    BY <1>2, <2>6 DEF sdcard_writer_task, Receive, WriterLock, WriterTimeout, Fwrite, Give
  <2> QED
    BY <1>2, <2>1, <2>2, <2>3, <2>4, <2>5, <2>6 DEF Next, Running, PowerLoss, PanicReboot
<1> QED
  BY <1>1, <1>2

(* A record is logged in the session it was handed over in.                 *)
LEMMA CurrentStep ==
  /\ Init => CurrentOnly
  /\ IInv /\ Quiet /\ CurrentOnly /\ [Next]_vars => CurrentOnly'
<1>1. Init => CurrentOnly
  BY DEF Init, CurrentOnly
<1>2. ASSUME IInv, Quiet, CurrentOnly, [Next]_vars PROVE CurrentOnly'
  <2>0. TypeInv /\ pending \in [Producers -> Record \cup {NULL}] /\ sdcard_queue \in Seq(Record)
    BY <1>2 DEF IInv, TypeInv, TypeOK, TasksTypeOK
  <2>1. CASE UNCHANGED <<sdcard_queue, pending, wpc, wrec, stream, session>>
    BY <1>2, <2>1 DEF CurrentOnly
  <2>2. ASSUME NEW p \in Producers, NEW t \in Types(p), LogDataCheck(p, t) PROVE CurrentOnly'
    BY <1>2, <2>0, <2>2 DEF LogDataCheck, CurrentOnly, NewRecord, rtosVars, logVars, wrtVars
  <2>3. ASSUME NEW p \in Producers, LogDataSend(p) PROVE CurrentOnly'
    <3>1. pending[p] \in Record /\ pending[p].session = session
      BY <1>2, <2>0, <2>3 DEF LogDataSend, CurrentOnly
    <3>2. sdcard_queue' = QueueSend(sdcard_queue, pending[p])
      BY <2>3 DEF LogDataSend
    <3>3. \A i \in 1 .. Len(sdcard_queue') :
            \/ i \in 1 .. Len(sdcard_queue) /\ sdcard_queue'[i] = sdcard_queue[i]
            \/ sdcard_queue'[i] = pending[p]
      BY <2>0, <3>1, <3>2, QueueSendElements
    <3>4. \A i \in 1 .. Len(sdcard_queue') : sdcard_queue'[i].session = session
      BY <1>2, <3>1, <3>3 DEF CurrentOnly
    <3> QED
      BY <1>2, <2>0, <2>3, <3>4 DEF LogDataSend, CurrentOnly, logVars, wrtVars
  <2>4. CASE Restart
    BY <2>4 DEF Restart, CurrentOnly
  <2>5. CASE sdcard_control_task
    <3>1. UNCHANGED <<wpc, wrec, pending>>
      BY <2>5 DEF sdcard_control_task, wrtVars
    <3>2. CASE Take \/ mount_sdcard \/ ControlLock \/ CheckOpened \/ SetActive
                 \/ unmount_sdcard \/ Debounce
      BY <2>1, <3>1, <3>2 DEF Take, mount_sdcard, ControlLock, CheckOpened, SetActive,
         unmount_sdcard, Debounce, logVars, rtosVars
    <3>3. CASE Open
      <4>1. Settled
        BY <1>2, <3>3 DEF IInv, Open, ActiveWhen, Starting, Quiet
      <4> QED
        BY <3>1, <3>3, <4>1 DEF Open, Settled, CurrentOnly
    <3>4. CASE Close
      BY <1>2, <3>1, <3>4 DEF Close, CurrentOnly, logVars
    <3>5. CASE SendPreamble
      <4> DEFINE t == IF cpc = "sendVersion" THEN "version" ELSE "info"
                 r == NewRecord(t, "control", 0)
      <4>1. r \in Record /\ r.session = session
        BY <2>0 DEF NewRecord, Record, TypeInv, TypeOK, EnvTypeOK
      <4>2. sdcard_queue' = QueueSend(sdcard_queue, r) /\ UNCHANGED <<stream, session>>
        BY <3>5 DEF SendPreamble, logVars
      <4> HIDE DEF r
      <4>3. \A i \in 1 .. Len(sdcard_queue') :
              \/ i \in 1 .. Len(sdcard_queue) /\ sdcard_queue'[i] = sdcard_queue[i]
              \/ sdcard_queue'[i] = r
        BY <2>0, <4>1, <4>2, QueueSendElements
      <4>4. \A i \in 1 .. Len(sdcard_queue') : sdcard_queue'[i].session = session
        BY <1>2, <4>1, <4>3 DEF CurrentOnly
      <4> QED
        BY <1>2, <3>1, <4>2, <4>4 DEF CurrentOnly
    <3> QED
      BY <2>5, <3>2, <3>3, <3>4, <3>5 DEF sdcard_control_task
  <2>6. CASE sdcard_writer_task
    <3>1. UNCHANGED <<session, pending>>
      BY <2>6 DEF sdcard_writer_task
    <3>2. CASE Receive
      BY <1>2, <2>0, <3>1, <3>2, ReceiveElements DEF CurrentOnly
    <3>3. CASE Fwrite
      BY <1>2, <2>0, <3>1, <3>3, FwriteElements DEF CurrentOnly
    <3>4. CASE WriterLock \/ WriterTimeout \/ Give
      BY <1>2, <3>1, <3>4 DEF WriterLock, WriterTimeout, Give, CurrentOnly
    <3> QED
      BY <2>6, <3>2, <3>3, <3>4 DEF sdcard_writer_task
  <2> QED
    BY <1>2, <2>1, <2>2, <2>3, <2>4, <2>5, <2>6 DEF Next, Running, PowerLoss, PanicReboot,
       button_isr_handler, Tick, vars, logVars, rtosVars, wrtVars
<1> QED
  BY <1>1, <1>2

(* A closed log is what the open one was.                                   *)
LEMMA PureStep ==
  /\ Init => SessionPure
  /\ IInv /\ CurrentOnly /\ SessionPure /\ [Next]_vars /\ CurrentOnly' => SessionPure'
<1>1. OneSession(<<>>)
  BY DEF OneSession
<1>2. Init => SessionPure
  BY <1>1 DEF Init, SessionPure
<1>3. ASSUME IInv, CurrentOnly, SessionPure, [Next]_vars, CurrentOnly' PROVE SessionPure'
  <2>1. OneSession(stream) /\ OneSession(stream')
    BY <1>3 DEF CurrentOnly, OneSession
  <2>2. files \in [Seconds -> Seq(Chunk)] /\ \A n \in Seconds : OneSession(files[n])
    BY <1>3 DEF IInv, TypeOK, CardTypeOK, SessionPure
  <2>3. \A n \in Seconds : OneSession(files'[n])
    BY <1>1, <1>3, <2>1, <2>2, FilesChange
  <2> QED
    BY <2>1, <2>3 DEF SessionPure
<1> QED
  BY <1>2, <1>3

(* Nothing queued before a stop turns up in the log of the next start, when *)
(* the pause of 200 ms lets writer and callers run dry (sdcard.c:134).      *)
THEOREM SessionPureHolds == ASSUME WriterSettles PROVE Spec => []SessionPure
<1>1. Init => Quiet
  BY QuietStep
<1>2. IInv /\ Quiet /\ [Next]_vars => Quiet'
  BY QuietStep
<1> QED
  BY <1>1, <1>2, CurrentStep, PureStep, Invariance, PTL DEF Spec

-----------------------------------------------------------------------------
(* Records of one caller stay in their order. *)

(* Two records of one caller come in the order of their numbers.            *)
Before(a, b) == a.src = b.src /\ a.src # "control" => a.id < b.id
(* Every record of a caller behind r, still queued or to be sent.           *)
BehindInOrder(r) ==
  /\ \A i \in 1 .. Len(sdcard_queue) : Before(r, sdcard_queue[i])
  /\ \A p \in Producers : pending[p] # NULL => Before(r, pending[p])
KnownIds ==
  /\ \A i \in 1 .. Len(sdcard_queue) : sdcard_queue[i].id <= produced
  /\ \A p \in Producers : pending[p] # NULL => pending[p].id <= produced
  /\ wpc # "receive" => wrec.id <= produced
  /\ \A i \in 1 .. Len(stream) : stream[i].rec.id <= produced
QueueInOrder ==
  /\ \A i, j \in 1 .. Len(sdcard_queue) : i < j => Before(sdcard_queue[i], sdcard_queue[j])
  /\ \A i \in 1 .. Len(sdcard_queue), p \in Producers :
       pending[p] # NULL => Before(sdcard_queue[i], pending[p])
WriterInOrder ==
  /\ wpc # "receive" => BehindInOrder(wrec)
  /\ \A i \in 1 .. Len(stream) : BehindInOrder(stream[i].rec)
  /\ \A i \in 1 .. Len(stream) :
       wpc \in {"lock", "header"} \/ (wpc = "body" /\ stream[i].part = "body")
         => Before(stream[i].rec, wrec)
(* The way of a record: pending, queue, writer, log; each in order, and all *)
(* of one part behind all of the part before.                               *)
OrderInv ==
  PendingTyped /\ KnownIds /\ QueueInOrder /\ WriterInOrder /\ InOrder(stream)

(* A record numbered now is behind all others.                              *)
LEMMA CheckOrder ==
  ASSUME ~EndlessRecords, IInv, OrderInv, NEW p \in Producers, NEW t \in Types(p),
         LogDataCheck(p, t), PendingTyped'
  PROVE  OrderInv'
<1>1. /\ UNCHANGED <<sdcard_queue, wpc, wrec, stream>>
      /\ produced \in Nat /\ produced' = produced + 1
      /\ pending \in [Producers -> Record \cup {NULL}]
  BY DEF LogDataCheck, rtosVars, wrtVars, logVars, IInv, TypeOK, TasksTypeOK, EnvTypeOK
<1>2. /\ \A i \in 1 .. Len(sdcard_queue) : sdcard_queue[i].id \in Nat
      /\ \A q \in Producers : pending[q] # NULL => pending[q].id \in Nat
      /\ wpc # "receive" => wrec.id \in Nat
      /\ \A i \in 1 .. Len(stream) : stream[i].rec.id \in Nat
  <2>1. \A r \in Record : r.id \in Nat
    BY DEF Record
  <2>2. \A i \in 1 .. Len(sdcard_queue) : sdcard_queue[i] \in Record
    BY DEF IInv, TypeOK, TasksTypeOK
  <2>3. \A i \in 1 .. Len(stream) : stream[i].rec \in Record
    <3>1. stream \in Seq(Chunk)
      BY DEF IInv, TypeOK, CardTypeOK
    <3>2. \A i \in 1 .. Len(stream) : stream[i] \in Chunk
      BY <3>1, ElementOfSeq
    <3> QED
      BY <3>2 DEF Chunk
  <2> QED
    BY <1>1, <2>1, <2>2, <2>3 DEF IInv, WriterHolds
<1>3. \A q \in Producers : \/ pending'[q] = pending[q]
                           \/ pending'[q] # NULL /\ pending'[q].id = produced'
  BY <1>1 DEF LogDataCheck, NewRecord
<1>4. KnownIds'
  <2>1. \A n \in Nat : n <= produced => n <= produced'
    BY <1>1
  <2>2. ASSUME NEW q \in Producers, pending'[q] # NULL PROVE pending'[q].id <= produced'
    BY <1>1, <1>2, <1>3, <2>1, <2>2 DEF OrderInv, KnownIds
  <2> QED
    BY <1>1, <1>2, <2>1, <2>2 DEF OrderInv, KnownIds
<1>5. ASSUME NEW r, r.id \in Nat, r.id <= produced,
             \A q \in Producers : pending[q] # NULL => Before(r, pending[q])
      PROVE  \A q \in Producers : pending'[q] # NULL => Before(r, pending'[q])
  BY <1>1, <1>3, <1>5 DEF Before
<1>6. QueueInOrder'
  BY <1>1, <1>2, <1>5 DEF OrderInv, QueueInOrder, KnownIds
<1>7. WriterInOrder'
  <2>1. wpc # "receive" => \A q \in Producers : pending'[q] # NULL => Before(wrec, pending'[q])
    BY <1>2, <1>5 DEF OrderInv, WriterInOrder, BehindInOrder, KnownIds
  <2>2. \A i \in 1 .. Len(stream) :
          \A q \in Producers : pending'[q] # NULL => Before(stream[i].rec, pending'[q])
    BY <1>2, <1>5 DEF OrderInv, WriterInOrder, BehindInOrder, KnownIds
  <2> QED
    BY <1>1, <2>1, <2>2 DEF OrderInv, WriterInOrder, BehindInOrder
<1> QED
  BY <1>1, <1>4, <1>6, <1>7 DEF OrderInv

(* The queue gets a record, of a caller or the control task, behind others. *)
LEMMA SendOrder ==
  ASSUME IInv, OrderInv, NEW r \in Record, sdcard_queue' = QueueSend(sdcard_queue, r),
         UNCHANGED <<wpc, wrec, stream, produced>>, r.id <= produced,
         \A p \in Producers : \/ pending'[p] = NULL
                              \/ pending'[p] = pending[p] /\ Before(r, pending[p]),
         \A i \in 1 .. Len(sdcard_queue) : Before(sdcard_queue[i], r),
         wpc # "receive" => Before(wrec, r),
         \A i \in 1 .. Len(stream) : Before(stream[i].rec, r), PendingTyped'
  PROVE  OrderInv'
<1> DEFINE q == sdcard_queue
           u == sdcard_queue'
<1>1. /\ Len(q) \in Nat
      /\ \A i \in 1 .. Len(u) : \/ i \in 1 .. Len(q) /\ u[i] = q[i]
                                \/ i = Len(q) + 1 /\ u[i] = r
  <2>1. q \in Seq(Record) /\ u = QueueSend(q, r)
    BY DEF IInv, TypeOK, TasksTypeOK
  <2> HIDE DEF q, u
  <2>2. /\ Len(q) \in Nat
        /\ \A i \in 1 .. Len(QueueSend(q, r)) :
             \/ i \in 1 .. Len(q) /\ QueueSend(q, r)[i] = q[i]
             \/ i = Len(q) + 1 /\ QueueSend(q, r)[i] = r
    BY <2>1, QueueSendElements
  <2> QED
    BY <2>1, <2>2
<1>2. KnownIds'
  BY <1>1 DEF OrderInv, KnownIds
<1>3. QueueInOrder'
  <2>1. ASSUME NEW i \in 1 .. Len(u), NEW j \in 1 .. Len(u), i < j PROVE Before(u[i], u[j])
    <3>1. i \in 1 .. Len(q) /\ u[i] = q[i]
      BY <1>1, <2>1
    <3> QED
      BY <1>1, <2>1, <3>1 DEF OrderInv, QueueInOrder
  <2>2. ASSUME NEW i \in 1 .. Len(u), NEW p \in Producers, pending'[p] # NULL
        PROVE  Before(u[i], pending'[p])
    BY <1>1, <2>2 DEF OrderInv, QueueInOrder
  <2> QED
    BY <2>1, <2>2 DEF QueueInOrder
<1>4. ASSUME NEW x, BehindInOrder(x), Before(x, r)
      PROVE  /\ \A i \in 1 .. Len(u) : Before(x, u[i])
             /\ \A p \in Producers : pending'[p] # NULL => Before(x, pending'[p])
  BY <1>1, <1>4 DEF BehindInOrder
<1>5. WriterInOrder'
  <2>1. wpc # "receive" => /\ \A i \in 1 .. Len(u) : Before(wrec, u[i])
                           /\ \A p \in Producers : pending'[p] # NULL => Before(wrec, pending'[p])
    BY <1>4 DEF OrderInv, WriterInOrder
  <2>2. \A k \in 1 .. Len(stream) :
          /\ \A i \in 1 .. Len(u) : Before(stream[k].rec, u[i])
          /\ \A p \in Producers : pending'[p] # NULL => Before(stream[k].rec, pending'[p])
    BY <1>4 DEF OrderInv, WriterInOrder
  <2> QED
    BY <2>1, <2>2 DEF OrderInv, WriterInOrder, BehindInOrder
<1> QED
  BY <1>2, <1>3, <1>5 DEF OrderInv

(* The writer takes the oldest record ...                                   *)
LEMMA ReceiveOrder ==
  ASSUME IInv, OrderInv, Receive, UNCHANGED <<pending, produced>>, PendingTyped'
  PROVE  OrderInv'
<1> DEFINE q == sdcard_queue
           u == sdcard_queue'
<1>1. /\ Len(q) \in Nat \ {0} /\ wrec' = q[1] /\ Len(u) = Len(q) - 1
      /\ \A i \in 1 .. Len(u) : u[i] = q[i + 1]
      /\ wpc = "receive" /\ wpc' = "lock" /\ UNCHANGED stream
  BY ReceiveElements DEF IInv, TypeInv
<1>2. \A i \in 1 .. Len(u) : i + 1 \in 1 .. Len(q) /\ u[i] = q[i + 1]
  BY <1>1
<1>3. 1 \in 1 .. Len(q) /\ \A i \in 1 .. Len(u) : 1 < i + 1
  BY <1>1
<1>4. KnownIds'
  BY <1>1, <1>2, <1>3 DEF OrderInv, KnownIds
<1>5. QueueInOrder'
  <2>1. ASSUME NEW i \in 1 .. Len(u), NEW j \in 1 .. Len(u), i < j PROVE Before(u[i], u[j])
    <3>1. i + 1 < j + 1
      BY <1>1, <2>1
    <3> QED
      BY <1>2, <3>1 DEF OrderInv, QueueInOrder
  <2> QED
    BY <1>2, <2>1 DEF OrderInv, QueueInOrder
<1>6. \A i \in 1 .. Len(u) : Before(q[1], u[i])
  BY <1>2, <1>3 DEF OrderInv, QueueInOrder
<1>7. \A p \in Producers : pending[p] # NULL => Before(q[1], pending[p])
  BY <1>3 DEF OrderInv, QueueInOrder
<1>8. \A k \in 1 .. Len(stream) :
        /\ \A i \in 1 .. Len(u) : Before(stream[k].rec, u[i])
        /\ \A p \in Producers : pending[p] # NULL => Before(stream[k].rec, pending[p])
        /\ Before(stream[k].rec, q[1])
  BY <1>2, <1>3 DEF OrderInv, WriterInOrder, BehindInOrder
<1>9. WriterInOrder'
  BY <1>1, <1>6, <1>7, <1>8 DEF WriterInOrder, BehindInOrder
<1> QED
  BY <1>1, <1>4, <1>5, <1>9 DEF OrderInv

(* ... and writes its header and its body (sdcard.c:46-52).                 *)
LEMMA FwriteOrder ==
  ASSUME IInv, OrderInv, Fwrite, UNCHANGED <<pending, produced>>, PendingTyped'
  PROVE  OrderInv'
<1> DEFINE n == Len(stream)
<1>1. /\ n \in Nat /\ UNCHANGED <<wrec, sdcard_queue>>
      /\ wpc \in {"header", "body"} /\ wrec \in Record
      /\ wpc' = IF wpc = "header" THEN "body" ELSE "give"
      /\ \/ UNCHANGED stream
         \/ /\ Len(stream') = n + 1
            /\ \A i \in 1 .. n : stream'[i] = stream[i]
            /\ stream'[n + 1] = [part |-> wpc, rec |-> wrec]
  BY FwriteElements DEF IInv, TypeInv
<1>2. QueueInOrder'
  BY <1>1 DEF OrderInv, QueueInOrder
<1>3. CASE UNCHANGED stream
  BY <1>1, <1>2, <1>3 DEF OrderInv, KnownIds, WriterInOrder, BehindInOrder
<1>4. CASE /\ Len(stream') = n + 1
           /\ \A i \in 1 .. n : stream'[i] = stream[i]
           /\ stream'[n + 1] = [part |-> wpc, rec |-> wrec]
  <2>1. \A i \in 1 .. Len(stream') :
          \/ i \in 1 .. n /\ stream'[i] = stream[i]
          \/ i = n + 1 /\ stream'[i].rec = wrec /\ stream'[i].part = wpc
    BY <1>1, <1>4
  <2> HIDE DEF n
  <2>2. KnownIds'
    BY <1>1, <2>1 DEF OrderInv, KnownIds, n
  <2>3. \A i \in 1 .. Len(stream') : BehindInOrder(stream'[i].rec)
    BY <1>1, <2>1 DEF OrderInv, WriterInOrder, n
  <2>4. \A i \in 1 .. Len(stream') :
          wpc' = "body" /\ stream'[i].part = "body" => Before(stream'[i].rec, wrec)
    BY <1>1, <2>1 DEF OrderInv, WriterInOrder, n
  <2>5. WriterInOrder'
    BY <1>1, <2>3, <2>4 DEF OrderInv, WriterInOrder, BehindInOrder
  <2>6. ASSUME NEW i \in 1 .. Len(stream'), NEW j \in 1 .. Len(stream'), i < j,
               stream'[i].part = stream'[j].part
        PROVE  Before(stream'[i].rec, stream'[j].rec)
    <3>1. i \in 1 .. n /\ stream'[i] = stream[i]
      BY <1>1, <1>4, <2>1, <2>6
    <3>2. CASE j \in 1 .. n /\ stream'[j] = stream[j]
      BY <2>6, <3>1, <3>2 DEF OrderInv, InOrder, Before, n
    <3>3. CASE j = n + 1 /\ stream'[j].rec = wrec /\ stream'[j].part = wpc
      BY <1>1, <2>6, <3>1, <3>3 DEF OrderInv, WriterInOrder, n
    <3> QED
      BY <2>1, <3>2, <3>3
  <2>7. InOrder(stream')
    BY <2>6 DEF InOrder, Before
  <2> QED
    BY <1>2, <2>2, <2>5, <2>7 DEF OrderInv, InOrder
<1> QED
  BY <1>1, <1>3, <1>4

(* Every step keeps the order.                                              *)
LEMMA OrderStep ==
  ASSUME ~EndlessRecords
  PROVE  /\ Init => OrderInv
         /\ IInv /\ OrderInv /\ [Next]_vars => OrderInv'
<1>1. Init => OrderInv
  BY PendingTypedStep DEF Init, OrderInv, KnownIds, QueueInOrder, WriterInOrder, InOrder
<1>2. ASSUME IInv, OrderInv, [Next]_vars PROVE OrderInv'
  <2>0. /\ PendingTyped' /\ PendingTyped /\ produced \in Nat
        /\ pending \in [Producers -> Record \cup {NULL}]
    BY <1>2, PendingTypedStep DEF OrderInv, IInv, TypeOK, TasksTypeOK, EnvTypeOK
  <2>1. CASE UNCHANGED <<sdcard_queue, pending, wpc, wrec, stream, produced>>
    BY <1>2, <2>0, <2>1 DEF OrderInv, KnownIds, QueueInOrder, WriterInOrder, BehindInOrder
  <2>2. ASSUME NEW p \in Producers, NEW t \in Types(p), LogDataCheck(p, t) PROVE OrderInv'
    BY <1>2, <2>0, <2>2, CheckOrder
  <2>3. ASSUME NEW p \in Producers, LogDataSend(p) PROVE OrderInv'
    <3>1. pending[p] \in Record /\ pending[p] # NULL /\ pending[p].src = p
      BY <2>0, <2>3 DEF LogDataSend, PendingTyped
    <3>2. /\ sdcard_queue' = QueueSend(sdcard_queue, pending[p])
          /\ UNCHANGED <<wpc, wrec, stream, produced>>
      BY <2>3 DEF LogDataSend, logVars, wrtVars, envVars
    <3>3. \A x \in Producers : \/ pending'[x] = NULL
                               \/ pending'[x] = pending[x] /\ Before(pending[p], pending[x])
      <4> SUFFICES ASSUME NEW x \in Producers, pending'[x] # NULL
                   PROVE  pending'[x] = pending[x] /\ Before(pending[p], pending[x])
        OBVIOUS
      <4>1. x # p /\ pending'[x] = pending[x]
        BY <2>0, <2>3 DEF LogDataSend
      <4>2. pending[x].src = x
        BY <2>0, <4>1 DEF PendingTyped
      <4> QED
        BY <3>1, <4>1, <4>2 DEF Before
    <3>4. pending[p].id <= produced
      BY <1>2, <3>1 DEF OrderInv, KnownIds
    <3>5. /\ \A i \in 1 .. Len(sdcard_queue) : Before(sdcard_queue[i], pending[p])
          /\ wpc # "receive" => Before(wrec, pending[p])
          /\ \A i \in 1 .. Len(stream) : Before(stream[i].rec, pending[p])
      BY <1>2, <3>1 DEF OrderInv, QueueInOrder, WriterInOrder, BehindInOrder
    <3> QED
      BY <1>2, <2>0, <3>1, <3>2, <3>3, <3>4, <3>5, SendOrder
  <2>4. CASE Restart
    BY <2>0, <2>4 DEF Restart, OrderInv, KnownIds, QueueInOrder, WriterInOrder, InOrder
  <2>5. CASE sdcard_control_task
    <3>1. UNCHANGED <<wpc, wrec, pending, produced>>
      BY <2>5 DEF sdcard_control_task, wrtVars, envVars
    <3>2. CASE Take \/ mount_sdcard \/ ControlLock \/ CheckOpened \/ SetActive
                 \/ unmount_sdcard \/ Debounce
      BY <2>1, <3>1, <3>2 DEF Take, mount_sdcard, ControlLock, CheckOpened, SetActive,
         unmount_sdcard, Debounce, logVars, rtosVars
    <3>3. CASE UNCHANGED sdcard_queue /\ stream' = <<>>
      BY <1>2, <2>0, <3>1, <3>3
      DEF OrderInv, KnownIds, QueueInOrder, WriterInOrder, BehindInOrder, InOrder
    <3>4. CASE SendPreamble
      <4> DEFINE t == IF cpc = "sendVersion" THEN "version" ELSE "info"
                 r == NewRecord(t, "control", 0)
      <4>1. r \in Record /\ r.src = "control" /\ r.id = 0
        BY <1>2 DEF NewRecord, Record, IInv, TypeOK, EnvTypeOK
      <4>2. sdcard_queue' = QueueSend(sdcard_queue, r) /\ UNCHANGED stream
        BY <3>4 DEF SendPreamble, logVars
      <4> HIDE DEF r
      <4>3. \A x : Before(x, r) /\ Before(r, x)
        BY <4>1 DEF Before
      <4>4. r.id <= produced
        BY <2>0, <4>1
      <4> QED
        BY <1>2, <2>0, <3>1, <4>1, <4>2, <4>3, <4>4, SendOrder
    <3> QED
      BY <2>1, <2>5, <3>1, <3>2, <3>3, <3>4 DEF sdcard_control_task, Open, Close, logVars
  <2>6. CASE sdcard_writer_task
    <3>1. UNCHANGED <<pending, produced>>
      BY <2>6 DEF sdcard_writer_task, envVars
    <3>2. CASE WriterLock \/ WriterTimeout \/ Give
      BY <1>2, <2>0, <3>1, <3>2 DEF WriterLock, WriterTimeout, Give, OrderInv, KnownIds,
         QueueInOrder, WriterInOrder, BehindInOrder
    <3> QED
      BY <1>2, <2>0, <2>6, <3>1, <3>2, ReceiveOrder, FwriteOrder DEF sdcard_writer_task
  <2> QED
    BY <1>2, <2>1, <2>2, <2>3, <2>4, <2>5, <2>6 DEF Next, Running, PowerLoss, PanicReboot,
       button_isr_handler, Tick, vars, logVars, rtosVars, wrtVars, envVars
<1> QED
  BY <1>1, <1>2

(* A closed log is in the order the open one was.                           *)
LEMMA FilesOrderStep ==
  /\ Init => InOrderOnce
  /\ IInv /\ OrderInv /\ InOrderOnce /\ [Next]_vars /\ OrderInv' => InOrderOnce'
<1>1. InOrder(<<>>)
  BY DEF InOrder
<1>2. Init => InOrderOnce
  BY <1>1 DEF Init, InOrderOnce
<1>3. ASSUME IInv, OrderInv, InOrderOnce, [Next]_vars, OrderInv' PROVE InOrderOnce'
  <2>1. InOrder(stream) /\ InOrder(stream')
    BY <1>3 DEF OrderInv, InOrder
  <2>2. files \in [Seconds -> Seq(Chunk)] /\ \A n \in Seconds : InOrder(files[n])
    BY <1>3 DEF IInv, TypeOK, CardTypeOK, InOrderOnce
  <2>3. \A n \in Seconds : InOrder(files'[n])
    BY <1>1, <1>3, <2>1, <2>2, FilesChange
  <2> QED
    BY <2>1, <2>3 DEF InOrderOnce
<1> QED
  BY <1>2, <1>3

(* Records of one caller are in every log in the order of their hand-over,  *)
(* none twice, whatever the writer drops, loses or has to wait for; records *)
(* are numbered apart when they are not endless.                            *)
THEOREM InOrderOnceHolds == ASSUME ~EndlessRecords PROVE Spec => []InOrderOnce
<1>1. Init => OrderInv
  BY OrderStep
<1>2. IInv /\ OrderInv /\ [Next]_vars => OrderInv'
  BY OrderStep
<1> QED
  BY <1>1, <1>2, FilesOrderStep, Invariance, PTL DEF Spec

-----------------------------------------------------------------------------
(* A log begins with version and info. *)

(* The k-th record since the log was opened.                                *)
Preamble(r, k) == (r.type = "version" <=> k = 1) /\ (r.type = "info" <=> k = 2)
(* Records the writer has taken since then, when it could write them all.   *)
Taken == Len(stream) \div 2 + (IF wpc \in {"lock", "header", "body"} THEN 1 ELSE 0)

(* No caller of log_data is about to send while a log is being started.     *)
NothingPending == cpc \in Starting => \A p \in Producers : pending[p] = NULL
(* While the log is open and the card not full: which record comes next.    *)
Counted ==
  logFile # NULL /\ free > 0 /\ cpc # "close" =>
    /\ \A i \in 1 .. Len(sdcard_queue) : Preamble(sdcard_queue[i], Taken + i)
    /\ wpc \in {"lock", "header", "body"} => Preamble(wrec, Taken)
    /\ cpc \in {"check", "sendVersion"} => Taken + Len(sdcard_queue) = 0
    /\ cpc = "sendInfo" => Taken + Len(sdcard_queue) = 1
    /\ cpc \notin {"check", "sendVersion", "sendInfo"} => Taken + Len(sdcard_queue) >= 2
PreambleInv ==
  PendingTyped /\ Quiet /\ NothingPending /\ Counted /\ PreambleFirst(stream)

(* Until the flag is set log_data lets nothing through (main.c:245).        *)
LEMMA NothingPendingStep ==
  ASSUME IInv, Quiet, NothingPending, [Next]_vars PROVE NothingPending'
<1> USE DEF NothingPending, logVars, rtosVars, flagVars, wrtVars, envVars
<1>1. CASE Restart
  BY <1>1 DEF Restart
<1>2. ASSUME NEW p \in Producers, NEW t \in Types(p), LogDataCheck(p, t)
      PROVE  NothingPending'
  BY <1>2 DEF LogDataCheck, IInv, ActiveWhen
<1>3. ASSUME NEW p \in Producers, LogDataSend(p) PROVE NothingPending'
  BY <1>3 DEF LogDataSend
<1>4. CASE sdcard_control_task
  <2>1. UNCHANGED pending
    BY <1>4 DEF sdcard_control_task
  <2>2. CASE Take
    BY <2>1, <2>2 DEF Take, Quiet, Settled, Starting
  <2>3. CASE ~Take
    BY <1>4, <2>1, <2>3 DEF sdcard_control_task, mount_sdcard, ControlLock, Open, CheckOpened,
       SendPreamble, SetActive, Close, unmount_sdcard, Debounce, Starting
  <2> QED
    BY <2>2, <2>3
<1>5. CASE UNCHANGED <<cpc, pending>>
  BY <1>5
<1> QED
  BY <1>1, <1>2, <1>3, <1>4, <1>5 DEF Next, Running, PowerLoss, PanicReboot,
     button_isr_handler, sdcard_writer_task, Tick, vars

(* The numbers Counted is about.                                            *)
LEMMA TakenType ==
  ASSUME IInv
  PROVE  /\ Len(stream) \in Nat /\ Taken \in Nat /\ Len(sdcard_queue) \in Nat
         /\ sdcard_queue \in Seq(Record)
<1>1. stream \in Seq(Chunk) /\ sdcard_queue \in Seq(Record)
  BY DEF IInv, TypeOK, CardTypeOK, TasksTypeOK
<1>2. Len(stream) \in Nat /\ Len(sdcard_queue) \in Nat
  BY <1>1
<1>3. Len(stream) \div 2 \in Nat
  BY <1>2
<1> QED
  BY <1>1, <1>2, <1>3 DEF Taken

(* A record sent is the next one.                                           *)
LEMMA SendCounted ==
  ASSUME IInv, NEW r \in Record, sdcard_queue' = QueueSend(sdcard_queue, r),
         \A i \in 1 .. Len(sdcard_queue) : Preamble(sdcard_queue[i], Taken + i),
         Preamble(r, Taken + Len(sdcard_queue) + 1)
  PROVE  /\ \A i \in 1 .. Len(sdcard_queue') : Preamble(sdcard_queue'[i], Taken + i)
         /\ Len(sdcard_queue') \in {Len(sdcard_queue), Len(sdcard_queue) + 1}
         /\ Len(sdcard_queue) < QUEUE_SIZE => Len(sdcard_queue') = Len(sdcard_queue) + 1
<1> DEFINE q == sdcard_queue
           d == Taken
<1>1. q \in Seq(Record) /\ d \in Nat /\ Len(q) \in Nat
  BY TakenType
<1> HIDE DEF q, d
<1>2. /\ \A i \in 1 .. Len(QueueSend(q, r)) :
           \/ i \in 1 .. Len(q) /\ QueueSend(q, r)[i] = q[i]
           \/ i = Len(q) + 1 /\ QueueSend(q, r)[i] = r
      /\ \/ QueueSend(q, r) = q /\ Len(q) >= QUEUE_SIZE
         \/ Len(QueueSend(q, r)) = Len(q) + 1
  BY <1>1, QueueSendElements
<1>3. ASSUME NEW i \in 1 .. Len(QueueSend(q, r))
      PROVE  Preamble(QueueSend(q, r)[i], d + i)
  <2>1. CASE i \in 1 .. Len(q) /\ QueueSend(q, r)[i] = q[i]
    BY <2>1 DEF q, d
  <2>2. CASE i = Len(q) + 1 /\ QueueSend(q, r)[i] = r
    <3>1. d + i = d + Len(q) + 1
      BY <1>1, <2>2
    <3> QED
      BY <2>2, <3>1 DEF q, d
  <2> QED
    BY <1>2, <2>1, <2>2
<1> QED
  BY <1>1, <1>2, <1>3, SizesAssumption DEF q, d

(* What the control task does to the count.                                 *)
LEMMA ControlCounted ==
  ASSUME QUEUE_SIZE >= 2, IInv, IInv', PreambleInv, sdcard_control_task
  PROVE  Counted' /\ PreambleFirst(stream)'
<1>1. UNCHANGED <<wpc, wrec, pending>>
  BY DEF sdcard_control_task, wrtVars
<1>2. Taken \in Nat /\ Len(sdcard_queue) \in Nat /\ QUEUE_SIZE \in Nat
  BY TakenType, SizesAssumption
<1>3. CASE Take \/ mount_sdcard \/ ControlLock \/ CheckOpened \/ SetActive
             \/ unmount_sdcard \/ Debounce
  <2>1. UNCHANGED <<logFile, free, stream, sdcard_queue>>
    BY <1>3 DEF Take, mount_sdcard, ControlLock, CheckOpened, SetActive, unmount_sdcard,
       Debounce, logVars, rtosVars
  <2>2. Taken' = Taken
    BY <1>1, <2>1 DEF Taken
  <2>3. logFile # NULL =>
          \/ cpc = "take" /\ cpc' = "closeLock"
          \/ cpc = "closeLock" /\ cpc' = "close"
          \/ cpc = "check" /\ cpc' = "sendVersion"
          \/ cpc = "activate" /\ cpc' = "delay"
          \/ cpc = "delay" /\ cpc' = "take"
    BY <1>3 DEF Take, mount_sdcard, ControlLock, CheckOpened, SetActive, unmount_sdcard,
       Debounce, IInv, OpenWhen
  <2>4. Counted'
    BY <1>1, <2>1, <2>2, <2>3 DEF PreambleInv, Counted
  <2> QED
    BY <2>1, <2>4 DEF PreambleInv
<1>4. CASE Open
  <2>1. Settled
    BY <1>4 DEF Open, IInv, ActiveWhen, Starting, PreambleInv, Quiet
  <2>2. sdcard_queue' = <<>> /\ stream' = <<>> /\ wpc' = "receive" /\ cpc' = "check"
    BY <1>1, <1>4, <2>1 DEF Open, Settled
  <2>3. Taken' = 0
    BY <2>2 DEF Taken
  <2> QED
    BY <2>2, <2>3 DEF Counted, PreambleFirst
<1>5. CASE Close
  <2>1. cpc' = "panic" \/ logFile' = NULL
    BY <1>5 DEF Close
  <2>2. logFile' = NULL
    BY <2>1 DEF IInv, OpenWhen
  <2>3. stream' = stream \/ stream' = <<>>
    BY <1>5 DEF Close, logVars
  <2> QED
    BY <2>2, <2>3 DEF PreambleInv, Counted, PreambleFirst
<1>6. CASE SendPreamble
  <2> DEFINE t == IF cpc = "sendVersion" THEN "version" ELSE "info"
             r == NewRecord(t, "control", 0)
  <2>1. r \in Record /\ r.type = t
    BY DEF NewRecord, Record, IInv, TypeOK, EnvTypeOK
  <2>2. /\ sdcard_queue' = QueueSend(sdcard_queue, r) /\ UNCHANGED <<logFile, free, stream>>
        /\ cpc \in {"sendVersion", "sendInfo"}
        /\ cpc' = IF cpc = "sendVersion" THEN "sendInfo" ELSE "activate"
    BY <1>6 DEF SendPreamble, logVars
  <2>3. Taken' = Taken
    BY <1>1, <2>2 DEF Taken
  <2> HIDE DEF r
  <2>4. Counted'
    <3> SUFFICES ASSUME logFile # NULL, free > 0 PROVE Counted'
      BY <2>2 DEF Counted
    <3>1. /\ \A i \in 1 .. Len(sdcard_queue) : Preamble(sdcard_queue[i], Taken + i)
          /\ wpc \in {"lock", "header", "body"} => Preamble(wrec, Taken)
          /\ Taken + Len(sdcard_queue) = IF cpc = "sendVersion" THEN 0 ELSE 1
      BY <2>2 DEF PreambleInv, Counted
    <3>2. Taken + Len(sdcard_queue) + 1 = IF cpc = "sendVersion" THEN 1 ELSE 2
      BY <1>2, <3>1
    <3>3. Preamble(r, Taken + Len(sdcard_queue) + 1)
      BY <2>1, <2>2, <3>2 DEF Preamble
    <3>4. Len(sdcard_queue) < QUEUE_SIZE
      BY <1>2, <3>1
    <3>5. /\ \A i \in 1 .. Len(sdcard_queue') : Preamble(sdcard_queue'[i], Taken + i)
          /\ Len(sdcard_queue') = Len(sdcard_queue) + 1
      BY <2>1, <2>2, <3>1, <3>3, <3>4, SendCounted
    <3>6. Taken' + Len(sdcard_queue') = IF cpc = "sendVersion" THEN 1 ELSE 2
      BY <1>2, <2>3, <3>1, <3>5
    <3> QED
      BY <1>1, <2>2, <2>3, <3>1, <3>5, <3>6 DEF Counted
  <2> QED
    BY <2>2, <2>4 DEF PreambleInv
<1> QED
  BY <1>3, <1>4, <1>5, <1>6 DEF sdcard_control_task

(* What the writer task does to the count.                                  *)
LEMMA WriterCounted ==
  ASSUME IInv, PreambleInv, cpc # "panic", sdcard_writer_task
  PROVE  Counted' /\ PreambleFirst(stream)'
<1>1. UNCHANGED <<logFile, cpc>>
  BY DEF sdcard_writer_task
<1>2. Taken \in Nat /\ Len(sdcard_queue) \in Nat /\ Len(stream) \in Nat
  BY TakenType
<1> DEFINE n == Len(stream)
<1>3. CASE Receive
  <2>1. /\ Len(sdcard_queue) > 0 /\ wrec' = sdcard_queue[1]
        /\ Len(sdcard_queue') = Len(sdcard_queue) - 1
        /\ \A i \in 1 .. Len(sdcard_queue') : sdcard_queue'[i] = sdcard_queue[i + 1]
        /\ wpc = "receive" /\ wpc' = "lock" /\ UNCHANGED <<stream, free>>
    BY <1>2, <1>3, ReceiveElements DEF IInv, TypeInv
  <2>2. Taken' = Taken + 1
    BY <1>2, <2>1 DEF Taken
  <2>3. Counted'
    <3> SUFFICES ASSUME logFile # NULL, free > 0, cpc # "close" PROVE Counted'
      BY <1>1, <2>1 DEF Counted
    <3>1. /\ \A i \in 1 .. Len(sdcard_queue) : Preamble(sdcard_queue[i], Taken + i)
          /\ cpc \in {"check", "sendVersion"} => Taken + Len(sdcard_queue) = 0
          /\ cpc = "sendInfo" => Taken + Len(sdcard_queue) = 1
          /\ cpc \notin {"check", "sendVersion", "sendInfo"} => Taken + Len(sdcard_queue) >= 2
      BY DEF PreambleInv, Counted
    <3>2. Preamble(wrec', Taken')
      BY <1>2, <2>1, <2>2, <3>1
    <3>3. Taken' + Len(sdcard_queue') = Taken + Len(sdcard_queue)
      BY <1>2, <2>1, <2>2
    <3>4. ASSUME NEW i \in 1 .. Len(sdcard_queue') PROVE Preamble(sdcard_queue'[i], Taken' + i)
      <4>1. i + 1 \in 1 .. Len(sdcard_queue) /\ Taken + (i + 1) = Taken' + i
        BY <1>2, <2>1, <2>2
      <4> QED
        BY <2>1, <3>1, <4>1
    <3> QED
      BY <1>1, <3>1, <3>2, <3>3, <3>4 DEF Counted
  <2> QED
    BY <2>1, <2>3 DEF PreambleInv
<1>4. CASE WriterLock \/ Give
  <2>1. /\ UNCHANGED <<sdcard_queue, stream, free>>
        /\ logFile # NULL => \/ wpc = "lock" /\ wpc' = "header" /\ wrec' = wrec
                             \/ wpc = "give" /\ wpc' = "receive"
    BY <1>4 DEF WriterLock, Give
  <2>2. logFile # NULL => Taken' = Taken
    BY <2>1 DEF Taken
  <2> QED
    BY <1>1, <2>1, <2>2 DEF PreambleInv, Counted
<1>5. CASE WriterTimeout
  <2>1. UNCHANGED <<sdcard_queue, stream, free>> /\ wpc = "lock" /\ logFileMutex # NULL
    BY <1>5 DEF WriterTimeout
  <2>2. logFileMutex = "control"
    BY <2>1 DEF IInv, MutexOwned, TypeOK, TasksTypeOK
  <2>3. cpc = "close" \/ logFile = NULL
    BY <2>2 DEF IInv, MutexOwned, OpenWhen
  <2> QED
    BY <1>1, <2>1, <2>3 DEF PreambleInv, Counted
<1>6. CASE Fwrite
  <2>1. /\ UNCHANGED <<wrec, sdcard_queue>>
        /\ wpc \in {"header", "body"} /\ wpc' = (IF wpc = "header" THEN "body" ELSE "give")
        /\ \/ ~(free > 0) /\ UNCHANGED <<stream, free>>
           \/ /\ free > 0 /\ free' = free - 1
              /\ Len(stream') = n + 1
              /\ \A i \in 1 .. n : stream'[i] = stream[i]
              /\ stream'[n + 1] = [part |-> wpc, rec |-> wrec]
    BY <1>6, FwriteElements DEF IInv, TypeInv
  <2>2. CASE ~(free > 0) /\ UNCHANGED <<stream, free>>
    BY <2>2 DEF PreambleInv, Counted
  <2>3. CASE /\ free > 0
             /\ Len(stream') = n + 1
             /\ \A i \in 1 .. n : stream'[i] = stream[i]
             /\ stream'[n + 1] = [part |-> wpc, rec |-> wrec]
    <3>1. logFile # NULL /\ cpc # "close"
      BY <2>1 DEF IInv, NoWriteAfterClose
    <3>2. IF wpc = "header" THEN n % 2 = 0 ELSE n % 2 = 1
      BY <2>1, <2>3 DEF IInv, TailWhole
    <3>3. Taken = n \div 2 + 1
      BY <2>1 DEF Taken
    <3>4. Taken' = Taken
      <4>1. CASE wpc = "header"
        <5>1. (n + 1) \div 2 = n \div 2
          BY <1>2, <3>2, <4>1
        <5> QED
          BY <2>1, <2>3, <3>3, <4>1, <5>1 DEF Taken
      <4>2. CASE wpc = "body"
        <5>1. (n + 1) \div 2 = n \div 2 + 1
          BY <1>2, <3>2, <4>2
        <5>2. Taken' = (n + 1) \div 2 + 0
          BY <2>1, <2>3, <4>2 DEF Taken
        <5> QED
          BY <1>2, <3>3, <5>1, <5>2
      <4> QED
        BY <2>1, <4>1, <4>2
    <3>5. Preamble(wrec, Taken)
      BY <2>1, <2>3, <3>1 DEF PreambleInv, Counted
    <3>6. Counted'
      BY <1>1, <2>1, <2>3, <3>1, <3>4, <3>5 DEF PreambleInv, Counted
    <3>7. /\ wrec.type = "version" <=> n + 1 \in {1, 2}
          /\ wrec.type = "info" <=> n + 1 \in {3, 4}
      <4>1. Taken = 1 <=> n + 1 \in {1, 2}
        BY <1>2, <3>2, <3>3
      <4>2. Taken = 2 <=> n + 1 \in {3, 4}
        BY <1>2, <3>2, <3>3
      <4> QED
        BY <3>5, <4>1, <4>2 DEF Preamble
    <3>8. ASSUME NEW i \in 1 .. Len(stream')
          PROVE  /\ stream'[i].rec.type = "version" <=> i \in {1, 2}
                 /\ stream'[i].rec.type = "info" <=> i \in {3, 4}
      <4>1. CASE i \in 1 .. n
        BY <2>3, <4>1 DEF PreambleInv, PreambleFirst
      <4>2. CASE i = n + 1
        <5>1. stream'[i].rec = wrec
          BY <2>3, <4>2
        <5> QED
          BY <3>7, <4>2, <5>1
      <4> QED
        BY <1>2, <2>3, <4>1, <4>2
    <3>9. PreambleFirst(stream)'
      BY <3>8 DEF PreambleFirst
    <3> QED
      BY <3>6, <3>9
  <2> QED
    BY <2>1, <2>2, <2>3
<1> QED
  BY <1>3, <1>4, <1>5, <1>6 DEF sdcard_writer_task

(* Every step keeps what comes next in the log.                             *)
LEMMA PreambleStep ==
  ASSUME WriterSettles, QUEUE_SIZE >= 2
  PROVE  /\ Init => PreambleInv
         /\ IInv /\ IInv' /\ PreambleInv /\ [Next]_vars => PreambleInv'
<1>1. Init => PreambleInv
  <2> SUFFICES ASSUME Init PROVE PreambleInv
    OBVIOUS
  <2>1. PendingTyped /\ Quiet
    BY PendingTypedStep, QuietStep
  <2>2. NothingPending /\ Counted /\ PreambleFirst(stream)
    BY DEF Init, NothingPending, Counted, PreambleFirst
  <2> QED
    BY <2>1, <2>2 DEF PreambleInv
<1>2. ASSUME IInv, IInv', PreambleInv, [Next]_vars PROVE PreambleInv'
  <2>0. PendingTyped' /\ Quiet' /\ NothingPending'
    BY <1>2, PendingTypedStep, QuietStep, NothingPendingStep DEF PreambleInv
  <2>1. CASE UNCHANGED <<logFile, free, sdcard_queue, wpc, wrec, stream, cpc>>
    BY <1>2, <2>0, <2>1 DEF PreambleInv, Counted, Taken
  <2>2. ASSUME NEW p \in Producers, LogDataSend(p) PROVE PreambleInv'
    <3>1. /\ sdcard_queue' = QueueSend(sdcard_queue, pending[p])
          /\ UNCHANGED <<logFile, free, wpc, wrec, stream, cpc>> /\ pending[p] # NULL
      BY <2>2 DEF LogDataSend, logVars, wrtVars
    <3>2. Taken' = Taken /\ Taken \in Nat /\ Len(sdcard_queue) \in Nat
      BY <1>2, <3>1, TakenType DEF Taken
    <3>3. pending[p] \in Record /\ pending[p].type \notin {"version", "info"}
      BY <1>2, <3>1 DEF IInv, TypeOK, TasksTypeOK, PreambleInv, PendingTyped, Types
    <3>4. cpc \notin Starting
      BY <1>2, <3>1 DEF PreambleInv, NothingPending
    <3>5. Counted'
      <4> SUFFICES ASSUME logFile # NULL, free > 0, cpc # "close" PROVE Counted'
        BY <3>1 DEF Counted
      <4>1. /\ \A i \in 1 .. Len(sdcard_queue) : Preamble(sdcard_queue[i], Taken + i)
            /\ wpc \in {"lock", "header", "body"} => Preamble(wrec, Taken)
            /\ Taken + Len(sdcard_queue) >= 2
        BY <1>2, <3>4 DEF PreambleInv, Counted, Starting
      <4>2. Preamble(pending[p], Taken + Len(sdcard_queue) + 1)
        BY <3>2, <3>3, <4>1 DEF Preamble
      <4>3. /\ \A i \in 1 .. Len(sdcard_queue') : Preamble(sdcard_queue'[i], Taken + i)
            /\ Len(sdcard_queue') \in {Len(sdcard_queue), Len(sdcard_queue) + 1}
        BY <1>2, <3>1, <3>3, <4>1, <4>2, SendCounted
      <4>4. Taken' + Len(sdcard_queue') >= 2
        BY <3>2, <4>1, <4>3
      <4>5. cpc' \notin {"check", "sendVersion", "sendInfo"}
        BY <3>1, <3>4 DEF Starting
      <4> QED
        BY <3>1, <3>2, <4>1, <4>3, <4>4, <4>5 DEF Counted
    <3> QED
      BY <1>2, <2>0, <3>1, <3>5 DEF PreambleInv
  <2>3. CASE Restart
    BY <2>0, <2>3 DEF Restart, PreambleInv, Counted, PreambleFirst
  <2>4. CASE sdcard_control_task \/ (cpc # "panic" /\ sdcard_writer_task)
    BY <1>2, <2>0, <2>4, ControlCounted, WriterCounted DEF PreambleInv
  <2> QED
    BY <1>2, <2>1, <2>2, <2>3, <2>4 DEF Next, Running, PowerLoss, PanicReboot,
       button_isr_handler, Tick, LogDataCheck, vars, logVars, rtosVars, wrtVars, envVars
<1> QED
  BY <1>1, <1>2

(* A closed log begins as the open one did.                                 *)
LEMMA FilesPreambleStep ==
  /\ Init => LogStartsWithPreamble
  /\ IInv /\ PreambleInv /\ LogStartsWithPreamble /\ [Next]_vars /\ PreambleInv'
       => LogStartsWithPreamble'
<1>1. PreambleFirst(<<>>)
  BY DEF PreambleFirst
<1>2. Init => LogStartsWithPreamble
  BY <1>1 DEF Init, LogStartsWithPreamble
<1>3. ASSUME IInv, PreambleInv, LogStartsWithPreamble, [Next]_vars, PreambleInv'
      PROVE  LogStartsWithPreamble'
  <2>1. PreambleFirst(stream) /\ PreambleFirst(stream')
    BY <1>3 DEF PreambleInv, PreambleFirst
  <2>2. files \in [Seconds -> Seq(Chunk)] /\ \A n \in Seconds : PreambleFirst(files[n])
    BY <1>3 DEF IInv, TypeOK, CardTypeOK, LogStartsWithPreamble
  <2>3. \A n \in Seconds : PreambleFirst(files'[n])
    BY <1>1, <1>3, <2>1, <2>2, FilesChange
  <2> QED
    BY <2>1, <2>3 DEF LogStartsWithPreamble
<1> QED
  BY <1>2, <1>3

(* Every log begins with the version and the info record and has neither    *)
(* again, when the queue holds both (ten in sdcard.c:19) and the pause lets *)
(* writer and callers run dry (sdcard.c:134).                               *)
THEOREM LogStartsWithPreambleHolds ==
  ASSUME WriterSettles, QUEUE_SIZE >= 2 PROVE Spec => []LogStartsWithPreamble
<1>1. Init => PreambleInv
  BY PreambleStep
<1>2. IInv /\ IInv' /\ PreambleInv /\ [Next]_vars => PreambleInv'
  BY PreambleStep
<1> QED
  BY <1>1, <1>2, FilesPreambleStep, Invariance, PTL DEF Spec
=============================================================================

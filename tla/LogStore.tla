------------------------------ MODULE LogStore ------------------------------
(***************************************************************************)
(* What the SD card logger promises to whoever reads the card: at most one *)
(* log is open, records reach it whole and one after the other, stopping   *)
(* makes exactly what was logged durable, and losing power forgets only    *)
(* the open log.  Starting a log of a name that exists replaces it.        *)
(***************************************************************************)
EXTENDS Integers, Sequences

CONSTANTS Name, None

VARIABLES
  logs,     \* durable records per log name
  open,     \* name of the open log, None when stopped
  current   \* records of the open log

vars == <<logs, open, current>>

Init == /\ logs = [n \in Name |-> <<>>]
        /\ open = None
        /\ current = <<>>

Start(n) == /\ open = None
            /\ open' = n
            /\ logs' = [logs EXCEPT ![n] = <<>>]
            /\ current' = <<>>

(* One more record, whichever it is, and no record logged before touched. *)
Log == /\ open # None
       /\ Len(current') = Len(current) + 1
       /\ \A i \in 1 .. Len(current) : current'[i] = current[i]
       /\ UNCHANGED <<logs, open>>

Stop == /\ open # None
        /\ logs' = [logs EXCEPT ![open] = current]
        /\ open' = None
        /\ current' = <<>>

Lose == /\ open' = None
        /\ current' = <<>>
        /\ UNCHANGED logs

Next == \/ \E n \in Name : Start(n)
        \/ Log
        \/ Stop
        \/ Lose

Spec == Init /\ [][Next]_vars
=============================================================================

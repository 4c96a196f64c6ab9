----------------------------- MODULE MCLogCvt -----------------------------
(* Bytes for model checking LogCvt: a payload that is too short for the     *)
(* pseudo Ethernet layer and one that is not and ends as the magic number;  *)
(* behind the time stamp that is its first byte they make one with the next *)
(* record, and by themselves.                                               *)
EXTENDS LogCvt
Payloads == {<<"55", "55">>, <<"55", "55", "aa">>}
StampBytes == [t \in {0, 3, 6} |-> IF t = 6 THEN <<"aa">> ELSE <<"x">>]
=============================================================================

---------------------------- MODULE MCUsbStream ----------------------------
(* Payloads for model checking UsbStream.  With the time stamp the first    *)
(* ends as the magic number but for its last byte; the second ends as it    *)
(* begins, as does a record without a body.                                 *)
EXTENDS UsbStream
Payloads == {<<"55", "55">>, <<"x", "aa">>, <<"55", "55", "aa", "x">>}
Stamp == {<<"aa">>}
=============================================================================

---------------------------- MODULE MCJSONLStore ----------------------------
(***************************************************************************)
(* Small instances of JSONLStore.  Four messages are enough for a          *)
(* truncation to leave messages on both sides of the offset and for two    *)
(* appends to follow a torn one; two faults let a second interruption hit  *)
(* the state the first one left.                                           *)
(***************************************************************************)
EXTENDS JSONLStore
CONSTANT s1
MCSummary == {NoSummary, s1}
MCKeepLast == {0, 1, 2}
=============================================================================

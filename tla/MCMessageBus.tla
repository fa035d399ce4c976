---------------------------- MODULE MCMessageBus ----------------------------
(***************************************************************************)
(* Two publishers and two closers, two channels of one slot each: a full   *)
(* buffer, a publisher between its check and its select while Close runs,  *)
(* a channel that is already drained while the other is not, and two calls *)
(* of Close.                                                               *)
(***************************************************************************)
EXTENDS MessageBus
CONSTANTS p1, p2, k1, k2
MCPublisher == {p1, p2}
MCCloser    == {k1, k2}
MCTopics    == <<"inbound", "outbound">>
=============================================================================

-------------------------- MODULE MCChannelManager --------------------------
(***************************************************************************)
(* One channel and an internal one.                                        *)
(* Live:   message 1 is internal, 2 is long, 3 is sent with SendMessage, 4 *)
(*         is media for a channel that cannot send media.                  *)
(* Reload: message 1 is long, 2 is media, 3 is text.                       *)
(***************************************************************************)
EXTENDS ChannelManager
MCChannel    == {"telegram"}
MCInternal   == {"cli"}
MCNone       == {}
MCText       == {"text"}
MCLanes      == {"text", "media"}
MCFirstCli   == [m \in Message |-> IF m = 1 THEN "cli" ELSE "telegram"]
MCNoCli      == [m \in Message |-> "telegram"]
MCSecondMedia == [m \in Message |-> IF m = 2 THEN "media" ELSE "text"]
MCLastMedia  == [m \in Message |-> IF m = 4 THEN "media" ELSE "text"]
MCFirstLong  == [m \in Message |-> IF m = 1 THEN 2 ELSE 1]
MCSecondLong == [m \in Message |-> IF m = 2 THEN 2 ELSE 1]
MCDirect     == {3}
=============================================================================

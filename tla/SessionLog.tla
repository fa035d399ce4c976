----------------------------- MODULE SessionLog -----------------------------
(***************************************************************************)
(* What pkg/memory.Store (store.go) promises about ONE session, with no    *)
(* files and no locks: a call takes effect in one step between its start   *)
(* and its return.  `forgotten' holds the messages that were truncated but *)
(* not yet discarded: a call that replaces or compacts the history and     *)
(* fails may bring them back (Resurrect).  A call that fails does nothing  *)
(* else: it takes effect, or it does not.                                  *)
(***************************************************************************)
EXTENDS Integers, Sequences

CONSTANTS Msg,        \* messages
          Summary,    \* summaries, the empty one included
          NoSummary   \* the summary of a session that has none

VARIABLES history, summary, forgotten,
          call,       \* the call in progress, its name "none" if there is none
          done,       \* it has taken effect
          returned    \* the call that returned nil last

vars == <<history, summary, forgotten, call, done, returned>>

Init ==
    /\ history = <<>> /\ summary = NoSummary /\ forgotten = <<>>
    /\ call.name = "none" /\ done = FALSE /\ returned = "none"

AddMessage(m) ==
    history' = Append(history, m) /\ UNCHANGED <<summary, forgotten>>

SetSummary(s) ==
    summary' = s /\ UNCHANGED <<history, forgotten>>

TruncateHistory(keep) ==
    LET kept == IF keep < 0 THEN 0 ELSE keep
        cut  == IF kept < Len(history) THEN Len(history) - kept ELSE 0
    IN  /\ history' = SubSeq(history, cut + 1, Len(history))
        /\ forgotten' = forgotten \o SubSeq(history, 1, cut)
        /\ UNCHANGED summary

SetHistory(h) ==
    history' = h /\ forgotten' = <<>> /\ UNCHANGED summary

Compact ==
    forgotten' = <<>> /\ UNCHANGED <<history, summary>>

Effect ==
    \/ call.name = "AddMessage" /\ AddMessage(call.arg)
    \/ call.name = "SetSummary" /\ SetSummary(call.summary)
    \/ call.name = "TruncateHistory" /\ TruncateHistory(call.arg)
    \/ call.name = "SetHistory" /\ SetHistory(call.history)
    \/ call.name = "Compact" /\ Compact

Resurrect ==
    /\ call.name \in {"SetHistory", "Compact"}
    /\ history' = forgotten \o history
    /\ forgotten' = <<>>
    /\ UNCHANGED summary
-----------------------------------------------------------------------------
Start ==
    /\ call.name = "none" /\ call'.name # "none"
    /\ UNCHANGED <<history, summary, forgotten, done, returned>>

TakeEffect ==
    /\ ~done /\ Effect
    /\ done' = TRUE
    /\ UNCHANGED <<call, returned>>

\* the effect at the latest when the call returns nil
Return ==
    /\ call.name # "none"
    /\ IF done THEN UNCHANGED <<history, summary, forgotten>> ELSE Effect
    /\ call'.name = "none" /\ done' = FALSE /\ returned' = call.name

\* a Compact of a session that has nothing to discard
CompactNothing ==
    /\ call.name = "none" /\ forgotten = <<>>
    /\ returned' = "Compact"
    /\ UNCHANGED <<history, summary, forgotten, call, done>>

Fail ==
    /\ call.name # "none"
    /\ \/ UNCHANGED <<history, summary, forgotten>>
       \/ ~done /\ Effect
       \/ Resurrect
    /\ call'.name = "none" /\ done' = FALSE /\ returned' = "none"

Next == Start \/ TakeEffect \/ Return \/ CompactNothing \/ Fail

Spec == Init /\ [][Next]_vars
=============================================================================

----------------------------- MODULE AgentPrompt ----------------------------
(***************************************************************************)
(* What the agent makes of a stored history before a model sees it:        *)
(* sanitizeHistoryForProvider and BuildMessages (pkg/agent/context.go),    *)
(* the split of a long history for its summary, and the transcription of   *)
(* voice messages (pkg/agent/loop.go).  The inputs grow by one element at  *)
(* a time, so that every input up to the bound is a state.                 *)
(***************************************************************************)
EXTENDS Integers, Sequences, FiniteSets, SequencesExt

CONSTANTS MaxHistory,  \* bound: stored messages
          CallIds,     \* the ids of tool calls
          MaxMedia     \* bound: media of a message, and annotations in its text

ASSUME PromptAssumption == MaxHistory \in Nat /\ MaxMedia \in Nat /\ IsFiniteSet(CallIds)

VARIABLES
    told,   \* a stored history
    media,  \* the attachments of an inbound message: "speech", "noise", "other" or "gone"
    marks   \* how many [voice] annotations its text has
promptVars == <<told, media, marks>>

Plain(role) == [role |-> role, calls |-> {}, result |-> "none"]
CallMessage(C)  == [role |-> "assistant", calls |-> C, result |-> "none"]
Result(c)   == [role |-> "tool", calls |-> {}, result |-> c]
StoredMessages == {Plain(r) : r \in {"system", "user", "assistant"}}
              \cup {CallMessage(C) : C \in SUBSET CallIds \ {{}}} \cup {Result(c) : c \in CallIds}

PromptInit == told = <<>> /\ media = <<>> /\ marks = 0
Tell   == /\ media = <<>> /\ marks = 0 /\ Len(told) < MaxHistory /\ \E m \in StoredMessages : told' = Append(told, m)
          /\ UNCHANGED <<media, marks>>
Attach == /\ told = <<>> /\ Len(media) < MaxMedia
          /\ \E m \in {"speech", "noise", "other", "gone"} : media' = Append(media, m)
          /\ UNCHANGED <<told, marks>>
Annotate == told = <<>> /\ marks < MaxMedia /\ marks' = marks + 1 /\ UNCHANGED <<told, media>>
PromptNext == Tell \/ Attach \/ Annotate
PromptSpec == PromptInit /\ [][PromptNext]_promptVars
-----------------------------------------------------------------------------
IsCall(m) == m.role = "assistant" /\ m.calls # {}

\* What a loop over 1..n has gathered when it appends the places in S.
Places(n, S) ==
    LET gathered[k \in 0..n] ==
            IF k = 0 THEN <<>> ELSE IF k \in S THEN Append(gathered[k - 1], k) ELSE gathered[k - 1]
    IN  gathered[n]
\* The messages of h that a pass keeps, where S is the set of their places.
Selected(h, S) == LET places == Places(Len(h), S) IN [i \in DOMAIN places |-> h[places[i]]]

\* Place j of S comes after place i, with results in between, and is one.
Behind(h, S, i, j) == i < j /\ \A k \in S : i < k /\ k <= j => h[k].role = "tool"

\* a first pass that looks only at the message right before a result
FirstPass_NoWalk(h, kept, k) ==
    LET last(c) == \A j \in kept : j <= c
        stays ==
            CASE h[k].role = "system" -> FALSE
              [] h[k].role = "tool" -> \E c \in kept : IsCall(h[c]) /\ last(c)
              [] IsCall(h[k]) -> \E c \in kept : h[c].role \in {"user", "tool"} /\ last(c)
              [] OTHER -> TRUE
    IN  IF stays THEN kept \cup {k} ELSE kept
\* The first pass, for the message at place k, when those at the places kept were kept of the
\* ones before it: system messages go, a result stays behind a call and its other results, a
\* call stays behind a user's message or a result.
FirstPass(h, kept, k) ==
    LET last(c) == \A j \in kept : j <= c
        stays ==
            CASE h[k].role = "system" -> FALSE
              [] h[k].role = "tool" -> \E c \in kept : IsCall(h[c]) /\ \A j \in kept : c < j => h[j].role = "tool"
              [] IsCall(h[k]) -> \E c \in kept : h[c].role \in {"user", "tool"} /\ last(c)
              [] OTHER -> TRUE
    IN  IF stays THEN kept \cup {k} ELSE kept
FirstKept(h) ==
    LET kept[k \in 0..Len(h)] == IF k = 0 THEN {} ELSE FirstPass(h, kept[k - 1], k) IN kept[Len(h)]

\* The results that follow place i of S.
Results(h, S, i) == {h[j].result : j \in {j \in S : Behind(h, S, i, j)}}

Unanswered(h, S, i) == IsCall(h[i]) /\ ~(h[i].calls \subseteq Results(h, S, i))

\* The second pass: a call without all its results goes, and the results behind it.
SecondPass(h, S) == S \ {i \in S : \E k \in S : Unanswered(h, S, k) /\ (i = k \/ Behind(h, S, k, i))}

sanitizeHistoryForProvider(h) == Selected(h, SecondPass(h, FirstKept(h)))

\* BuildMessages: one system message, the history, and the request unless it is blank.
BuildMessages(h, request) ==
    <<Plain("system")>> \o sanitizeHistoryForProvider(h) \o
        (IF request THEN <<Plain("user")>> ELSE <<>>)

\* What strict providers ask of the messages (context.go:633).
ProviderAccepts(s) ==
    \A i \in DOMAIN s :
        /\ s[i].role = "system" => i = 1
        /\ IsCall(s[i]) => i > 1 /\ s[i].calls \subseteq Results(s, DOMAIN s, i)
                                 /\ s[i-1].role \in {"user", "tool"}
        /\ s[i].role = "tool" => \E k \in DOMAIN s : IsCall(s[k]) /\ Behind(s, DOMAIN s, k, i)

Users(s, I) == {i \in I : s[i].role = "user"}
\* summarizeSession splits in the middle, but at a user's message: the nearest one
\* before, else the nearest one after, else the middle.
findNearestUserMessage(s, mid) ==
    CASE Users(s, 1..mid) # {} -> CHOOSE i \in Users(s, 1..mid) : \A j \in Users(s, 1..mid) : j <= i
      [] Users(s, 1..mid) = {} /\ Users(s, mid..Len(s)) # {} ->
             CHOOSE i \in Users(s, mid..Len(s)) : \A j \in Users(s, mid..Len(s)) : i <= j
      [] OTHER -> mid
\* The two parts of the messages that a summary covers (indices from 1).
Halves(s) == LET mid == findNearestUserMessage(s, Len(s) \div 2 + 1)
            IN  <<SubSeq(s, 1, mid - 1), SubSeq(s, mid, Len(s))>>

\* transcribeAudioInMessage: the texts of the attachments that are audio and still
\* there; what cannot be transcribed counts as an empty text.
Audio(ms) == {i \in DOMAIN ms : ms[i] \in {"speech", "noise"}}
Texts(ms) == Places(Len(ms), Audio(ms))
\* The annotations are replaced in order and the rest is appended: what a reader
\* finds at the places of the new text, 0 standing for an untouched annotation.
Voices(ms, n) ==
    LET t == Texts(ms)
    IN  [k \in 1..(IF t = <<>> THEN n ELSE IF n > Len(t) THEN n ELSE Len(t)) |->
            IF k <= Len(t) THEN t[k] ELSE 0]
-----------------------------------------------------------------------------
\* Whatever history a crash, a race, a compression or a truncation leaves in the
\* store, a provider accepts the messages made of it (context.go:633-636).
PromptAccepted == ProviderAccepts(BuildMessages(told, TRUE))

\* requests and plain answers
Talks(m) == m.role \notin {"tool", "system"} /\ ~IsCall(m)
\* Nothing is dropped that need not be: an accepted history is left as it is, and
\* requests and plain answers always stay, in their order.
NothingWasted ==
    LET s == sanitizeHistoryForProvider(told)
        Talk(h) == Selected(h, {i \in DOMAIN h : Talks(h[i])})
    IN  /\ Talk(s) = Talk(told)
        /\ ProviderAccepts(<<Plain("system")>> \o told) => s = told
        /\ sanitizeHistoryForProvider(s) = s

\* Neither part of a split loses a message, and the second part begins with a
\* user's message whenever there is one (loop.go:1684).
SplitAtUser ==
    Len(told) > 1 =>
        LET p == Halves(told) IN
        /\ p[1] \o p[2] = told
        /\ Users(told, DOMAIN told) # {} => p[2] # <<>> /\ p[2][1].role = "user"

\* When no attachment is gone, each annotation shows the text of its own recording:
\* a recording that cannot be transcribed does not shift the others (loop.go:505).
VoicesAligned ==
    (\A i \in DOMAIN media : media[i] # "gone") =>
        LET audio == Places(Len(media), {i \in DOMAIN media : media[i] # "other"})
        IN  \A k \in DOMAIN Voices(media, marks) :
                Voices(media, marks)[k] = IF k <= Len(audio) THEN audio[k] ELSE 0

\* The four of above: what becomes of a history and of recordings before the model
\* sees them (BuildMessages, summarizeSession, transcribeAudioInMessage).
PromptSound == PromptAccepted /\ NothingWasted /\ SplitAtUser /\ VoicesAligned
=============================================================================

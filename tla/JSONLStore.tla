----------------------------- MODULE JSONLStore -----------------------------
(***************************************************************************)
(* pkg/memory/jsonl.go, for one session: an append-only file of messages   *)
(* (<key>.jsonl) and a metadata file (<key>.meta.json).  Every operation   *)
(* holds the session's shard lock from start to end, so at most one is in  *)
(* progress; what the lock does not give is atomicity with respect to a    *)
(* failure, and each operation writes the disk in one or two steps.        *)
(*                                                                         *)
(* Messages are numbered in the order they are offered.  A line of the     *)
(* file is a message, or Damaged when it does not parse.  `torn' is TRUE   *)
(* when the last line has no newline, so that the next append lands on it. *)
(***************************************************************************)
EXTENDS Integers, Sequences, FiniteSets

CONSTANTS MaxMsg,      \* bound: messages offered to the store
          MaxFaults,   \* bound: interrupted operations
          Summary,     \* summaries, the empty one included
          NoSummary,   \* the summary of a session that has none
          KeepLast,    \* arguments of TruncateHistory
          Damaged,     \* a line that does not parse
          TornWrites   \* may an interrupted append leave part of a line?

Msg == 1..MaxMsg

ASSUME StoreAssumption ==
    /\ MaxMsg \in Nat /\ MaxFaults \in Nat
    /\ NoSummary \in Summary
    /\ KeepLast \subseteq Int
    /\ Damaged \notin Int
    /\ TornWrites \in BOOLEAN

VARIABLES
    lines,      \* the .jsonl file
    torn,       \* its last line lacks the newline
    meta,       \* the .meta.json file
    pc,         \* its next write, "idle" when no operation holds the lock
    op,         \* the operation that holds the lock
    returned,   \* the operation that returned nil last, "none" after a fault
    stopped,    \* the operation that was interrupted last
    offered,    \* how many messages AddMessage was called with
    faults,     \* how many operations were interrupted
    promised,   \* the messages whose presence the callers may rely on
    dropped     \* the messages the callers were told are gone

disk  == <<lines, torn, meta>>
ghost == <<returned, stopped, offered, faults, promised, dropped>>
vars  == <<lines, torn, meta, pc, op, ghost>>

Line == Msg \cup {Damaged}
Meta == [summary : Summary, skip : Nat, count : Int]

Method == {"none", "AddMessage", "SetSummary", "TruncateHistory", "SetHistory",
           "Compact"}

OperationType == [name : Method, arg : Int, old : Nat, meta : Meta,
                  lines : Seq(Msg), promise : SUBSET Msg, gone : SUBSET Msg]

NewMeta(summary, skip, count) ==
    [summary |-> summary, skip |-> skip, count |-> count]

\* An operation in progress: its argument (a message, a keepLast), the metadata and the file
\* it writes, and for the ghosts what its caller may rely on when it returns
\* nil (promise) and what it is told is gone.
Operation(name, arg, newMeta, newLines, promise) ==
    [name |-> name, arg |-> arg, old |-> meta.skip,
     meta |-> newMeta, lines |-> newLines,
     promise |-> promise, gone |-> promised \ promise]

NoOperation ==
    [name |-> "none", arg |-> 0, old |-> 0,
     meta |-> NewMeta(NoSummary, 0, 0), lines |-> <<>>,
     promise |-> {}, gone |-> {}]
-----------------------------------------------------------------------------
(* Reading.                                                                *)

Intact(ls, skip) == {i \in skip + 1..Len(ls) : ls[i] # Damaged}

\* readMessages: the lines after the first `skip', without the damaged ones.
\* (A set with one element; stated through the positions it keeps.)
Decodings(ls, skip) ==
    LET kept == Intact(ls, skip) IN
    { [j \in DOMAIN f |-> ls[f[j]]] :
        f \in {g \in [1..Cardinality(kept) -> kept] :
                 \A a, b \in DOMAIN g : a < b => g[a] < g[b]} }

\* the offset the next reader uses; between the two writes of SetHistory and
\* of Compact the lock keeps readers out
ReadSkip == IF pc = "rewrite" THEN op.old ELSE meta.skip

GetHistory == CHOOSE h \in Decodings(lines, ReadSkip) : TRUE
Visible    == {lines[i] : i \in Intact(lines, ReadSkip)}

\* the last `keep' messages of the history
LastMessages(keep) ==
    LET kept == Intact(lines, meta.skip) IN
    {lines[i] : i \in {p \in kept : Cardinality({q \in kept : p <= q}) <= keep}}
-----------------------------------------------------------------------------
(* Writing.                                                                *)


\* O_APPEND: the bytes land after whatever the file ends with
AppendLine(ls, tn, l) ==
    IF tn THEN [ls EXCEPT ![Len(ls)] = Damaged] ELSE Append(ls, l)

\* what an append that did not complete can leave: nothing, part of the
\* line, the line without its newline, or all of it
InterruptedAppend(m) ==
    LET untouched == <<lines, torn>>
        complete  == <<AppendLine(lines, torn, m), FALSE>>
        partial   == <<AppendLine(lines, torn, Damaged), TRUE>>
        noNewline == <<AppendLine(lines, torn, m), TRUE>>
    IN  {untouched, complete} \cup
        (IF TornWrites THEN {partial, noNewline} ELSE {})

\* a truncation that trusts the stored count
TruncatedMeta_TrustsCount(keep) ==
    LET n == meta.count IN
    NewMeta(meta.summary,
            IF keep <= 0 THEN n
            ELSE IF keep < n - meta.skip THEN n - keep ELSE meta.skip,
            n)

\* a truncation that keeps one message too few
TruncatedMeta_KeepsOneLess(keep) ==
    LET n == Len(lines) IN
    NewMeta(meta.summary,
            IF keep <= 0 THEN n
            ELSE IF keep < n - meta.skip THEN n - keep + 1 ELSE meta.skip,
            n)


\* the metadata TruncateHistory writes; countLines counts damaged lines too
TruncatedMeta(keep) ==
    LET n == Len(lines) IN
    NewMeta(meta.summary,
            IF keep <= 0 THEN n
            ELSE IF keep < n - meta.skip THEN n - keep ELSE meta.skip,
            n)
-----------------------------------------------------------------------------
Init ==
    /\ lines = <<>> /\ torn = FALSE
    /\ meta = NewMeta(NoSummary, 0, 0)
    /\ pc = "idle" /\ op = NoOperation
    /\ returned = "none" /\ stopped = "none"
    /\ offered = 0 /\ faults = 0
    /\ promised = {} /\ dropped = {}

\* Take the lock.  From here until the call returns, the caller can rely only
\* on the messages that are there both before and after the call.
Begin(first, o) ==
    /\ pc = "idle"
    /\ pc' = first /\ op' = o
    /\ promised' = promised \cap o.promise
    /\ UNCHANGED disk
    /\ UNCHANGED <<returned, stopped, faults, dropped>>

\* (the metadata is read after the append; the lock keeps it as it is)
BeginAdd ==
    /\ offered < MaxMsg
    /\ offered' = offered + 1
    /\ Begin("append", Operation("AddMessage", offered + 1,
                       NewMeta(meta.summary, meta.skip, meta.count + 1),
                       <<>>, promised \cup {offered + 1}))

BeginSetSummary(s) ==
    /\ Begin("meta", Operation("SetSummary", 0,
                       NewMeta(s, meta.skip, meta.count), <<>>, promised))
    /\ UNCHANGED offered

BeginTruncate(keep) ==
    /\ Begin("meta", Operation("TruncateHistory", keep, TruncatedMeta(keep),
                       <<>>, promised \cap LastMessages(keep)))
    /\ UNCHANGED offered

\* a SetHistory that leaves the skip offset as it is
BeginSetHistory_KeepsSkip(h) ==
    /\ Begin("meta", Operation("SetHistory", 0,
                       NewMeta(meta.summary, meta.skip, Len(h)),
                       h, {h[i] : i \in DOMAIN h}))
    /\ UNCHANGED offered

BeginSetHistory(h) ==
    /\ Begin("meta", Operation("SetHistory", 0,
                       NewMeta(meta.summary, 0, Len(h)),
                       h, {h[i] : i \in DOMAIN h}))
    /\ UNCHANGED offered

\* What the callers replace a history by: nothing (clear), the same (migration),
\* or its first message and the last ones (forceCompression).
Replacements(h) ==
    {<<>>, h} \cup {<<h[1]>> \o SubSeq(h, i, Len(h)) : i \in 2..Len(h)}

BeginCompact ==
    /\ meta.skip # 0
    /\ \E active \in Decodings(lines, meta.skip) :
          Begin("meta", Operation("Compact", 0,
                          NewMeta(meta.summary, 0, Len(active)),
                          active, promised))
    /\ UNCHANGED offered

\* skip = 0: "nothing to compact", the call returns at once
CompactNothing ==
    /\ pc = "idle" /\ meta.skip = 0
    /\ returned' = "Compact"
    /\ UNCHANGED <<lines, torn, meta, pc, op>>
    /\ UNCHANGED <<stopped, offered, faults, promised, dropped>>
-----------------------------------------------------------------------------
\* Release the lock and return nil: now the caller knows the effect.
Return ==
    /\ pc' = "idle" /\ op' = NoOperation
    /\ returned' = op.name
    /\ promised' = op.promise
    /\ dropped' = (dropped \cup op.gone) \ op.promise
    /\ UNCHANGED <<stopped, offered, faults>>

\* open O_APPEND, write, fsync, close
AppendToFile ==
    /\ pc = "append"
    /\ lines' = AppendLine(lines, torn, op.arg) /\ torn' = FALSE
    /\ pc' = "meta"
    /\ UNCHANGED <<meta, op, ghost>>

\* WriteFileAtomic replaces the metadata; only SetHistory and Compact go on
WriteMeta ==
    /\ pc = "meta"
    /\ meta' = op.meta
    /\ UNCHANGED <<lines, torn>>
    /\ IF op.name \in {"SetHistory", "Compact"}
       THEN pc' = "rewrite" /\ UNCHANGED <<op, ghost>>
       ELSE Return


\* WriteFileAtomic replaces the .jsonl file
RewriteJSONL ==
    /\ pc = "rewrite"
    /\ lines' = op.lines /\ torn' = FALSE
    /\ UNCHANGED meta
    /\ Return

\* The operation stops before its next write is complete: the write fails and
\* the call returns the error, or the process dies.  The store keeps nothing in
\* memory, so the two leave the same state.
Interrupt ==
    /\ pc # "idle" /\ faults < MaxFaults
    /\ faults' = faults + 1
    /\ IF pc = "append"
       THEN \E after \in InterruptedAppend(op.arg) :
               lines' = after[1] /\ torn' = after[2]
       ELSE UNCHANGED <<lines, torn>>
    /\ pc' = "idle" /\ op' = NoOperation
    /\ returned' = "none" /\ stopped' = op.name
    /\ UNCHANGED <<meta, offered, promised, dropped>>

Next ==
    \/ BeginAdd \/ AppendToFile
    \/ \E s \in Summary : BeginSetSummary(s)
    \/ \E keep \in KeepLast : BeginTruncate(keep)
    \/ \E h \in Decodings(lines, meta.skip) : \E r \in Replacements(h) : BeginSetHistory(r)
    \/ BeginCompact \/ CompactNothing
    \/ WriteMeta \/ RewriteJSONL
    \/ Interrupt

Spec == Init /\ [][Next]_vars
-----------------------------------------------------------------------------
(* Properties.                                                             *)

\* The variables hold values of the kinds the code declares.
TypeOK ==
    /\ lines \in Seq(Line) /\ torn \in BOOLEAN
    /\ meta \in Meta
    /\ pc \in {"idle", "append", "meta", "rewrite"}
    /\ op \in OperationType
    /\ offered \in 0..MaxMsg /\ faults \in 0..MaxFaults
    /\ promised \subseteq Msg /\ dropped \subseteq Msg
    /\ returned \in Method /\ stopped \in Method

\* The skip offset never points past the end of the file: past it, the next
\* messages appended would be skipped as if they had been truncated.
\* (TruncateHistory recounts the lines because the stored count can be stale.)
SkipWithinFile == meta.skip <= Len(lines)

\* A message whose AddMessage returned nil, and that no later call removed, is
\* in the history, whatever was interrupted in between.
PromisedVisible == promised \subseteq Visible

\* "The next Compact or TruncateHistory corrects this": once a Compact has
\* returned nil after one that was interrupted, the truncated messages that the
\* interrupted one brought back are gone again.  (Does not hold: the interrupted
\* Compact left skip = 0, so the next one returns at once.)
CompactCorrects ==
    (pc = "idle" /\ returned = "Compact" /\ stopped = "Compact")
        => dropped \cap Visible = {}

\* "Malformed trailing lines (e.g. from a crash) are silently skipped" and
\* appends are "fast and crash-safe": what is lost is the interrupted message,
\* not one that was acknowledged.  (PromisedVisible, with torn appends.)
CrashSafeAppend == PromisedVisible

\* "TruncateHistory removes all but the last keepLast messages": the last
\* keepLast messages of the history are still there when it returns nil.
\* (Does not hold with torn appends: damaged lines are counted.)
TruncateKeepsLast ==
    (pc = "idle" /\ returned = "TruncateHistory") => promised \subseteq Visible

\* the messages that a truncation hid and no call has discarded yet
Forgotten == CHOOSE h \in Decodings(SubSeq(lines, 1, ReadSkip), 0) : TRUE

(* The store implements SessionLog when an interrupted append leaves nothing
   or everything: each method does what its interface says in one of its
   writes, and an interruption does no more than bring truncated messages
   back. *)
Log == INSTANCE SessionLog
         WITH history   <- GetHistory,
              summary   <- meta.summary,
              forgotten <- Forgotten,
              call      <- [name |-> op.name, arg |-> op.arg,
                            summary |-> op.meta.summary, history |-> op.lines],
              done      <- op.name = "AddMessage" /\ pc = "meta"
ImplementsSessionLog == Log!Spec
=============================================================================

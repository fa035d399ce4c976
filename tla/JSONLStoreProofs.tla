-------------------------- MODULE JSONLStoreProofs --------------------------
(***************************************************************************)
(* Proofs about JSONLStore, for every number of messages and of faults:    *)
(* type, offset, durability, and the refinement of SessionLog.             *)
(***************************************************************************)
EXTENDS JSONLStore, FiniteSetTheorems, SequenceTheorems, WellFoundedInduction, TLAPS

-----------------------------------------------------------------------------
(* Reading and truncating.                                                 *)

\* readMessages returns messages only, and every intact line after the offset.
LEMMA DecodingsRange ==
  ASSUME NEW ls \in Seq(Line), NEW skip \in Nat, NEW h \in Decodings(ls, skip)
  PROVE  /\ h \in Seq(Msg)
         /\ \A i \in Intact(ls, skip) : \E j \in DOMAIN h : h[j] = ls[i]
<1> DEFINE kept == Intact(ls, skip)
<1>1. kept \subseteq skip + 1..Len(ls) /\ IsFiniteSet(kept)
  <2>1. Len(ls) \in Nat /\ kept \in SUBSET (skip + 1..Len(ls))
    BY DEF Intact
  <2>2. IsFiniteSet(skip + 1..Len(ls))
    BY <2>1, FS_Interval
  <2> QED BY <2>1, <2>2, FS_Subset
<1>2. Cardinality(kept) \in Nat
  BY <1>1, FS_CardinalityType
<1>3. PICK f \in [1..Cardinality(kept) -> kept] :
         /\ \A a, b \in DOMAIN f : a < b => f[a] < f[b]
         /\ h = [j \in DOMAIN f |-> ls[f[j]]]
  BY DEF Decodings
<1>4. f \in Surjection(1..Cardinality(kept), kept)
  <2>1. \A a, b \in 1..Cardinality(kept) : f[a] = f[b] => a = b
    <3> SUFFICES ASSUME NEW a \in 1..Cardinality(kept),
                        NEW b \in 1..Cardinality(kept), a # b
                 PROVE  f[a] # f[b]
      OBVIOUS
    <3>1. f[a] \in Int /\ f[b] \in Int
      BY <1>1, <1>3
    <3>2. a < b \/ b < a
      BY <1>2
    <3> QED BY <1>3, <3>1, <3>2
  <2>2. f \in Injection(1..Cardinality(kept), kept)
    BY <2>1 DEF Injection, IsInjective
  <2>3. Cardinality(1..Cardinality(kept)) = Cardinality(kept)
    BY <1>2, FS_Interval
  <2> QED BY <1>1, <2>2, <2>3, FS_Injection
<1>5. \A i \in kept : ls[i] \in Msg
  BY <1>1 DEF Intact, Line
<1>6. h \in Seq(Msg)
  BY <1>2, <1>3, <1>5
<1>7. \A i \in kept : \E j \in DOMAIN f : f[j] = i
  BY <1>4 DEF Surjection
<1> QED BY <1>3, <1>6, <1>7

\* SetHistory is called with messages of the history only.
LEMMA ReplacementsType ==
  ASSUME NEW h \in Seq(Msg)
  PROVE  Replacements(h) \subseteq Seq(Msg)
<1>1. ASSUME NEW i \in 2..Len(h)
      PROVE  <<h[1]>> \o SubSeq(h, i, Len(h)) \in Seq(Msg)
  <2>1. Len(h) \in Nat /\ 1 \in 1..Len(h) /\ h[1] \in Msg
    BY LenProperties
  <2>2. SubSeq(h, i, Len(h)) \in Seq(Msg)
    BY <2>1
  <2>3. <<h[1]>> \in Seq(Msg)
    BY <2>1
  <2> QED BY <2>2, <2>3, ConcatProperties
<1>2. <<>> \in Seq(Msg)
  OBVIOUS
<1> QED BY <1>1, <1>2 DEF Replacements

\* On a file without damaged lines, TruncateHistory keeps the last `keep'
\* messages of the history.
LEMMA TruncateKeepsTail ==
  ASSUME lines \in Seq(Msg), meta \in Meta, StoreAssumption,
         NEW keep \in Int
  PROVE  /\ TruncatedMeta(keep) \in Meta
         /\ meta.skip <= Len(lines) => TruncatedMeta(keep).skip <= Len(lines)
         /\ \A m \in LastMessages(keep) :
               \E i \in TruncatedMeta(keep).skip + 1..Len(lines) : lines[i] = m
<1> DEFINE n == Len(lines)
           skip == TruncatedMeta(keep).skip
           kept == Intact(lines, meta.skip)
<1>1. n \in Nat /\ meta.skip \in Nat
  BY DEF Meta
<1>2. kept = meta.skip + 1..n
  BY <1>1 DEF Intact, StoreAssumption, Msg
<1>3. /\ TruncatedMeta(keep) \in Meta
      /\ skip = IF keep <= 0 THEN n
                ELSE IF keep < n - meta.skip THEN n - keep ELSE meta.skip
  BY <1>1 DEF TruncatedMeta, NewMeta, Meta
<1>4. ASSUME NEW p \in kept, Cardinality({q \in kept : p <= q}) <= keep
      PROVE  p \in skip + 1..n
  <2>1. {q \in kept : p <= q} = p..n
    BY <1>1, <1>2
  <2>2. Cardinality(p..n) = n - p + 1
    BY <1>1, <1>2, FS_Interval
  <2>3. n - p + 1 <= keep
    BY <1>4, <2>1, <2>2
  <2> QED BY <1>1, <1>2, <1>3, <2>3
<1>5. \A m \in LastMessages(keep) : \E i \in skip + 1..n : lines[i] = m
  BY <1>4 DEF LastMessages
<1> HIDE DEF n, skip
<1> QED BY <1>1, <1>3, <1>5 DEF n, skip
-----------------------------------------------------------------------------
(* The inductive invariant behind TypeOK and SkipWithinFile: the metadata   *)
(* an operation is about to write is as good as the metadata on disk.       *)

Rewrites == {"SetHistory", "Compact"}

StoreInv ==
    /\ TypeOK
    /\ SkipWithinFile
    /\ torn => Len(lines) > 0
    /\ pc = "append" =>
          /\ op.meta.skip = meta.skip
          /\ op.name \notin Rewrites
          /\ op.arg \in Msg
    /\ pc = "meta" =>
          /\ op.meta.skip <= Len(lines)
          /\ op.name \in Rewrites => op.meta.skip = 0
    /\ pc = "rewrite" => meta.skip = 0

\* An append adds at most one line, and leaves a file of lines.
LEMMA AppendLineType ==
  ASSUME NEW ls \in Seq(Line), NEW tn \in BOOLEAN, NEW l \in Line,
         tn => Len(ls) > 0
  PROVE  /\ AppendLine(ls, tn, l) \in Seq(Line)
         /\ Len(ls) <= Len(AppendLine(ls, tn, l))
         /\ Len(AppendLine(ls, tn, l)) > 0
<1>1. CASE tn
  <2>1. AppendLine(ls, tn, l) = [ls EXCEPT ![Len(ls)] = Damaged]
    BY <1>1 DEF AppendLine
  <2>2. Damaged \in Line /\ Len(ls) \in 1..Len(ls)
    BY <1>1 DEF Line
  <2>3. /\ AppendLine(ls, tn, l) \in Seq(Line)
        /\ Len(AppendLine(ls, tn, l)) = Len(ls)
    BY <2>1, <2>2, ExceptSeq
  <2>4. Len(ls) \in Nat /\ Len(ls) > 0
    BY <1>1, LenProperties
  <2> DEFINE after == AppendLine(ls, tn, l)
  <2> HIDE DEF after
  <2>5. after \in Seq(Line) /\ Len(after) = Len(ls)
    BY <2>3 DEF after
  <2>6. Len(ls) <= Len(after) /\ Len(after) > 0
    BY <2>4, <2>5
  <2> QED BY <2>5, <2>6 DEF after
<1>2. CASE ~tn
  BY <1>2 DEF AppendLine
<1> QED BY <1>1, <1>2

LEMMA NoOperationType == StoreAssumption => NoOperation \in OperationType
  BY EmptySeq
  DEF StoreAssumption, NoOperation, OperationType, NewMeta, Meta, Method

\* An operation is well formed when its parts are.
LEMMA OperationHasType ==
  ASSUME StoreAssumption, TypeOK, NEW name \in Method, NEW arg \in Int,
         NEW newMeta \in Meta, NEW newLines \in Seq(Msg),
         NEW promise \in SUBSET Msg
  PROVE  Operation(name, arg, newMeta, newLines, promise) \in OperationType
<1>1. meta.skip \in Nat /\ promised \ promise \in SUBSET Msg
  BY DEF TypeOK, Meta
<1> QED BY <1>1 DEF Operation, OperationType

\* Nothing that an operation does when it begins touches the disk.
LEMMA StoreBegin ==
  ASSUME StoreAssumption, StoreInv, NEW first \in {"append", "meta"},
         NEW name \in Method, NEW arg \in Int, NEW newMeta \in Meta,
         NEW newLines \in Seq(Msg), NEW promise \in SUBSET Msg,
         first = "append" => /\ newMeta.skip = meta.skip
                             /\ name \notin Rewrites
                             /\ arg \in Msg,
         first = "meta" => /\ newMeta.skip <= Len(lines)
                           /\ name \in Rewrites => newMeta.skip = 0,
         Begin(first, Operation(name, arg, newMeta, newLines, promise)),
         offered' \in 0..MaxMsg
  PROVE  StoreInv'
<1> DEFINE o == Operation(name, arg, newMeta, newLines, promise)
<1>1. o \in OperationType
  BY OperationHasType DEF StoreInv
<1>2. o.name = name /\ o.arg = arg /\ o.meta = newMeta
  BY DEF Operation
<1> HIDE DEF o
<1>3. /\ pc' = first /\ op' = o
      /\ UNCHANGED <<lines, torn, meta, returned, stopped, faults, dropped>>
      /\ promised' \subseteq promised
  BY DEF Begin, disk, o
<1>4. TypeOK'
  BY <1>1, <1>3 DEF StoreInv, TypeOK
<1> QED BY <1>2, <1>3, <1>4 DEF StoreInv, SkipWithinFile

LEMMA StoreInit == StoreAssumption /\ Init => StoreInv
<1> SUFFICES ASSUME StoreAssumption, Init PROVE StoreInv
  OBVIOUS
<1>1. lines = <<>> /\ lines \in Seq(Line) /\ Len(lines) = 0
  BY EmptySeq DEF Init
<1>2. meta \in Meta /\ meta.skip = 0
  BY DEF Init, NewMeta, Meta, StoreAssumption
<1>3. /\ torn = FALSE /\ pc = "idle" /\ op \in OperationType
      /\ returned \in Method /\ stopped \in Method
  BY NoOperationType DEF Init, Method
<1>4. /\ offered \in 0..MaxMsg /\ faults \in 0..MaxFaults
      /\ promised \subseteq Msg /\ dropped \subseteq Msg
  BY DEF Init, StoreAssumption
<1>5. TypeOK
  BY <1>1, <1>2, <1>3, <1>4 DEF TypeOK
<1> QED
  BY <1>1, <1>2, <1>3, <1>5 DEF StoreInv, SkipWithinFile

\* An operation that returns leaves a well-formed disk to the next one.
LEMMA StoreReturn ==
  ASSUME StoreAssumption, TypeOK, Return,
         lines' \in Seq(Line), torn' \in BOOLEAN, meta' \in Meta,
         meta'.skip <= Len(lines'), torn' => Len(lines') > 0
  PROVE  StoreInv'
<1>1. op.name \in Method /\ op.promise \subseteq Msg /\ op.gone \subseteq Msg
  BY DEF TypeOK, OperationType
<1>2. TypeOK'
  BY <1>1, NoOperationType DEF TypeOK, Return
<1> QED BY <1>2 DEF StoreInv, Return, SkipWithinFile

LEMMA StoreStep == StoreAssumption /\ StoreInv /\ [Next]_vars => StoreInv'
<1> SUFFICES ASSUME StoreAssumption, StoreInv, [Next]_vars
             PROVE  StoreInv'
  OBVIOUS
<1>0. /\ TypeOK /\ SkipWithinFile
      /\ lines \in Seq(Line) /\ Len(lines) \in Nat /\ torn \in BOOLEAN
      /\ meta \in Meta /\ meta.summary \in Summary /\ meta.skip \in Nat
      /\ meta.count \in Int /\ meta.skip <= Len(lines)
      /\ offered \in 0..MaxMsg /\ promised \in SUBSET Msg
  BY LenProperties DEF StoreInv, TypeOK, Meta, SkipWithinFile
<1>1. CASE BeginAdd
  <2>1. /\ offered + 1 \in Int /\ offered' \in 0..MaxMsg
        /\ offered + 1 \in Msg /\ promised \cup {offered + 1} \in SUBSET Msg
    BY <1>0, <1>1 DEF BeginAdd, StoreAssumption, Msg
  <2>2. /\ NewMeta(meta.summary, meta.skip, meta.count + 1) \in Meta
        /\ NewMeta(meta.summary, meta.skip, meta.count + 1).skip = meta.skip
    BY <1>0 DEF NewMeta, Meta
  <2>3. <<>> \in Seq(Msg)
    BY EmptySeq
  <2> QED
    BY <1>1, <2>1, <2>2, <2>3, StoreBegin DEF BeginAdd, Rewrites, Method
<1>2. ASSUME NEW s \in Summary, BeginSetSummary(s) PROVE StoreInv'
  <2>1. /\ NewMeta(s, meta.skip, meta.count) \in Meta
        /\ NewMeta(s, meta.skip, meta.count).skip = meta.skip
    BY <1>0 DEF NewMeta, Meta
  <2>2. <<>> \in Seq(Msg) /\ 0 \in Int /\ offered' \in 0..MaxMsg
    BY <1>0, <1>2, EmptySeq DEF BeginSetSummary, StoreAssumption
  <2> QED BY <1>0, <1>2, <2>1, <2>2, StoreBegin
    DEF BeginSetSummary, Rewrites, Method
<1>3. ASSUME NEW keep \in KeepLast, BeginTruncate(keep) PROVE StoreInv'
  <2>1. TruncatedMeta(keep) \in Meta /\ TruncatedMeta(keep).skip <= Len(lines)
    <3>1. keep \in Int
      BY DEF StoreAssumption
    <3> QED BY <1>0, <3>1 DEF TruncatedMeta, NewMeta, Meta
  <2>2. /\ <<>> \in Seq(Msg) /\ offered' \in 0..MaxMsg
        /\ promised \cap LastMessages(keep) \in SUBSET Msg
    BY <1>0, <1>3, EmptySeq DEF BeginTruncate, StoreAssumption
  <2> QED BY <1>3, <2>1, <2>2, StoreBegin DEF BeginTruncate, Rewrites, Method
<1>4. ASSUME NEW h \in Seq(Msg), BeginSetHistory(h) PROVE StoreInv'
  <2>1. /\ NewMeta(meta.summary, 0, Len(h)) \in Meta
        /\ NewMeta(meta.summary, 0, Len(h)).skip = 0
    BY <1>0, LenProperties DEF NewMeta, Meta
  <2>2. /\ offered' \in 0..MaxMsg
        /\ {h[i] : i \in DOMAIN h} \in SUBSET Msg
    BY <1>0, <1>4 DEF BeginSetHistory, StoreAssumption
  <2> QED BY <1>0, <1>4, <2>1, <2>2, StoreBegin
    DEF BeginSetHistory, Rewrites, Method
<1>5. CASE BeginCompact
  <2>1. PICK active \in Decodings(lines, meta.skip) :
          Begin("meta", Operation("Compact", 0,
                          NewMeta(meta.summary, 0, Len(active)),
                          active, promised))
    BY <1>5 DEF BeginCompact
  <2>2. active \in Seq(Msg)
    BY <1>0, <2>1, DecodingsRange
  <2>3. /\ NewMeta(meta.summary, 0, Len(active)) \in Meta
        /\ NewMeta(meta.summary, 0, Len(active)).skip = 0
    BY <1>0, <2>2, LenProperties DEF NewMeta, Meta
  <2>4. offered' \in 0..MaxMsg
    BY <1>0, <1>5 DEF BeginCompact, StoreAssumption
  <2> QED BY <1>0, <2>1, <2>2, <2>3, <2>4, StoreBegin DEF Rewrites, Method
<1>6. CASE CompactNothing \/ UNCHANGED vars
  BY <1>6
  DEF CompactNothing, vars, ghost, StoreInv, TypeOK, SkipWithinFile, Method
<1>7. CASE AppendToFile
  <2>1. op.arg \in Msg /\ op.meta.skip = meta.skip /\ op.name \notin Rewrites
    BY <1>7 DEF AppendToFile, StoreInv
  <2>2. op.arg \in Line /\ (torn => Len(lines) > 0)
    BY <2>1 DEF Line, StoreInv
  <2>3. lines' \in Seq(Line) /\ Len(lines) <= Len(lines')
    BY <1>0, <1>7, <2>2, AppendLineType DEF AppendToFile
  <2>4. TypeOK'
    BY <1>0, <1>7, <2>3 DEF AppendToFile, TypeOK, ghost
  <2>5. meta.skip <= Len(lines')
    BY <1>0, <2>3, LenProperties
  <2> QED
    BY <1>7, <2>1, <2>4, <2>5 DEF AppendToFile, StoreInv, SkipWithinFile
<1>8. CASE WriteMeta
  <2>1. /\ meta' = op.meta /\ pc = "meta" /\ lines' = lines /\ torn' = torn
        /\ op.meta \in Meta /\ op.meta.skip <= Len(lines)
        /\ torn => Len(lines) > 0
    BY <1>0, <1>8 DEF WriteMeta, StoreInv, TypeOK, OperationType
  <2>2. CASE op.name \in Rewrites
    <3>1. pc' = "rewrite" /\ UNCHANGED <<op, ghost>>
      BY <1>8, <2>2 DEF WriteMeta, Rewrites
    <3>2. TypeOK'
      BY <1>0, <2>1, <3>1 DEF TypeOK, ghost
    <3>3. op.meta.skip = 0
      BY <2>1, <2>2 DEF StoreInv
    <3> QED BY <2>1, <3>1, <3>2, <3>3 DEF StoreInv, SkipWithinFile
  <2>3. CASE op.name \notin Rewrites
    <3>1. Return
      BY <1>8, <2>3 DEF WriteMeta, Rewrites
    <3> QED BY <1>0, <2>1, <3>1, StoreReturn
  <2> QED BY <2>2, <2>3
<1>9. CASE RewriteJSONL
  <2>1. /\ lines' = op.lines /\ torn' = FALSE /\ meta' = meta /\ Return
        /\ meta.skip = 0 /\ op.lines \in Seq(Msg)
    BY <1>0, <1>9 DEF RewriteJSONL, StoreInv, TypeOK, OperationType
  <2>2. lines' \in Seq(Line)
    BY <2>1, SeqMonotonic DEF Line
  <2>3. meta'.skip <= Len(lines')
    BY <2>1, <2>2, LenProperties
  <2> QED BY <1>0, <2>1, <2>2, <2>3, StoreReturn
<1>10. CASE Interrupt
  <2>1. /\ lines' \in Seq(Line) /\ torn' \in BOOLEAN
        /\ Len(lines) <= Len(lines') /\ (torn' => Len(lines') > 0)
    <3>1. CASE pc = "append"
      <4>1. PICK after \in InterruptedAppend(op.arg) :
               lines' = after[1] /\ torn' = after[2]
        BY <1>10, <3>1 DEF Interrupt
      <4>2. op.arg \in Line /\ Damaged \in Line /\ (torn => Len(lines) > 0)
        BY <3>1 DEF Line, StoreInv
      <4>3. \/ after = <<lines, torn>>
            \/ \E l \in Line, b \in BOOLEAN :
                  after = <<AppendLine(lines, torn, l), b>>
        BY <4>1, <4>2 DEF InterruptedAppend
      <4>4. CASE after = <<lines, torn>>
        BY <1>0, <4>1, <4>2, <4>4
      <4>5. ASSUME NEW l \in Line, NEW b \in BOOLEAN,
                   after = <<AppendLine(lines, torn, l), b>>
            PROVE  /\ lines' \in Seq(Line) /\ torn' \in BOOLEAN
                   /\ Len(lines) <= Len(lines') /\ (torn' => Len(lines') > 0)
        BY <1>0, <4>1, <4>2, <4>5, AppendLineType
      <4> QED BY <4>3, <4>4, <4>5
    <3>2. CASE pc # "append"
      BY <1>0, <1>10, <3>2 DEF Interrupt, StoreInv
    <3> QED BY <3>1, <3>2
  <2>2. /\ pc' = "idle" /\ op' = NoOperation /\ meta' = meta
        /\ returned' = "none" /\ stopped' = op.name /\ faults' = faults + 1
        /\ UNCHANGED <<offered, promised, dropped>> /\ faults < MaxFaults
    BY <1>10 DEF Interrupt
  <2>3. op.name \in Method /\ faults' \in 0..MaxFaults
    BY <1>0, <2>2 DEF TypeOK, OperationType, StoreAssumption
  <2>4. TypeOK'
    BY <1>0, <2>1, <2>2, <2>3, NoOperationType DEF TypeOK, Method
  <2>5. meta'.skip <= Len(lines')
    BY <1>0, <2>1, <2>2, LenProperties
  <2> QED BY <2>1, <2>2, <2>4, <2>5 DEF StoreInv, SkipWithinFile
<1>11. ASSUME NEW h \in Decodings(lines, meta.skip), NEW r \in Replacements(h)
       PROVE  r \in Seq(Msg)
  BY <1>0, DecodingsRange, ReplacementsType
<1> QED
  BY <1>1, <1>2, <1>3, <1>4, <1>5, <1>6, <1>7, <1>8, <1>9, <1>10, <1>11
  DEF Next

\* The state keeps its shape, and the skip offset never points past the end of
\* the file, however operations are interrupted and appends torn: truncation
\* recounts the lines, and a rewrite resets the offset before it shortens the
\* file (jsonl.go TruncateHistory, SetHistory, Compact).
THEOREM SkipTheorem == Spec => [](TypeOK /\ SkipWithinFile)
<1>1. StoreInv => TypeOK /\ SkipWithinFile
  BY DEF StoreInv
<1> QED BY <1>1, StoreInit, StoreStep, StoreAssumption, PTL DEF Spec
-----------------------------------------------------------------------------
(* Durability, when an interrupted append leaves nothing or everything.  A  *)
(* caller's promise is kept by what the operation in progress has written   *)
(* or is about to write.                                                    *)

Shown(ls, skip) == {ls[i] : i \in skip + 1..Len(ls)}

DurableInv ==
    /\ torn = FALSE
    /\ lines \in Seq(Msg)
    /\ promised \subseteq Shown(lines, ReadSkip)
    /\ pc \in {"append", "meta"} => op.old = meta.skip
    /\ pc = "append" => op.promise \subseteq promised \cup {op.arg}
    /\ pc = "meta" =>
          op.promise \subseteq IF op.name \in Rewrites
                               THEN Shown(op.lines, 0)
                               ELSE Shown(lines, op.meta.skip)
    /\ pc = "rewrite" => op.promise \subseteq Shown(op.lines, 0)

\* On a file without damaged lines the history is what follows the offset.
LEMMA UndamagedIntact ==
  ASSUME StoreAssumption, NEW ls \in Seq(Msg), NEW skip \in Nat
  PROVE  Intact(ls, skip) = skip + 1..Len(ls)
<1>1. \A i \in skip + 1..Len(ls) : ls[i] # Damaged
  BY DEF StoreAssumption, Msg
<1> QED BY <1>1 DEF Intact

LEMMA UndamagedVisible ==
  ASSUME StoreAssumption, StoreInv, DurableInv
  PROVE  Visible = Shown(lines, ReadSkip)
<1>1. ReadSkip \in Nat
  BY DEF ReadSkip, StoreInv, TypeOK, OperationType, Meta
<1> QED BY <1>1, UndamagedIntact DEF Visible, Shown, DurableInv

LEMMA DurableInit == StoreAssumption /\ Init => DurableInv
  BY EmptySeq DEF Init, DurableInv, StoreAssumption

\* An operation that begins promises no more than it is about to write.
LEMMA DurableBegin ==
  ASSUME StoreInv, DurableInv, NEW first \in {"append", "meta"},
         NEW name, NEW arg, NEW newMeta, NEW newLines, NEW promise,
         Begin(first, Operation(name, arg, newMeta, newLines, promise)),
         first = "append" => promise \subseteq promised \cup {arg},
         first = "append" => promised \subseteq promise,
         first = "meta" =>
            promise \subseteq IF name \in Rewrites THEN Shown(newLines, 0)
                              ELSE Shown(lines, newMeta.skip)
  PROVE  DurableInv'
<1> DEFINE o == Operation(name, arg, newMeta, newLines, promise)
<1>1. /\ o.name = name /\ o.arg = arg /\ o.meta = newMeta
      /\ o.lines = newLines /\ o.promise = promise /\ o.old = meta.skip
  BY DEF Operation
<1> HIDE DEF o
<1>2. /\ pc = "idle" /\ pc' = first /\ op' = o
      /\ UNCHANGED <<lines, torn, meta>>
      /\ promised' = promised \cap promise
  BY <1>1 DEF Begin, disk, o
<1>3. ReadSkip' = ReadSkip
  BY <1>2 DEF ReadSkip
<1>4. promised' \subseteq Shown(lines', ReadSkip')
  BY <1>2, <1>3 DEF DurableInv
<1>5. first = "append" => promised' = promised
  BY <1>2
<1>6. pc' # "rewrite"
  BY <1>2
<1> QED
  BY <1>1, <1>2, <1>4, <1>5, <1>6 DEF DurableInv

LEMMA DurableStep ==
  ASSUME TornWrites = FALSE
  PROVE  StoreAssumption /\ StoreInv /\ DurableInv /\ [Next]_vars => DurableInv'
<1> SUFFICES ASSUME StoreAssumption, StoreInv, DurableInv, [Next]_vars
             PROVE  DurableInv'
  OBVIOUS
<1>0. /\ lines \in Seq(Msg) /\ lines \in Seq(Line) /\ torn = FALSE
      /\ meta \in Meta /\ meta.skip \in Nat /\ Len(lines) \in Nat
      /\ op \in OperationType /\ op.old \in Nat
      /\ promised \subseteq Shown(lines, ReadSkip)
  BY LenProperties DEF DurableInv, StoreInv, TypeOK, Meta, OperationType
<1>1. CASE BeginAdd
  BY <1>1, DurableBegin DEF BeginAdd
<1>2. ASSUME NEW s \in Summary, BeginSetSummary(s) PROVE DurableInv'
  <2>1. pc = "idle" /\ NewMeta(s, meta.skip, meta.count).skip = ReadSkip
    BY <1>2 DEF BeginSetSummary, Begin, NewMeta, ReadSkip
  <2> QED
    BY <1>0, <1>2, <2>1, DurableBegin DEF BeginSetSummary, Rewrites
<1>3. ASSUME NEW keep \in KeepLast, BeginTruncate(keep) PROVE DurableInv'
  <2>1. keep \in Int
    BY DEF StoreAssumption
  <2>2. LastMessages(keep) \subseteq Shown(lines, TruncatedMeta(keep).skip)
    BY <1>0, <2>1, TruncateKeepsTail DEF Shown
  <2> QED BY <1>3, <2>2, DurableBegin DEF BeginTruncate, Rewrites
<1>4. ASSUME NEW h \in Seq(Msg), BeginSetHistory(h) PROVE DurableInv'
  <2>1. {h[i] : i \in DOMAIN h} \subseteq Shown(h, 0)
    BY LenProperties DEF Shown
  <2> QED BY <1>4, <2>1, DurableBegin DEF BeginSetHistory, Rewrites
<1>5. CASE BeginCompact
  <2>1. PICK active \in Decodings(lines, meta.skip) :
          Begin("meta", Operation("Compact", 0,
                          NewMeta(meta.summary, 0, Len(active)),
                          active, promised))
    BY <1>5 DEF BeginCompact
  <2>2. /\ active \in Seq(Msg)
        /\ \A i \in Intact(lines, meta.skip) :
              \E j \in DOMAIN active : active[j] = lines[i]
    BY <1>0, <2>1, DecodingsRange
  <2>3. Intact(lines, meta.skip) = meta.skip + 1..Len(lines)
    BY <1>0, UndamagedIntact
  <2>4. ReadSkip = meta.skip
    BY <2>1 DEF Begin, ReadSkip
  <2>5. DOMAIN active = 0 + 1..Len(active)
    BY <2>2, LenProperties
  <2>6. promised \subseteq Shown(active, 0)
    BY <1>0, <2>2, <2>3, <2>4, <2>5 DEF Shown
  <2> QED BY <2>1, <2>6, DurableBegin DEF Rewrites
<1>6. CASE CompactNothing \/ UNCHANGED vars
  BY <1>6 DEF CompactNothing, vars, ghost, DurableInv, ReadSkip
<1>7. CASE AppendToFile
  <2>1. /\ op.arg \in Msg /\ op.meta.skip = meta.skip /\ op.old = meta.skip
        /\ op.name \notin Rewrites /\ op.promise \subseteq promised \cup {op.arg}
        /\ pc = "append"
    BY <1>7 DEF AppendToFile, StoreInv, DurableInv
  <2>2. lines' = Append(lines, op.arg) /\ torn' = FALSE /\ pc' = "meta"
    BY <1>0, <1>7 DEF AppendToFile, AppendLine
  <2>3. /\ lines' \in Seq(Msg) /\ Len(lines') = Len(lines) + 1
        /\ \A i \in 1..Len(lines) : lines'[i] = lines[i]
        /\ lines'[Len(lines) + 1] = op.arg
    BY <1>0, <2>1, <2>2, AppendProperties
  <2>4. meta' = meta /\ op' = op /\ promised' = promised
    BY <1>7 DEF AppendToFile, ghost
  <2>5. ReadSkip = meta.skip /\ ReadSkip' = meta.skip
    BY <2>1, <2>2, <2>4 DEF ReadSkip
  <2>6. meta.skip <= Len(lines)
    BY DEF StoreInv, SkipWithinFile
  <2>7. promised \cup {op.arg} \subseteq Shown(lines', meta.skip)
    <3>1. ASSUME NEW m \in promised PROVE m \in Shown(lines', meta.skip)
      <4>1. PICK i \in meta.skip + 1..Len(lines) : m = lines[i]
        BY <1>0, <2>5 DEF Shown
      <4>2. i \in meta.skip + 1..Len(lines') /\ lines'[i] = m
        BY <1>0, <2>3, <4>1
      <4> QED BY <4>2 DEF Shown
    <3>2. op.arg \in Shown(lines', meta.skip)
      <4>1. Len(lines) + 1 \in meta.skip + 1..Len(lines')
        BY <1>0, <2>3, <2>6
      <4> QED BY <2>3, <4>1 DEF Shown
    <3> QED BY <3>1, <3>2
  <2> QED
    BY <2>1, <2>2, <2>3, <2>4, <2>5, <2>7 DEF DurableInv
<1>8. CASE WriteMeta
  <2>1. /\ meta' = op.meta /\ pc = "meta" /\ lines' = lines /\ torn' = torn
        /\ op.old = meta.skip /\ ReadSkip = meta.skip
    BY <1>8 DEF WriteMeta, DurableInv, ReadSkip
  <2>2. CASE op.name \in Rewrites
    <3>1. pc' = "rewrite" /\ op' = op /\ promised' = promised
      BY <1>8, <2>2 DEF WriteMeta, Rewrites, ghost
    <3>2. ReadSkip' = ReadSkip /\ op.promise \subseteq Shown(op.lines, 0)
      BY <2>1, <2>2, <3>1 DEF ReadSkip, DurableInv
    <3> QED BY <1>0, <2>1, <3>1, <3>2 DEF DurableInv
  <2>3. CASE op.name \notin Rewrites
    <3>1. pc' = "idle" /\ promised' = op.promise
      BY <1>8, <2>3 DEF WriteMeta, Rewrites, Return
    <3>2. ReadSkip' = op.meta.skip
      BY <2>1, <3>1 DEF ReadSkip
    <3>3. op.promise \subseteq Shown(lines, op.meta.skip)
      BY <2>1, <2>3 DEF DurableInv
    <3> QED BY <1>0, <2>1, <3>1, <3>2, <3>3 DEF DurableInv
  <2> QED BY <2>2, <2>3
<1>9. CASE RewriteJSONL
  <2>1. /\ lines' = op.lines /\ torn' = FALSE /\ meta' = meta
        /\ pc' = "idle" /\ promised' = op.promise /\ meta.skip = 0
        /\ op.lines \in Seq(Msg) /\ op.promise \subseteq Shown(op.lines, 0)
    BY <1>0, <1>9
    DEF RewriteJSONL, Return, StoreInv, DurableInv, OperationType
  <2>2. ReadSkip' = 0
    BY <2>1 DEF ReadSkip
  <2> QED BY <2>1, <2>2 DEF DurableInv
<1>10. CASE Interrupt
  <2>1. pc' = "idle" /\ meta' = meta /\ promised' = promised
    BY <1>10 DEF Interrupt
  <2>2. ReadSkip' = meta.skip
    BY <2>1 DEF ReadSkip
  <2>3. CASE pc = "append"
    <3>1. PICK after \in {<<lines, torn>>, <<AppendLine(lines, torn, op.arg), FALSE>>} :
             lines' = after[1] /\ torn' = after[2]
      BY <1>10, <2>3 DEF Interrupt, InterruptedAppend
    <3>2. ReadSkip = meta.skip /\ op.arg \in Msg
      BY <2>3 DEF ReadSkip, StoreInv
    <3>3. CASE lines' = lines /\ torn' = torn
      BY <1>0, <2>1, <2>2, <3>2, <3>3 DEF DurableInv
    <3>4. CASE lines' = Append(lines, op.arg) /\ torn' = FALSE
      <4>1. /\ lines' \in Seq(Msg) /\ Len(lines') = Len(lines) + 1
            /\ \A i \in 1..Len(lines) : lines'[i] = lines[i]
        BY <1>0, <3>2, <3>4, AppendProperties
      <4>2. ASSUME NEW m \in promised PROVE m \in Shown(lines', meta.skip)
        <5>1. PICK i \in meta.skip + 1..Len(lines) : m = lines[i]
          BY <1>0, <3>2 DEF Shown
        <5>2. i \in meta.skip + 1..Len(lines') /\ lines'[i] = m
          BY <1>0, <4>1, <5>1
        <5> QED BY <5>2 DEF Shown
      <4> QED BY <2>1, <2>2, <3>4, <4>1, <4>2 DEF DurableInv
    <3>5. AppendLine(lines, torn, op.arg) = Append(lines, op.arg)
      BY <1>0 DEF AppendLine
    <3>6. \/ after = <<lines, torn>>
          \/ after = <<Append(lines, op.arg), FALSE>>
      BY <3>1, <3>5
    <3>7. CASE after = <<lines, torn>>
      BY <3>1, <3>3, <3>7
    <3>8. CASE after = <<Append(lines, op.arg), FALSE>>
      BY <3>1, <3>4, <3>8
    <3> QED BY <3>6, <3>7, <3>8
  <2>4. CASE pc # "append"
    <3>1. lines' = lines /\ torn' = torn
      BY <1>10, <2>4 DEF Interrupt
    <3>2. ReadSkip \in Nat /\ meta.skip <= ReadSkip
      BY <1>0 DEF ReadSkip, StoreInv
    <3>3. Shown(lines, ReadSkip) \subseteq Shown(lines, meta.skip)
      BY <1>0, <3>2 DEF Shown
    <3> QED BY <1>0, <2>1, <2>2, <3>1, <3>3 DEF DurableInv
  <2> QED BY <2>3, <2>4
<1>11. ASSUME NEW h \in Decodings(lines, meta.skip), NEW r \in Replacements(h)
       PROVE  r \in Seq(Msg)
  BY <1>0, DecodingsRange, ReplacementsType
<1> QED
  BY <1>1, <1>2, <1>3, <1>4, <1>5, <1>6, <1>7, <1>8, <1>9, <1>10, <1>11
  DEF Next

\* If an interrupted append leaves nothing or everything, a message whose
\* AddMessage returned nil stays visible until a call removes it, whatever
\* operation fails or dies between its writes (jsonl.go: the metadata is
\* written before the file is rewritten).
THEOREM DurabilityTheorem ==
  ASSUME TornWrites = FALSE
  PROVE  Spec => []PromisedVisible
<1>1. StoreAssumption /\ Init => StoreInv /\ DurableInv
  BY StoreInit, DurableInit
<1>2. StoreAssumption /\ StoreInv /\ DurableInv /\ [Next]_vars
         => StoreInv' /\ DurableInv'
  BY StoreStep, DurableStep
<1>3. StoreAssumption /\ StoreInv /\ DurableInv => PromisedVisible
  BY UndamagedVisible DEF PromisedVisible, DurableInv
<1> QED BY <1>1, <1>2, <1>3, StoreAssumption, PTL DEF Spec
-----------------------------------------------------------------------------
(* The store implements SessionLog.  On a file without damaged lines the    *)
(* history is what follows the offset, and what was truncated but not yet   *)
(* discarded is what comes before it.                                       *)

LEMMA LeastExists ==
  ASSUME NEW T, T # {}, T \subseteq Nat
  PROVE  \E m \in T : \A n \in T : m <= n
<1> DEFINE Below == {ss \in Nat \X Nat : ss[1] < ss[2]}
<1>1. Below = OpToRel(<, Nat)
  BY DEF OpToRel
<1>2. IsWellFoundedOn(Below, Nat)
  BY <1>1, NatLessThanWellFounded
<1>3. PICK m \in T : \A n \in T : ~(<<n, m>> \in Below)
  <2> HIDE DEF Below
  <2> QED BY <1>2, WFMin
<1>4. ASSUME NEW n \in T, n < m PROVE FALSE
  <2>1. n \in Nat /\ m \in Nat
    OBVIOUS
  <2> QED BY <1>3, <1>4, <2>1
<1> QED BY <1>3, <1>4

\* There is one way to number c positions in order.
LEMMA InOrderIsShift ==
  ASSUME NEW c \in Nat, NEW skip \in Nat, NEW f \in [1..c -> skip + 1..skip + c],
         \A a, b \in 1..c : a < b => f[a] < f[b]
  PROVE  \A j \in 1..c : f[j] = skip + j
<1>1. \A j \in 1..c : f[j] \in Int
  OBVIOUS
<1>2. \A j \in 1..c : f[j] >= skip + j
  <2> DEFINE T == {j \in 1..c : f[j] < skip + j}
  <2> SUFFICES ASSUME T # {} PROVE FALSE
    BY <1>1
  <2>1. PICK j \in T : \A k \in T : j <= k
    <3>1. T \subseteq Nat
      OBVIOUS
    <3> HIDE DEF T
    <3> QED BY <3>1, LeastExists
  <2>2. j # 1
    OBVIOUS
  <2>3. j - 1 \in 1..c /\ j - 1 \notin T
    BY <2>1, <2>2
  <2>4. f[j - 1] < f[j] /\ f[j - 1] \in Int /\ f[j] \in Int
    BY <2>3
  <2> QED BY <2>3, <2>4
<1>3. \A j \in 1..c : f[j] <= skip + j
  <2> DEFINE T == {k \in 0..c - 1 : f[c - k] > skip + c - k}
  <2>1. ASSUME NEW j \in 1..c, f[j] > skip + j PROVE c - j \in T
    <3>1. c - j \in 0..c - 1 /\ c - (c - j) = j
      OBVIOUS
    <3> QED BY <2>1, <3>1
  <2> SUFFICES ASSUME T # {} PROVE FALSE
    <3>1. T = {} => \A j \in 1..c : ~(f[j] > skip + j)
      <4> HIDE DEF T
      <4> QED BY <2>1
    <3> HIDE DEF T
    <3> QED BY <1>1, <3>1
  <2>2. PICK k \in T : \A l \in T : k <= l
    <3>1. T \subseteq Nat
      OBVIOUS
    <3> HIDE DEF T
    <3> QED BY <3>1, LeastExists
  <2>3. c - k \in 1..c /\ f[c - k] > skip + c - k
    OBVIOUS
  <2>4. k # 0
    BY <2>3
  <2>5. k - 1 \in 0..c - 1 /\ k - 1 \notin T
    <3>1. k \in 0..c - 1 /\ k - 1 \in Int /\ ~(k <= k - 1)
      OBVIOUS
    <3>2. k - 1 \notin T
      <4> HIDE DEF T
      <4> QED BY <2>2, <3>1
    <3>3. k - 1 \in 0..c - 1
      BY <2>4, <3>1
    <3> QED BY <3>2, <3>3
  <2>6. c - (k - 1) \in 1..c /\ f[c - (k - 1)] <= skip + c - (k - 1)
    BY <2>5, <1>1
  <2>7. f[c - k] < f[c - (k - 1)] /\ f[c - k] \in Int /\ f[c - (k - 1)] \in Int
    BY <2>3, <2>6
  <2> QED BY <2>3, <2>6, <2>7
<1> QED BY <1>1, <1>2, <1>3

\* What readMessages decodes from an undamaged file is the rest of it.
LEMMA OneDecoding ==
  ASSUME StoreAssumption, NEW ls \in Seq(Msg), NEW skip \in 0..Len(ls)
  PROVE  Decodings(ls, skip) = {SubSeq(ls, skip + 1, Len(ls))}
<1> DEFINE n == Len(ls)
           c == n - skip
           F == {g \in [1..c -> skip + 1..n] : \A a, b \in DOMAIN g : a < b => g[a] < g[b]}
           shift == [j \in 1..c |-> skip + j]
<1>1. n \in Nat /\ skip \in Nat /\ c \in Nat /\ skip + c = n
  BY LenProperties
<1>2. Intact(ls, skip) = skip + 1..n /\ Cardinality(skip + 1..n) = c
  <2>1. Intact(ls, skip) = skip + 1..n
    BY <1>1, UndamagedIntact
  <2>2. Cardinality(skip + 1..n) = IF skip + 1 > n THEN 0 ELSE n - (skip + 1) + 1
    <3>1. skip + 1 \in Int /\ n \in Int
      BY <1>1
    <3> HIDE DEF n
    <3> QED BY <3>1, FS_Interval
  <2> QED BY <1>1, <2>1, <2>2
<1>3. Decodings(ls, skip) = {[j \in DOMAIN f |-> ls[f[j]]] : f \in F}
  BY <1>2 DEF Decodings
<1>4. F = {shift}
  <2>1. shift \in F
    BY <1>1
  <2>2. ASSUME NEW g \in F PROVE g = shift
    <3>1. g \in [1..c -> skip + 1..skip + c] /\ \A a, b \in 1..c : a < b => g[a] < g[b]
      BY <1>1
    <3>2. \A j \in 1..c : g[j] = skip + j
      <4> HIDE DEF c
      <4> QED BY <1>1, <3>1, InOrderIsShift
    <3> QED BY <3>1, <3>2
  <2> QED BY <2>1, <2>2
<1>5. [j \in DOMAIN shift |-> ls[shift[j]]] = SubSeq(ls, skip + 1, n)
  <2>1. \A i \in skip + 1..n : ls[i] \in Msg
    BY <1>1
  <2>2. /\ SubSeq(ls, skip + 1, n) \in Seq(Msg) /\ Len(SubSeq(ls, skip + 1, n)) = c
        /\ \A i \in 1..c : SubSeq(ls, skip + 1, n)[i] = ls[skip + i]
    <3> DEFINE m == skip + 1
               s == SubSeq(ls, m, n)
    <3>1. m \in Int /\ n \in Int /\ \A i \in m..n : ls[i] \in Msg
      BY <1>1, <2>1
    <3>2. s \in Seq(Msg) /\ Len(s) = (IF m <= n THEN n - m + 1 ELSE 0) /\ \A i \in 1..n - m + 1 : s[i] = ls[m + i - 1]
      <4> HIDE DEF m, n
      <4> QED BY <3>1, SubSeqProperties
    <3>3. n - m + 1 = c /\ (IF m <= n THEN n - m + 1 ELSE 0) = c /\ \A i \in 1..c : m + i - 1 = skip + i
      <4>1. ASSUME NEW a \in Nat, NEW b \in Nat, NEW d \in Nat, a + d = b
            PROVE  /\ b - (a + 1) + 1 = d /\ (IF a + 1 <= b THEN b - (a + 1) + 1 ELSE 0) = d
                   /\ \A i \in 1..d : (a + 1) + i - 1 = a + i
        BY <4>1
      <4> HIDE DEF n, c
      <4> QED BY <1>1, <4>1
    <3> HIDE DEF s, m, c
    <3> QED BY <3>2, <3>3 DEF s, m
  <2>3. SubSeq(ls, skip + 1, n) = [j \in 1..c |-> ls[skip + j]]
    <3> DEFINE s == SubSeq(ls, skip + 1, n)
    <3> HIDE DEF s, c
    <3>1. s \in Seq(Msg) /\ Len(s) = c /\ \A i \in 1..c : s[i] = ls[skip + i]
      BY <2>2 DEF s
    <3> QED BY <3>1 DEF s
  <2> QED BY <2>3
<1> HIDE DEF F, shift
<1> QED BY <1>3, <1>4, <1>5

Past(ls, skip) == SubSeq(ls, 1, skip)
Rest(ls, skip) == SubSeq(ls, skip + 1, Len(ls))

\* Which method is under way at which of its writes, and what it is about to install: only
\* SetSummary writes another summary, only TruncateHistory moves the offset forward, and a Compact
\* rewrites the file by the history that it began with.
MethodInv ==
    /\ op.name = "none" <=> pc = "idle"
    /\ pc = "append" => op.name = "AddMessage"
    /\ op.name = "AddMessage" => pc \in {"append", "meta"} /\ op.meta.skip = meta.skip
    /\ op.name = "SetSummary" => pc = "meta" /\ op.meta.skip = meta.skip
    /\ op.name = "TruncateHistory" => pc = "meta" /\ op.meta = TruncatedMeta(op.arg)
    /\ op.name \in Rewrites => pc \in {"meta", "rewrite"} /\ op.old <= Len(lines)
    /\ pc = "idle" \/ op.name = "SetSummary" \/ op.meta.summary = meta.summary
    /\ op.name = "Compact" => op.lines = Rest(lines, op.old)

LEMMA MethodInit == Init => MethodInv
  BY DEF Init, MethodInv, NoOperation, Rewrites

LEMMA MethodStep ==
  ASSUME TornWrites = FALSE
  PROVE  StoreAssumption /\ StoreInv /\ DurableInv /\ MethodInv /\ [Next]_vars => MethodInv'
<1> SUFFICES ASSUME StoreAssumption, StoreInv, DurableInv, MethodInv, [Next]_vars
             PROVE  MethodInv'
  OBVIOUS
<1>0. /\ lines \in Seq(Msg) /\ meta.skip \in Nat /\ meta.skip <= Len(lines) /\ op.name \in Method
  BY DEF DurableInv, StoreInv, TypeOK, Meta, OperationType, SkipWithinFile
<1>1. CASE BeginAdd
  BY <1>1 DEF BeginAdd, Begin, Operation, NewMeta, disk, MethodInv, Rewrites
<1>2. ASSUME NEW s \in Summary, BeginSetSummary(s) PROVE MethodInv'
  BY <1>2 DEF BeginSetSummary, Begin, Operation, NewMeta, disk, MethodInv, Rewrites
<1>3. ASSUME NEW keep \in KeepLast, BeginTruncate(keep) PROVE MethodInv'
  BY <1>3 DEF BeginTruncate, Begin, Operation, NewMeta, TruncatedMeta, disk, MethodInv, Rewrites
<1>4. ASSUME NEW h, BeginSetHistory(h) PROVE MethodInv'
  BY <1>0, <1>4 DEF BeginSetHistory, Begin, Operation, NewMeta, disk, MethodInv, Rewrites
<1>5. CASE BeginCompact
  <2>1. PICK active \in Decodings(lines, meta.skip) :
          Begin("meta", Operation("Compact", 0, NewMeta(meta.summary, 0, Len(active)), active, promised))
    BY <1>5 DEF BeginCompact
  <2>2. active = Rest(lines, meta.skip)
    <3>1. meta.skip \in 0..Len(lines)
      BY <1>0
    <3> QED BY <1>0, <2>1, <3>1, OneDecoding DEF Rest
  <2> QED BY <1>0, <2>1, <2>2 DEF Begin, Operation, NewMeta, disk, MethodInv, Rewrites
<1>6. CASE CompactNothing \/ UNCHANGED vars
  BY <1>6 DEF CompactNothing, vars, MethodInv, TruncatedMeta, NewMeta, Rest
<1>7. CASE AppendToFile
  BY <1>7 DEF AppendToFile, MethodInv, Rewrites
<1>8. CASE WriteMeta
  <2>1. CASE op.name \in Rewrites
    BY <1>8, <2>1 DEF WriteMeta, MethodInv, Rewrites
  <2>2. CASE op.name \notin Rewrites
    BY <1>8, <2>2 DEF WriteMeta, Return, NoOperation, MethodInv, Rewrites
  <2> QED BY <2>1, <2>2
<1>9. CASE RewriteJSONL \/ Interrupt
  BY <1>9 DEF RewriteJSONL, Interrupt, Return, NoOperation, MethodInv, Rewrites
<1> QED BY <1>1, <1>2, <1>3, <1>4, <1>5, <1>6, <1>7, <1>8, <1>9 DEF Next

\* The two parts of a file, message by message.
LEMMA PartsOfFile ==
  ASSUME NEW ls \in Seq(Msg), NEW skip \in 0..Len(ls)
  PROVE  /\ Past(ls, skip) \in Seq(Msg) /\ Len(Past(ls, skip)) = skip
         /\ \A i \in 1..skip : Past(ls, skip)[i] = ls[i]
         /\ Rest(ls, skip) \in Seq(Msg) /\ Len(Rest(ls, skip)) = Len(ls) - skip
         /\ \A i \in 1..Len(ls) - skip : Rest(ls, skip)[i] = ls[skip + i]
<1> DEFINE n == Len(ls)
<1>1. n \in Nat /\ skip \in Nat /\ skip <= n /\ \A i \in 1..n : ls[i] \in Msg
  BY LenProperties
<1> HIDE DEF n
<1>2. Past(ls, skip) \in Seq(Msg) /\ Len(Past(ls, skip)) = skip /\ \A i \in 1..skip : Past(ls, skip)[i] = ls[i]
  <2> DEFINE one == 1
             s == SubSeq(ls, one, skip)
  <2>1. one \in Int /\ skip \in Int /\ \A i \in one..skip : ls[i] \in Msg
    BY <1>1
  <2>2. s \in Seq(Msg) /\ Len(s) = (IF one <= skip THEN skip - one + 1 ELSE 0)
        /\ \A i \in 1..skip - one + 1 : s[i] = ls[one + i - 1]
    <3> HIDE DEF one
    <3> QED BY <2>1, SubSeqProperties
  <2> HIDE DEF s
  <2>3. s \in Seq(Msg) /\ Len(s) = skip /\ \A i \in 1..skip : s[i] = ls[i]
    BY <1>1, <2>2
  <2> QED BY <2>3 DEF s, Past
<1>3. Rest(ls, skip) \in Seq(Msg) /\ Len(Rest(ls, skip)) = n - skip /\ \A i \in 1..n - skip : Rest(ls, skip)[i] = ls[skip + i]
  <2> DEFINE m == skip + 1
             s == SubSeq(ls, m, n)
  <2>1. m \in Int /\ n \in Int /\ \A i \in m..n : ls[i] \in Msg
    BY <1>1
  <2>2. s \in Seq(Msg) /\ Len(s) = (IF m <= n THEN n - m + 1 ELSE 0)
        /\ \A i \in 1..n - m + 1 : s[i] = ls[m + i - 1]
    <3> HIDE DEF m
    <3> QED BY <2>1, SubSeqProperties
  <2> HIDE DEF s
  <2>3. s \in Seq(Msg) /\ Len(s) = n - skip /\ \A i \in 1..n - skip : s[i] = ls[skip + i]
    BY <1>1, <2>2
  <2> QED BY <2>3 DEF s, Rest, n
<1> QED BY <1>2, <1>3 DEF n

\* An append adds to the rest and leaves the past.
LEMMA PartsAfterAppend ==
  ASSUME NEW ls \in Seq(Msg), NEW skip \in 0..Len(ls), NEW m \in Msg
  PROVE  /\ Rest(Append(ls, m), skip) = Append(Rest(ls, skip), m)
         /\ Past(Append(ls, m), skip) = Past(ls, skip)
<1> DEFINE n == Len(ls)
           new == Append(ls, m)
<1>1. n \in Nat /\ skip \in Nat /\ skip <= n
  BY LenProperties
<1>2. new \in Seq(Msg) /\ Len(new) = n + 1 /\ (\A i \in 1..n : new[i] = ls[i]) /\ new[n + 1] = m
  BY AppendProperties
<1> DEFINE r == Rest(ls, skip)
           p == Past(ls, skip)
           nr == Rest(new, skip)
           np == Past(new, skip)
           ar == Append(r, m)
<1>3. /\ p \in Seq(Msg) /\ Len(p) = skip /\ \A i \in 1..skip : p[i] = ls[i]
      /\ r \in Seq(Msg) /\ Len(r) = n - skip /\ \A i \in 1..n - skip : r[i] = ls[skip + i]
  BY PartsOfFile
<1> HIDE DEF n, new, np, nr
<1>4. /\ np \in Seq(Msg) /\ Len(np) = skip /\ \A i \in 1..skip : np[i] = new[i]
      /\ nr \in Seq(Msg) /\ Len(nr) = n + 1 - skip /\ \A i \in 1..n + 1 - skip : nr[i] = new[skip + i]
  <2>1. skip \in 0..Len(new)
    BY <1>1, <1>2
  <2>2. /\ np \in Seq(Msg) /\ Len(np) = skip /\ \A i \in 1..skip : np[i] = new[i]
        /\ nr \in Seq(Msg) /\ Len(nr) = Len(new) - skip /\ \A i \in 1..Len(new) - skip : nr[i] = new[skip + i]
    BY <1>2, <2>1, PartsOfFile DEF np, nr
  <2>3. Len(new) = n + 1
    BY <1>2
  <2>4. \A i \in 1..skip : np[i] = new[i]
    BY <2>2
  <2>5. nr \in Seq(Msg) /\ Len(nr) = n + 1 - skip
    BY <1>1, <2>2, <2>3
  <2>6. \A i \in 1..n + 1 - skip : nr[i] = new[skip + i]
    <3> SUFFICES ASSUME NEW i \in 1..n + 1 - skip PROVE nr[i] = new[skip + i]
      OBVIOUS
    <3> QED BY <1>1, <2>2, <2>3
  <2> QED BY <2>2, <2>4, <2>5, <2>6
<1> HIDE DEF r
<1>5. ar \in Seq(Msg) /\ Len(ar) = n - skip + 1 /\ (\A i \in 1..n - skip : ar[i] = r[i]) /\ ar[n - skip + 1] = m
  <2>1. r \in Seq(Msg) /\ m \in Msg
    BY <1>3
  <2>2. /\ ar \in Seq(Msg) /\ Len(ar) = Len(r) + 1 /\ ar[Len(r) + 1] = m
        /\ \A i \in 1..Len(r) : ar[i] = r[i]
    BY <2>1, AppendProperties
  <2> HIDE DEF ar
  <2>3. n - skip \in Nat /\ Len(r) = n - skip
    BY <1>1, <1>3
  <2> QED BY <2>2, <2>3
<1> HIDE DEF p, ar
<1>6. \A i \in 1..skip : np[i] = p[i]
  <2>1. \A i \in 1..skip : i \in 1..n
    BY <1>1
  <2> QED BY <1>2, <1>3, <1>4, <2>1
<1>7. \A i \in 1..n + 1 - skip : nr[i] = ar[i]
  <2> SUFFICES ASSUME NEW i \in 1..n + 1 - skip PROVE nr[i] = ar[i]
    OBVIOUS
  <2>1. CASE i = n - skip + 1
    <3>1. skip + i = n + 1
      BY <1>1, <2>1
    <3> QED BY <1>2, <1>4, <1>5, <2>1, <3>1
  <2>2. CASE i # n - skip + 1
    <3>1. i \in 1..n - skip /\ skip + i \in 1..n
      BY <1>1, <2>2
    <3> QED BY <1>2, <1>3, <1>4, <1>5, <3>1
  <2> QED BY <2>1, <2>2
<1>8. np = p
  BY <1>3, <1>4, <1>6, SeqEqual
<1>9. nr = ar
  <2>1. Len(nr) = Len(ar) /\ Len(nr) = n + 1 - skip
    BY <1>1, <1>4, <1>5
  <2> QED BY <1>4, <1>5, <1>7, <2>1, SeqEqual
<1> QED BY <1>8, <1>9 DEF new, p, r, np, nr, ar

\* Moving the offset forward takes messages from the rest to the past.
LEMMA PartsAfterCut ==
  ASSUME NEW ls \in Seq(Msg), NEW skip \in 0..Len(ls), NEW cut \in 0..Len(ls) - skip
  PROVE  /\ Rest(ls, skip + cut) = SubSeq(Rest(ls, skip), cut + 1, Len(Rest(ls, skip)))
         /\ Past(ls, skip + cut) = Past(ls, skip) \o SubSeq(Rest(ls, skip), 1, cut)
<1> DEFINE n == Len(ls)
           r == Rest(ls, skip)
           p == Past(ls, skip)
           q == Past(r, cut)
           t == Rest(r, cut)
           k == skip + cut
           np == Past(ls, k)
           nr == Rest(ls, k)
           j == p \o q
<1>1. n \in Nat /\ skip \in Nat /\ cut \in Nat /\ skip + cut <= n /\ k \in 0..n /\ k = skip + cut
  BY LenProperties
<1>2. /\ p \in Seq(Msg) /\ Len(p) = skip /\ \A i \in 1..skip : p[i] = ls[i]
      /\ r \in Seq(Msg) /\ Len(r) = n - skip /\ \A i \in 1..n - skip : r[i] = ls[skip + i]
  BY PartsOfFile
<1> HIDE DEF k
<1>3. /\ np \in Seq(Msg) /\ Len(np) = k /\ \A i \in 1..k : np[i] = ls[i]
      /\ nr \in Seq(Msg) /\ Len(nr) = n - k /\ \A i \in 1..n - k : nr[i] = ls[k + i]
  BY <1>1, PartsOfFile
<1> HIDE DEF n, r
<1>4. /\ q \in Seq(Msg) /\ Len(q) = cut /\ \A i \in 1..cut : q[i] = r[i]
      /\ t \in Seq(Msg) /\ Len(t) = n - skip - cut /\ \A i \in 1..n - skip - cut : t[i] = r[cut + i]
  <2>1. cut \in 0..Len(r) /\ Len(r) = n - skip
    BY <1>1, <1>2
  <2>2. r \in Seq(Msg)
    BY <1>2
  <2>3. /\ q \in Seq(Msg) /\ Len(q) = cut /\ \A i \in 1..cut : q[i] = r[i]
        /\ t \in Seq(Msg) /\ Len(t) = Len(r) - cut /\ \A i \in 1..Len(r) - cut : t[i] = r[cut + i]
    BY ONLY <2>1, <2>2, PartsOfFile DEF q, t
  <2> HIDE DEF q, t
  <2> QED BY <2>1, <2>3
<1> HIDE DEF p, q, t, np, nr
<1>5. /\ j \in Seq(Msg) /\ Len(j) = skip + cut
      /\ \A i \in 1..skip + cut : j[i] = IF i <= skip THEN p[i] ELSE q[i - skip]
  <2>1. p \in Seq(Msg) /\ q \in Seq(Msg) /\ Len(p) = skip /\ Len(q) = cut
    BY <1>2, <1>4
  <2>2. /\ j \in Seq(Msg) /\ Len(j) = Len(p) + Len(q)
        /\ \A i \in 1..Len(p) + Len(q) : j[i] = IF i <= Len(p) THEN p[i] ELSE q[i - Len(p)]
    BY ONLY <2>1, ConcatProperties DEF j
  <2> HIDE DEF j
  <2> QED BY ONLY <2>1, <2>2
<1> HIDE DEF j
<1>6. nr = t
  <2>1. Len(nr) = Len(t) /\ Len(nr) = n - k /\ n - k = n - skip - cut
    BY <1>1, <1>3, <1>4
  <2>2. ASSUME NEW i \in 1..n - k PROVE nr[i] = t[i]
    <3>1. i \in 1..n - skip - cut /\ cut + i \in 1..n - skip /\ k + i = skip + (cut + i)
      BY <1>1
    <3>2. nr[i] = ls[k + i]
      BY <1>3
    <3>3. t[i] = r[cut + i]
      BY <1>4, <3>1
    <3>4. r[cut + i] = ls[skip + (cut + i)]
      BY <1>2, <3>1
    <3> QED BY <3>1, <3>2, <3>3, <3>4
  <2> QED BY <1>3, <1>4, <2>1, <2>2, SeqEqual
<1>7. np = j
  <2>1. ASSUME NEW i \in 1..k PROVE np[i] = j[i]
    <3>1. CASE i <= skip
      <4>1. i \in 1..skip /\ i \in 1..skip + cut
        BY <1>1, <3>1
      <4> QED BY <1>2, <1>3, <1>5, <3>1, <4>1
    <3>2. CASE ~(i <= skip)
      <4>1. i - skip \in 1..cut /\ i - skip \in 1..n - skip /\ skip + (i - skip) = i /\ i \in 1..skip + cut
        BY <1>1, <3>2
      <4>2. np[i] = ls[i]
        BY <1>3
      <4>3. j[i] = q[i - skip]
        BY <1>5, <3>2, <4>1
      <4>4. q[i - skip] = r[i - skip]
        BY <1>4, <4>1
      <4>5. r[i - skip] = ls[i]
        BY <1>2, <4>1
      <4> QED BY <4>2, <4>3, <4>4, <4>5
    <3> QED BY <3>1, <3>2
  <2> QED BY <1>1, <1>3, <1>5, <2>1, SeqEqual
<1> QED BY <1>6, <1>7 DEF k, nr, np, j, t, q, p, r, Past, Rest

\* With nothing truncated the rest is all, and with everything truncated the past is.
LEMMA PartsOfWhole ==
  ASSUME NEW ls \in Seq(Msg)
  PROVE  /\ Rest(ls, 0) = ls /\ Past(ls, 0) = <<>>
         /\ Rest(ls, Len(ls)) = <<>> /\ Past(ls, Len(ls)) = ls
         /\ \A skip \in 0..Len(ls) : Past(ls, skip) \o Rest(ls, skip) = ls
<1>1. Len(ls) \in Nat /\ SubSeq(ls, 1, Len(ls)) = ls
  BY LenProperties, SubSeqFull
<1>2. Rest(ls, 0) = ls /\ Past(ls, Len(ls)) = ls
  BY <1>1 DEF Rest, Past
<1>3. Past(ls, 0) = <<>> /\ Rest(ls, Len(ls)) = <<>>
  BY <1>1, SubSeqEmpty DEF Rest, Past
<1>4. ASSUME NEW skip \in 0..Len(ls) PROVE Past(ls, skip) \o Rest(ls, skip) = ls
  <2> DEFINE r == Rest(ls, skip)
             cut == Len(ls) - skip
  <2>1. r \in Seq(Msg) /\ Len(r) = cut
    BY PartsOfFile
  <2>4. cut \in 0..cut /\ skip + cut = Len(ls)
    BY <1>1
  <2>2. SubSeq(r, 1, cut) = r
    <3> HIDE DEF r
    <3> QED BY <2>1, SubSeqFull
  <2>3. Past(ls, skip + cut) = Past(ls, skip) \o SubSeq(r, 1, cut)
    BY <2>4, PartsAfterCut
  <2> QED BY <1>2, <2>4, <2>2, <2>3
<1> QED BY <1>2, <1>3, <1>4

\* What the refinement shows of an undamaged file.
LEMMA PartsAreDecoded ==
  ASSUME StoreAssumption, NEW ls \in Seq(Msg), NEW skip \in 0..Len(ls)
  PROVE  /\ (CHOOSE h \in Decodings(ls, skip) : TRUE) = Rest(ls, skip)
         /\ (CHOOSE h \in Decodings(SubSeq(ls, 1, skip), 0) : TRUE) = Past(ls, skip)
<1>1. Decodings(ls, skip) = {Rest(ls, skip)}
  BY OneDecoding DEF Rest
<1>2. Past(ls, skip) \in Seq(Msg) /\ Len(Past(ls, skip)) \in Nat
  BY PartsOfFile, LenProperties
<1>3. Decodings(Past(ls, skip), 0) = {Rest(Past(ls, skip), 0)}
  BY <1>2, OneDecoding DEF Rest
<1>4. Rest(Past(ls, skip), 0) = Past(ls, skip)
  BY <1>2, PartsOfWhole
<1> QED BY <1>1, <1>3, <1>4 DEF Past

\* The offset that readers use lies within the file, at each write of an operation.
LEMMA ReadWithin ==
  ASSUME StoreInv, MethodInv, lines \in Seq(Msg)
  PROVE  ReadSkip \in 0..Len(lines)
<1>1. op.name \in Method /\ op.old \in Nat /\ meta.skip \in Nat /\ Len(lines) \in Nat
  BY LenProperties DEF StoreInv, TypeOK, OperationType, Meta
<1>2. pc = "rewrite" => op.name \in Rewrites
  BY <1>1 DEF MethodInv, Method, Rewrites
<1>3. meta.skip <= Len(lines) /\ (op.name \in Rewrites => op.old <= Len(lines))
  BY DEF StoreInv, SkipWithinFile, MethodInv
<1> QED BY <1>1, <1>2, <1>3 DEF ReadSkip

\* What the abstract variables are.
LEMMA RefinedState ==
  ASSUME StoreAssumption, StoreInv, DurableInv, MethodInv
  PROVE  GetHistory = Rest(lines, ReadSkip) /\ Forgotten = Past(lines, ReadSkip)
<1>1. lines \in Seq(Msg) /\ ReadSkip \in 0..Len(lines)
  BY ReadWithin DEF DurableInv
<1> QED BY <1>1, PartsAreDecoded DEF GetHistory, Forgotten

LEMMA RefinedInit == StoreAssumption /\ Init => Log!Init
<1> SUFFICES ASSUME StoreAssumption, Init PROVE Log!Init
  OBVIOUS
<1>1. StoreInv /\ DurableInv /\ MethodInv
  BY StoreInit, DurableInit, MethodInit
<1>2. lines = <<>> /\ Len(lines) = 0 /\ lines \in Seq(Msg) /\ ReadSkip = 0
  BY DEF Init, ReadSkip, NewMeta
<1>3. GetHistory = <<>> /\ Forgotten = <<>>
  BY <1>1, <1>2, RefinedState, PartsOfWhole
<1> QED BY <1>3 DEF Log!Init, Init, NewMeta, NoOperation

LEMMA RefinedStep ==
  ASSUME TornWrites = FALSE
  PROVE  /\ StoreAssumption
         /\ StoreInv /\ DurableInv /\ MethodInv
         /\ StoreInv' /\ DurableInv' /\ MethodInv'
         /\ [Next]_vars
         => [Log!Next]_Log!vars
<1> SUFFICES ASSUME StoreAssumption, StoreInv, DurableInv, MethodInv, StoreInv', DurableInv', MethodInv',
                    [Next]_vars
             PROVE  [Log!Next]_Log!vars
  OBVIOUS
<1> DEFINE skip == ReadSkip
<1>1. /\ lines \in Seq(Msg) /\ skip \in 0..Len(lines)
      /\ GetHistory = Rest(lines, skip) /\ Forgotten = Past(lines, skip)
  BY ReadWithin, RefinedState DEF DurableInv
<1>2. /\ lines' \in Seq(Msg) /\ skip' \in 0..Len(lines')
      /\ GetHistory' = Rest(lines', skip') /\ Forgotten' = Past(lines', skip')
  <2>1. lines' \in Seq(Msg)
    BY DEF DurableInv
  <2>2. ReadSkip' \in 0..Len(lines')
    <3>1. op'.name \in Method /\ op'.old \in Nat /\ meta'.skip \in Nat /\ Len(lines') \in Nat
      BY <2>1, LenProperties DEF StoreInv, TypeOK, OperationType, Meta
    <3>2. pc' = "rewrite" => op'.name \in Rewrites
      BY <3>1 DEF MethodInv, Method, Rewrites
    <3>3. meta'.skip <= Len(lines') /\ (op'.name \in Rewrites => op'.old <= Len(lines'))
      BY DEF StoreInv, SkipWithinFile, MethodInv
    <3> QED BY <3>1, <3>2, <3>3 DEF ReadSkip
  <2> QED BY <2>1, <2>2, PartsAreDecoded DEF GetHistory, Forgotten
<1>3. /\ op.name \in Method /\ op.arg \in Int /\ op.old \in Nat /\ torn = FALSE /\ torn' = FALSE
      /\ meta.skip \in Nat /\ meta.skip <= Len(lines) /\ Len(lines) \in Nat
  BY <1>1, LenProperties DEF StoreInv, DurableInv, TypeOK, OperationType, Meta, SkipWithinFile
<1>4. pc # "rewrite" => skip = meta.skip
  BY DEF ReadSkip
<1> HIDE DEF skip
\* An operation that takes the lock is a call that starts.
<1>5. ASSUME NEW first \in {"append", "meta"}, NEW o, Begin(first, o),
             o.name \in Method \ {"none"}, o.name = "AddMessage" => first = "append"
      PROVE  Log!Start
  <2>1. /\ pc = "idle" /\ pc' = first /\ op' = o /\ UNCHANGED <<lines, meta, returned>>
    BY <1>5 DEF Begin, disk
  <2>2. skip' = skip /\ op.name = "none"
    BY <2>1 DEF ReadSkip, skip, MethodInv
  <2>3. GetHistory' = GetHistory /\ Forgotten' = Forgotten
    BY <1>1, <1>2, <2>1, <2>2
  <2> QED BY <1>5, <2>1, <2>2, <2>3 DEF Log!Start
<1>6. CASE BeginAdd
  BY <1>5, <1>6 DEF BeginAdd, Operation, Method, Log!Next
<1>7. ASSUME NEW s \in Summary, BeginSetSummary(s) PROVE Log!Start
  BY <1>5, <1>7 DEF BeginSetSummary, Operation, Method
<1>8. ASSUME NEW keep \in KeepLast, BeginTruncate(keep) PROVE Log!Start
  BY <1>5, <1>8 DEF BeginTruncate, Operation, Method
<1>9. ASSUME NEW h, BeginSetHistory(h) PROVE Log!Start
  BY <1>5, <1>9 DEF BeginSetHistory, Operation, Method
<1>10. CASE BeginCompact
  BY <1>5, <1>10 DEF BeginCompact, Operation, Method, Log!Next
<1>11. CASE CompactNothing
  <2>1. /\ pc = "idle" /\ meta.skip = 0 /\ returned' = "Compact" /\ UNCHANGED <<lines, meta, pc, op>>
    BY <1>11 DEF CompactNothing
  <2>2. skip = 0 /\ skip' = 0 /\ op.name = "none"
    BY <1>4, <2>1 DEF ReadSkip, skip, MethodInv
  <2>3. GetHistory' = GetHistory /\ Forgotten' = Forgotten /\ Forgotten = <<>>
    BY <1>1, <1>2, <2>1, <2>2, PartsOfWhole
  <2> QED BY <2>1, <2>2, <2>3 DEF Log!Next, Log!CompactNothing
\* The append is where a message gets into the history.
<1>12. CASE lines' = Append(lines, op.arg) /\ pc = "append" /\ meta' = meta /\ pc' # "rewrite"
  <2>1. op.name = "AddMessage" /\ op.arg \in Msg /\ skip = meta.skip /\ skip' = skip
    BY <1>4, <1>12 DEF MethodInv, StoreInv, ReadSkip, skip
  <2>2. GetHistory' = Append(GetHistory, op.arg) /\ Forgotten' = Forgotten
    BY <1>1, <1>2, <1>12, <2>1, PartsAfterAppend
  <2>3. Log!Effect
    BY <1>12, <2>1, <2>2 DEF Log!Effect, Log!AddMessage
  <2>4. CASE AppendToFile
    <3>1. UNCHANGED <<op, returned>> /\ pc' = "meta"
      BY <2>4 DEF AppendToFile, ghost
    <3> QED BY <1>12, <2>1, <2>3, <3>1 DEF Log!Next, Log!TakeEffect
  <2>5. CASE Interrupt
    <3>1. op'.name = "none" /\ returned' = "none"
      BY <2>5 DEF Interrupt, NoOperation
    <3> QED BY <1>12, <2>1, <2>3, <3>1 DEF Log!Next, Log!Fail
  <2> QED BY <1>12, <2>4, <2>5 DEF Next, Begin, BeginAdd, BeginSetSummary, BeginTruncate, BeginSetHistory,
                                   BeginCompact, CompactNothing, WriteMeta, RewriteJSONL, vars
<1>13. CASE AppendToFile
  BY <1>3, <1>12, <1>13 DEF AppendToFile, AppendLine
\* The metadata is where a summary and a truncation take effect; an append has taken effect by then,
\* and what rewrites the file goes on without notice.
<1>14. CASE WriteMeta
  <2>1. pc = "meta" /\ meta' = op.meta /\ lines' = lines /\ skip = meta.skip
    BY <1>4, <1>14 DEF WriteMeta
  <2>2. CASE op.name \in Rewrites
    <3>1. pc' = "rewrite" /\ UNCHANGED <<op, returned>>
      BY <1>14, <2>2 DEF WriteMeta, Rewrites, ghost
    <3>2. op.old = meta.skip /\ op.meta.summary = meta.summary
      BY <2>1, <2>2 DEF DurableInv, MethodInv, Rewrites
    <3>3. skip' = skip
      BY <2>1, <3>1, <3>2 DEF ReadSkip, skip
    <3>4. GetHistory' = GetHistory /\ Forgotten' = Forgotten
      BY <1>1, <1>2, <2>1, <3>3
    <3> QED BY <2>1, <2>2, <3>1, <3>2, <3>4 DEF Log!vars, Rewrites
  <2>3. CASE op.name \notin Rewrites
    <3>1. pc' = "idle" /\ op'.name = "none" /\ returned' = op.name /\ op.name # "none"
      BY <1>14, <2>1, <2>3 DEF WriteMeta, Return, NoOperation, Rewrites, MethodInv
    <3>2. skip' = op.meta.skip
      BY <2>1, <3>1 DEF ReadSkip, skip
    <3>3. CASE op.name = "AddMessage"
      <4>1. skip' = skip /\ op.meta.summary = meta.summary
        BY <2>1, <3>2, <3>3 DEF MethodInv
      <4>2. GetHistory' = GetHistory /\ Forgotten' = Forgotten
        BY <1>1, <1>2, <2>1, <4>1
      <4> QED BY <2>1, <3>1, <3>3, <4>1, <4>2 DEF Log!Next, Log!Return
    <3>4. CASE op.name = "SetSummary"
      <4>1. skip' = skip
        BY <2>1, <3>2, <3>4 DEF MethodInv
      <4>2. GetHistory' = GetHistory /\ Forgotten' = Forgotten
        BY <1>1, <1>2, <2>1, <4>1
      <4>3. Log!Effect
        BY <2>1, <3>4, <4>2 DEF Log!Effect, Log!SetSummary
      <4> QED BY <2>1, <3>1, <3>4, <4>3 DEF Log!Next, Log!Return
    <3>5. CASE op.name = "TruncateHistory"
      <4>1. op.meta = TruncatedMeta(op.arg) /\ op.meta.summary = meta.summary
        BY <2>1, <3>5 DEF MethodInv
      <4>2. skip' = IF op.arg <= 0 THEN Len(lines) ELSE IF op.arg < Len(lines) - skip THEN Len(lines) - op.arg ELSE skip
        BY <2>1, <3>2, <4>1 DEF TruncatedMeta, NewMeta
      <4> DEFINE kept == IF op.arg < 0 THEN 0 ELSE op.arg
                 cut  == IF kept < Len(GetHistory) THEN Len(GetHistory) - kept ELSE 0
      <4>3. /\ GetHistory' = SubSeq(GetHistory, cut + 1, Len(GetHistory))
            /\ Forgotten' = Forgotten \o SubSeq(GetHistory, 1, cut)
        <5>1. Len(GetHistory) = Len(lines) - skip
          BY <1>1, PartsOfFile
        <5>2. cut \in 0..Len(lines) - skip /\ skip' = skip + cut
          BY <1>1, <1>3, <4>2, <5>1
        <5> HIDE DEF kept, cut
        <5>3. /\ Rest(lines, skip + cut) = SubSeq(Rest(lines, skip), cut + 1, Len(Rest(lines, skip)))
              /\ Past(lines, skip + cut) = Past(lines, skip) \o SubSeq(Rest(lines, skip), 1, cut)
          BY <1>1, <5>2, PartsAfterCut
        <5> QED BY <1>1, <1>2, <2>1, <5>2, <5>3
      <4>4. Log!Effect
        BY <2>1, <3>5, <4>1, <4>3 DEF Log!Effect, Log!TruncateHistory
      <4> QED BY <2>1, <3>1, <3>5, <4>4 DEF Log!Next, Log!Return
    <3> QED BY <1>3, <2>3, <3>1, <3>3, <3>4, <3>5 DEF Method, Rewrites
  <2> QED BY <2>2, <2>3
\* The new file is where SetHistory and Compact take effect.
<1>15. CASE RewriteJSONL
  <2>1. /\ pc = "rewrite" /\ lines' = op.lines /\ meta' = meta /\ pc' = "idle"
        /\ op'.name = "none" /\ returned' = op.name
    BY <1>15 DEF RewriteJSONL, Return, NoOperation
  <2>2. meta.skip = 0 /\ skip' = 0 /\ skip = op.old
    BY <2>1 DEF StoreInv, ReadSkip, skip
  <2>3. op.name \in {"SetHistory", "Compact"}
    BY <1>3, <2>1 DEF MethodInv, Method
  <2>4. GetHistory' = op.lines /\ Forgotten' = <<>>
    BY <1>2, <2>1, <2>2, PartsOfWhole
  <2>5. op.name = "Compact" => op.lines = GetHistory
    BY <1>1, <2>2 DEF MethodInv
  <2>6. Log!Effect
    BY <2>1, <2>3, <2>4, <2>5 DEF Log!Effect, Log!SetHistory, Log!Compact
  <2> QED BY <2>1, <2>3, <2>6 DEF Log!Next, Log!Return
\* Between the two writes of a rewrite an interruption brings back what was truncated; elsewhere a
\* call takes effect or does not.
<1>16. CASE Interrupt
  <2>1. pc # "idle" /\ pc' = "idle" /\ op'.name = "none" /\ returned' = "none" /\ meta' = meta /\ op.name # "none"
    BY <1>16 DEF Interrupt, NoOperation, MethodInv
  <2>2. skip' = meta.skip
    BY <2>1 DEF ReadSkip, skip
  <2>3. CASE lines' = lines /\ pc # "rewrite"
    <3>1. GetHistory' = GetHistory /\ Forgotten' = Forgotten
      BY <1>1, <1>2, <1>4, <2>2, <2>3
    <3> QED BY <2>1, <3>1 DEF Log!Next, Log!Fail
  <2>4. CASE pc = "append" /\ lines' # lines
    <3>1. PICK after \in {<<lines, torn>>, <<AppendLine(lines, torn, op.arg), FALSE>>} :
             lines' = after[1] /\ torn' = after[2]
      BY <1>16, <2>4 DEF Interrupt, InterruptedAppend
    <3>2. AppendLine(lines, torn, op.arg) = Append(lines, op.arg)
      BY <1>3 DEF AppendLine
    <3>3. lines' = Append(lines, op.arg)
      <4>1. after # <<lines, torn>>
        BY <2>4, <3>1
      <4>2. after = <<Append(lines, op.arg), FALSE>>
        BY <3>1, <3>2, <4>1
      <4> QED BY <3>1, <4>2
    <3> QED BY <1>12, <2>1, <2>4, <3>3
  <2>5. CASE pc = "rewrite"
    <3>1. lines' = lines /\ skip' = 0 /\ op.name \in {"SetHistory", "Compact"}
      BY <1>3, <1>16, <2>2, <2>5 DEF Interrupt, StoreInv, MethodInv, Method
    <3>2. GetHistory' = Forgotten \o GetHistory /\ Forgotten' = <<>>
      BY <1>1, <1>2, <3>1, PartsOfWhole
    <3>3. Log!Resurrect
      BY <2>1, <3>1, <3>2 DEF Log!Resurrect
    <3> QED BY <2>1, <3>3 DEF Log!Next, Log!Fail
  <2>6. pc # "append" => lines' = lines
    BY <1>16 DEF Interrupt
  <2> QED BY <2>3, <2>4, <2>5, <2>6
<1>17. CASE UNCHANGED vars
  <2>1. UNCHANGED <<lines, meta, pc, op, returned>>
    BY <1>17 DEF vars, ghost
  <2>2. GetHistory' = GetHistory /\ Forgotten' = Forgotten
    <3>1. skip' = skip
      BY <2>1 DEF ReadSkip, skip
    <3> QED BY <1>1, <1>2, <2>1, <3>1
  <2> QED BY <2>1, <2>2 DEF Log!vars
<1> QED BY <1>6, <1>7, <1>8, <1>9, <1>10, <1>11, <1>13, <1>14, <1>15, <1>16, <1>17 DEF Next, Log!Next

\* If an interrupted append leaves nothing or everything, the store does what its interface says:
\* each method takes effect in one of its writes, in the order in which the calls hold the lock, and
\* an interruption does no more than bring truncated messages back (jsonl.go, store.go).
THEOREM StoreImplementsLog ==
  ASSUME TornWrites = FALSE
  PROVE  Spec => ImplementsSessionLog
<1> DEFINE Inductive == StoreInv /\ DurableInv /\ MethodInv
<1>1. Init => Inductive
  BY StoreInit, DurableInit, MethodInit, StoreAssumption
<1>2. Inductive /\ [Next]_vars => Inductive'
  BY StoreStep, DurableStep, MethodStep, StoreAssumption
<1>3. Init => Log!Init
  BY RefinedInit, StoreAssumption
<1>4. Inductive /\ Inductive' /\ [Next]_vars => [Log!Next]_Log!vars
  BY RefinedStep, StoreAssumption
<1> QED BY <1>1, <1>2, <1>3, <1>4, PTL DEF Spec, ImplementsSessionLog, Log!Spec
=============================================================================

-------------------------- MODULE AgentTurnsProofs --------------------------
(***************************************************************************)
(* What holds of the turns of AgentTurns in every configuration: for any   *)
(* agents, worlds, thresholds and numbers of turns.                        *)
(***************************************************************************)
EXTENDS AgentTurns, FiniteSetTheorems, TLAPS

Pcs     == {"idle", "model", "tools", "compress", "answer", "respond", "failed"}
Kinds   == {"none", "user", "command", "system", "heartbeat", "cron"}
Request == [kind : {"user", "command", "system"}, agent : Agents]
TurnRec == [pc : Pcs, kind : Kinds, agent : Agents, id : Nat, gen : Nat, iter : Nat,
            retry : 0..MaxRetries, calls : Seq({"message", "async", "plain"}), ran : SUBSET Nat,
            saved : Nat, asked : BOOLEAN, read : Seq(Messages), old : BOOLEAN, heard : BOOLEAN]
SummaryRec == [on : BOOLEAN, read : Seq(Messages), added : Nat, missed : Int]

\* What a turn may hold where it is; a turn that is not running tools has saved no results.
TurnBounds(t) ==
    /\ t.iter \in 0..world.iterations /\ t.saved <= Len(t.calls)
    /\ t.pc # "tools" => t.saved = 0
    /\ t.pc \in {"model", "compress", "tools"} => t.iter > 0
    /\ t.pc = "compress" => t.retry < MaxRetries
    /\ t.pc # "idle" => t.id \in 1..begun

TypeInv ==
    /\ world \in Worlds /\ inbox \in Seq(Request)
    /\ hist \in [Sessions -> Seq(Messages)] /\ sent \in [Agents -> BOOLEAN]
    /\ gen \in 0..world.reloads /\ closed \subseteq 0..(gen - 1)
    /\ turn \in [Worker -> TurnRec] /\ \A w \in Worker : TurnBounds(turn[w])
    /\ summary \in [Sessions -> SummaryRec]
    /\ begun \in Nat /\ tasks \subseteq 1..begun /\ crowded \subseteq 1..begun
-----------------------------------------------------------------------------
\* A world bounds what it names.
LEMMA WorldFacts == ASSUME TurnAssumption, world \in Worlds
                    PROVE  /\ world.reloads \in Nat /\ world.iterations \in Nat \ {0}
                           /\ world.kinds \subseteq {"heartbeat", "cron"}
                           /\ world.writes \subseteq {"user", "command"} \X Agents
                           /\ world.rounds \subseteq Seq({"message", "async", "plain"}) \ {<<>>}
                           /\ DefaultAgent \in Agents
  BY DEF TurnAssumption, Worldly

\* Every turn has a session.
LEMMA SessionFact == ASSUME NEW t \in TurnRec PROVE SessionOf(t) \in Sessions
  BY DEF TurnRec, SessionOf, Sessions

\* Save appends to one session, and tells its summariser.
LEMMA SaveFacts ==
  ASSUME TypeInv, NEW s \in Sessions, NEW m \in Messages, Save(s, m)
  PROVE  /\ hist' \in [Sessions -> Seq(Messages)] /\ summary' \in [Sessions -> SummaryRec]
         /\ hist'[s] = Append(hist[s], m) /\ \A r \in Sessions : r # s => hist'[r] = hist[r]
         /\ \A r \in Sessions : /\ summary'[r].on = summary[r].on /\ summary'[r].read = summary[r].read
                                /\ summary'[r].missed = summary[r].missed
                                /\ summary'[r].added = IF r = s /\ summary[s].on THEN summary[r].added + 1
                                                       ELSE summary[r].added
<1>1. summary \in [Sessions -> SummaryRec] /\ hist \in [Sessions -> Seq(Messages)]
  BY DEF TypeInv
<1>2. hist' = [hist EXCEPT ![s] = Append(@, m)]
  BY DEF Save
<1>3. hist' \in [Sessions -> Seq(Messages)] /\ hist'[s] = Append(hist[s], m) /\ \A r \in Sessions : r # s => hist'[r] = hist[r]
  BY <1>1, <1>2
<1>4. CASE summary[s].on
  <2>1. summary' = [summary EXCEPT ![s].added = @ + 1]
    BY <1>4 DEF Save
  <2>2. /\ summary[s].on \in BOOLEAN /\ summary[s].added \in Nat /\ summary[s] \in SummaryRec
        /\ summary[s].added + 1 \in Nat
    BY <1>1 DEF SummaryRec
  <2>3. [summary[s] EXCEPT !.added = @ + 1] \in SummaryRec
    BY <2>2 DEF SummaryRec
  <2>4. summary' = [summary EXCEPT ![s] = [summary[s] EXCEPT !.added = @ + 1]]
    BY <2>1
  <2>5. summary' \in [Sessions -> SummaryRec]
    BY <2>3, <2>4, <1>1
  <2>6. /\ \A r \in Sessions : r # s => summary'[r] = summary[r]
        /\ summary'[s] = [summary[s] EXCEPT !.added = @ + 1]
    BY <2>4, <1>1
  <2>7. /\ summary'[s].on = summary[s].on /\ summary'[s].read = summary[s].read
        /\ summary'[s].missed = summary[s].missed /\ summary'[s].added = summary[s].added + 1
    BY <2>6, <2>2 DEF SummaryRec
  <2> QED BY <2>5, <2>6, <2>7, <1>3, <1>4
<1>5. CASE ~summary[s].on
  BY <1>1, <1>3, <1>5 DEF Save, SummaryRec
<1> QED BY <1>4, <1>5

\* A summariser that is charged with more messages.
LEMMA ChargeFacts ==
  ASSUME summary \in [Sessions -> SummaryRec], NEW s \in Sessions, NEW n \in Nat,
         summary' = [summary EXCEPT ![s].added = @ + n]
  PROVE  /\ summary' \in [Sessions -> SummaryRec]
         /\ \A r \in Sessions : /\ summary'[r].on = summary[r].on /\ summary'[r].read = summary[r].read
                                /\ summary'[r].missed = summary[r].missed
                                /\ summary'[r].added = IF r = s THEN summary[r].added + n ELSE summary[r].added
<1>1. summary[s].added \in Nat /\ summary[s] \in SummaryRec /\ summary[s].added + n \in Nat
  BY DEF SummaryRec
<1>2. [summary[s] EXCEPT !.added = @ + n] \in SummaryRec
  BY <1>1 DEF SummaryRec
<1>3. summary' = [summary EXCEPT ![s] = [summary[s] EXCEPT !.added = @ + n]]
  OBVIOUS
<1>4. summary' \in [Sessions -> SummaryRec]
  BY <1>2, <1>3
<1>5. /\ \A r \in Sessions : r # s => summary'[r] = summary[r]
      /\ summary'[s] = [summary[s] EXCEPT !.added = @ + n]
  BY <1>3
<1>6. /\ summary'[s].on = summary[s].on /\ summary'[s].read = summary[s].read
      /\ summary'[s].missed = summary[s].missed /\ summary'[s].added = summary[s].added + n
  BY <1>5, <1>1 DEF SummaryRec
<1> QED BY <1>4, <1>5, <1>6

\* Compressing a history keeps its first and its last message and the younger half between.
LEMMA CompressedFacts ==
  ASSUME NEW S, NEW h \in Seq(S), Len(h) > 4
  PROVE  LET half == (Len(h) - 2) \div 2 IN
         /\ half \in 1..(Len(h) - 3) /\ Compressed(h) \in Seq(S) /\ Len(Compressed(h)) = Len(h) - half
         /\ Compressed(h)[1] = h[1] /\ \A i \in 2..(Len(h) - half) : Compressed(h)[i] = h[i + half]
<1> DEFINE n == Len(h)
           half == (n - 2) \div 2
           middle == SubSeq(h, 2, n - 1)
           young == SubSeq(middle, Len(middle) \div 2 + 1, Len(middle))
<1>1. n \in Nat /\ n > 4 /\ half \in 1..(n - 3)
  OBVIOUS
<1>2. middle \in Seq(S) /\ Len(middle) = n - 2 /\ \A i \in 1..(n - 2) : middle[i] = h[i + 1]
  BY <1>1
<1>3. young \in Seq(S) /\ Len(young) = n - 2 - half /\ \A i \in 1..(n - 2 - half) : young[i] = middle[i + half]
  <2>1. young = SubSeq(middle, half + 1, n - 2)
    BY <1>2
  <2> HIDE DEF middle, half, young
  <2>2. half + 1 \in 1..(n - 2) /\ n - 2 = Len(middle) /\ n - 2 \in Nat /\ half \in Nat
    BY <1>1, <1>2
  <2> QED BY <1>2, <2>1, <2>2
<1>4. Compressed(h) = <<h[1]>> \o young \o <<h[n]>>
  BY DEF Compressed
<1> HIDE DEF half, middle, young
<1>5. \A i \in 1..(n - 2 - half) : young[i] = h[i + half + 1]
  BY <1>1, <1>2, <1>3
<1>6. h[1] \in S /\ h[n] \in S
  BY <1>1
<1>7. /\ <<h[1]>> \o young \in Seq(S) /\ Len(<<h[1]>> \o young) = n - 1 - half
      /\ (<<h[1]>> \o young)[1] = h[1]
      /\ \A i \in 2..(n - 1 - half) : (<<h[1]>> \o young)[i] = h[i + half]
  BY <1>1, <1>3, <1>5, <1>6
<1>8. /\ Compressed(h) \in Seq(S) /\ Len(Compressed(h)) = n - half
      /\ Compressed(h)[1] = h[1]
      /\ \A i \in 2..(n - half) : Compressed(h)[i] = h[i + half]
  <2> DEFINE p == <<h[1]>> \o young
  <2>1. p \in Seq(S) /\ Len(p) = n - 1 - half /\ p[1] = h[1] /\ \A i \in 2..(n - 1 - half) : p[i] = h[i + half]
    BY <1>7
  <2>2. Compressed(h) = p \o <<h[n]>>
    BY <1>4
  <2> HIDE DEF p
  <2>3. p \o <<h[n]>> \in Seq(S) /\ Len(p \o <<h[n]>>) = n - half /\ (p \o <<h[n]>>)[n - half] = h[n]
        /\ \A i \in 1..(n - half - 1) : (p \o <<h[n]>>)[i] = p[i]
    BY <2>1, <1>1, <1>6
  <2> HIDE DEF n
  <2> QED BY <2>1, <2>2, <2>3, <1>1
<1> QED BY <1>1, <1>8 DEF half

LEMMA CompressedType ==
  ASSUME NEW h \in Seq(Messages), Len(h) > 4
  PROVE  Compressed(h) \in Seq(Messages) /\ h[Len(h)] = Compressed(h)[Len(Compressed(h))]
         /\ Len(Compressed(h)) > 0
<1> DEFINE half == (Len(h) - 2) \div 2
<1>1. half \in 1..(Len(h) - 3) /\ Compressed(h) \in Seq(Messages) /\ Len(Compressed(h)) = Len(h) - half
      /\ \A i \in 2..(Len(h) - half) : Compressed(h)[i] = h[i + half]
  BY CompressedFacts
<1> HIDE DEF half
<1> QED BY <1>1

LEMMA NewMessage == ASSUME NEW role \in {"user", "assistant", "calls", "tool"}, NEW n \in Nat, NEW i \in Nat, NEW k \in Nat
                    PROVE  Message(role, n, <<i, k>>) \in Messages
  BY DEF Message, Messages

LEMMA IdleType == ASSUME TurnAssumption PROVE Idle \in TurnRec
  BY DEF TurnAssumption, Idle, TurnRec, Pcs, Kinds, MaxRetries

LEMMA TypeInit == TurnAssumption /\ TurnInit => TypeInv
<1> SUFFICES ASSUME TurnAssumption, TurnInit PROVE TypeInv
  OBVIOUS
<1>1. world \in Worlds BY DEF TurnInit
<1>2. world.iterations \in Nat \ {0} /\ world.reloads \in Nat /\ DefaultAgent \in Agents
  BY <1>1, WorldFacts
<1>3. Idle \in TurnRec
  BY IdleType
<1>4. NoSummary \in SummaryRec
  BY DEF NoSummary, SummaryRec
<1>5. \A w \in Worker : turn[w] = Idle
  BY DEF TurnInit
<1>6. \A w \in Worker : TurnBounds(turn[w])
  BY <1>5, <1>2 DEF TurnBounds, Idle
<1> QED BY <1>1, <1>2, <1>3, <1>4, <1>6 DEF TurnInit, TypeInv

\* Start puts a turn of a new number in its place.
LEMMA StartFacts ==
  ASSUME TurnAssumption, TypeInv, NEW w \in Worker, NEW kind \in Kinds \ {"none"}, NEW agent \in Agents,
         Start(w, kind, agent), world' = world
  PROVE  LET s == IF kind = "heartbeat" THEN "heartbeat" ELSE agent IN
         /\ s \in Sessions
         /\ turn'[w] = [Idle EXCEPT !.pc = "model", !.kind = kind, !.agent = agent, !.id = begun + 1,
                                    !.gen = gen, !.iter = 1]
         /\ SessionOf(turn'[w]) = s /\ turn'[w] \in TurnRec
         /\ \A v \in Worker : v # w => turn'[v] = turn[v]
         /\ turn' \in [Worker -> TurnRec] /\ begun' = begun + 1
         /\ Message("user", begun + 1, <<0, 0>>) \in Messages
         /\ Save(s, Message("user", begun + 1, <<0, 0>>))
         /\ crowded' \subseteq 1..begun' /\ crowded \subseteq crowded'
         /\ (\E v \in Worker : turn[v].pc # "idle" /\ SessionOf(turn[v]) = s) \/ summary[s].on
               => begun + 1 \in crowded'
         /\ \A v \in Worker : turn[v].pc # "idle" /\ SessionOf(turn[v]) = s => turn[v].id \in crowded'
<1> DEFINE s == IF kind = "heartbeat" THEN "heartbeat" ELSE agent
           t == [Idle EXCEPT !.pc = "model", !.kind = kind, !.agent = agent, !.id = begun + 1,
                             !.gen = gen, !.iter = 1]
<1>1. /\ begun \in Nat /\ gen \in Nat /\ turn \in [Worker -> TurnRec] /\ crowded \subseteq 1..begun
      /\ \A v \in Worker : turn[v].pc # "idle" => turn[v].id \in 1..begun
  BY WorldFacts DEF TypeInv, TurnBounds
<1>2. t \in TurnRec
  <2>1. "model" \in Pcs /\ kind \in Kinds /\ Idle \in TurnRec /\ begun + 1 \in Nat
    BY <1>1, IdleType DEF Pcs
  <2> QED BY <2>1, <1>1 DEF TurnRec
<1>3. SessionOf(t) = s /\ s \in Sessions
  BY DEF SessionOf, Idle, Sessions
<1>4. /\ turn' = [turn EXCEPT ![w] = t] /\ begun' = begun + 1
      /\ Save(s, Message("user", begun + 1, <<0, 0>>))
      /\ crowded' = IF Active(s) # {} \/ summary[s].on
                    THEN crowded \cup IdsOf(Active(s)) \cup {begun + 1} ELSE crowded
  BY <1>3 DEF Start
<1>5. Message("user", begun + 1, <<0, 0>>) \in Messages
  BY <1>1, NewMessage
<1>6. turn'[w] = t /\ turn' \in [Worker -> TurnRec] /\ \A v \in Worker : v # w => turn'[v] = turn[v]
  BY <1>4, <1>2, <1>1
<1>7. \A v \in Worker : v \in Active(s) <=> turn[v].pc # "idle" /\ SessionOf(turn[v]) = s
  BY DEF Active
<1>8. \A v \in Active(s) : v \in Worker /\ turn[v].id \in IdsOf(Active(s))
  BY DEF IdsOf, Active
<1>9. IdsOf(Active(s)) \subseteq 1..begun
  BY <1>1, <1>7, <1>8 DEF IdsOf
<1>a. crowded' \subseteq 1..begun' /\ crowded \subseteq crowded'
  BY <1>4, <1>9, <1>1
<1>b. (\E v \in Worker : turn[v].pc # "idle" /\ SessionOf(turn[v]) = s) \/ summary[s].on => begun + 1 \in crowded'
  BY <1>4, <1>7
<1>c. \A v \in Worker : turn[v].pc # "idle" /\ SessionOf(turn[v]) = s => turn[v].id \in crowded'
  BY <1>4, <1>7, <1>8
<1> HIDE DEF t
<1>d. /\ s \in Sessions /\ turn'[w] = t /\ SessionOf(turn'[w]) = s /\ turn'[w] \in TurnRec
  BY <1>2, <1>3, <1>6
<1> QED BY <1>d, <1>4, <1>5, <1>6, <1>a, <1>b, <1>c DEF t

-----------------------------------------------------------------------------
\* A turn that changes alone.
LEMMA TurnUpdate ==
  ASSUME TypeInv, NEW w \in Worker, NEW r \in TurnRec, turn' = [turn EXCEPT ![w] = r],
         world' = world, begun' = begun, TurnBounds(r)
  PROVE  /\ turn' \in [Worker -> TurnRec] /\ \A v \in Worker : TurnBounds(turn[v])'
         /\ turn'[w] = r /\ \A v \in Worker : v # w => turn'[v] = turn[v]
<1>1. turn' \in [Worker -> TurnRec] /\ turn'[w] = r /\ \A v \in Worker : v # w => turn'[v] = turn[v]
  BY DEF TypeInv
<1>2. \A v \in Worker : TurnBounds(turn[v])'
  <2> SUFFICES ASSUME NEW v \in Worker PROVE TurnBounds(turn[v])'
    OBVIOUS
  <2>1. CASE v = w BY <2>1, <1>1 DEF TurnBounds
  <2>2. CASE v # w BY <2>2, <1>1 DEF TurnBounds, TypeInv
  <2> QED BY <2>1, <2>2
<1> QED BY <1>1, <1>2

\* The fields of a turn.
LEMMA TurnFields ==
  ASSUME NEW t \in TurnRec
  PROVE  /\ t.pc \in Pcs /\ t.kind \in Kinds /\ t.agent \in Agents /\ t.id \in Nat /\ t.gen \in Nat /\ t.iter \in Nat
         /\ t.retry \in 0..MaxRetries /\ t.calls \in Seq({"message", "async", "plain"}) /\ t.ran \in SUBSET Nat
         /\ t.saved \in Nat /\ t.asked \in BOOLEAN /\ t.read \in Seq(Messages) /\ t.old \in BOOLEAN /\ t.heard \in BOOLEAN
  BY DEF TurnRec

LEMMA TypeStart ==
  ASSUME TurnAssumption, TypeInv, NEW w \in Worker, NEW kind \in Kinds \ {"none"}, NEW agent \in Agents,
         Start(w, kind, agent), world' = world, tasks' = tasks, gen' = gen, closed' = closed,
         inbox' \in Seq(Request), sent' \in [Agents -> BOOLEAN]
  PROVE  TypeInv'
<1>1. /\ turn' \in [Worker -> TurnRec] /\ begun' = begun + 1 /\ crowded' \subseteq 1..begun'
      /\ turn'[w] = [Idle EXCEPT !.pc = "model", !.kind = kind, !.agent = agent, !.id = begun + 1, !.gen = gen, !.iter = 1]
      /\ \A v \in Worker : v # w => turn'[v] = turn[v]
  BY StartFacts
<1>2. hist' \in [Sessions -> Seq(Messages)] /\ summary' \in [Sessions -> SummaryRec]
  BY StartFacts, SaveFacts
<1>3. begun \in Nat /\ world.iterations \in Nat \ {0}
  BY WorldFacts DEF TypeInv
<1>4. \A v \in Worker : TurnBounds(turn[v])'
  <2> SUFFICES ASSUME NEW v \in Worker PROVE TurnBounds(turn[v])'
    OBVIOUS
  <2>1. CASE v = w BY <2>1, <1>1, <1>3 DEF TurnBounds, Idle
  <2>2. CASE v # w BY <2>2, <1>1, <1>3 DEF TurnBounds, TypeInv
  <2> QED BY <2>1, <2>2
<1> QED BY <1>1, <1>2, <1>3, <1>4 DEF TypeInv

\* The answer is saved; a summariser may begin, and the other turns learn of it.
LEMMA FinishTurns ==
  ASSUME TypeInv, NEW w \in Worker, Finish(w)
  PROVE  /\ turn' \in [Worker -> TurnRec] /\ \A v \in Worker : TurnBounds(turn[v])'
         /\ turn'[w] = [turn[w] EXCEPT !.pc = "respond"]
         /\ \A v \in Worker \ {w} : \E b \in BOOLEAN :
               /\ turn'[v] = [turn[v] EXCEPT !.old = b]
               /\ turn[v].old => b
               /\ ~b => ~(/\ Summarizes(turn[w], Append(hist[SessionOf(turn[w])], Message("assistant", turn[w].id, <<0, 0>>)))
                         /\ turn[v].pc = "compress" /\ SessionOf(turn[v]) = SessionOf(turn[w]))
<1> DEFINE t == turn[w]
           s == SessionOf(t)
           h == Append(hist[s], Message("assistant", t.id, <<0, 0>>))
           begins == Summarizes(t, h)
           N(v) == [turn[v] EXCEPT !.pc = IF v = w THEN "respond" ELSE @,
                                   !.old = IF begins /\ v \in Active(s) /\ turn[v].pc = "compress" THEN TRUE ELSE @]
<1>1. turn' = [v \in Worker |-> N(v)] /\ t.pc = "answer" /\ UNCHANGED <<world, begun>>
  BY DEF Finish, counts
<1>2. /\ turn \in [Worker -> TurnRec] /\ t \in TurnRec
      /\ \A v \in Worker : turn[v] \in TurnRec /\ TurnBounds(turn[v]) /\ turn[v].old \in BOOLEAN /\ turn[v].pc \in Pcs
  BY TurnFields DEF TypeInv
<1>3. N(w) = [t EXCEPT !.pc = "respond"]
  <2>1. N(w) = [t EXCEPT !.pc = "respond", !.old = @]
    BY <1>1
  <2> HIDE DEF N, t
  <2>2. [t EXCEPT !.pc = "respond", !.old = @] = [t EXCEPT !.pc = "respond"]
    BY <1>2 DEF TurnRec
  <2> QED BY <2>1, <2>2
<1>4. \A v \in Worker \ {w} : \E b \in BOOLEAN :
         /\ N(v) = [turn[v] EXCEPT !.old = b]
         /\ turn[v].old => b
         /\ ~b => ~(begins /\ turn[v].pc = "compress" /\ SessionOf(turn[v]) = s)
  <2> SUFFICES ASSUME NEW v \in Worker \ {w}
               PROVE  \E b \in BOOLEAN :
                         /\ N(v) = [turn[v] EXCEPT !.old = b]
                         /\ turn[v].old => b
                         /\ ~b => ~(begins /\ turn[v].pc = "compress" /\ SessionOf(turn[v]) = s)
    OBVIOUS
  <2> DEFINE b == IF begins /\ v \in Active(s) /\ turn[v].pc = "compress" THEN TRUE ELSE turn[v].old
             u == turn[v]
  <2>1. b \in BOOLEAN /\ u \in TurnRec
    BY <1>2
  <2>2. N(v) = [u EXCEPT !.pc = @, !.old = b]
    OBVIOUS
  <2>3. begins /\ turn[v].pc = "compress" /\ SessionOf(turn[v]) = s => b
    BY DEF Active
  <2>4. turn[v].old => b
    BY <1>2
  <2> HIDE DEF N, b, u, begins
  <2>5. [u EXCEPT !.pc = @, !.old = b] = [u EXCEPT !.old = b]
    BY <2>1 DEF TurnRec
  <2> QED BY <2>1, <2>2, <2>3, <2>4, <2>5 DEF u
<1>5. \A v \in Worker : N(v) \in TurnRec /\ TurnBounds(N(v))
  <2>1. N(w) \in TurnRec /\ TurnBounds(N(w))
    <3>1. "respond" \in Pcs BY DEF Pcs
    <3> HIDE DEF t, N
    <3>2. N(w) \in TurnRec
      BY <3>1, <1>2, <1>3 DEF TurnRec
    <3>3. /\ N(w).pc = "respond" /\ N(w).iter = t.iter /\ N(w).saved = t.saved /\ N(w).calls = t.calls
          /\ N(w).id = t.id
      BY <1>2, <1>3 DEF TurnRec
    <3>4. TurnBounds(t)
      BY <1>2 DEF t
    <3> QED BY <3>2, <3>3, <3>4, <1>1 DEF TurnBounds
  <2>2. ASSUME NEW v \in Worker \ {w} PROVE N(v) \in TurnRec /\ TurnBounds(N(v))
    <3>0. \E b \in BOOLEAN :
         /\ N(v) = [turn[v] EXCEPT !.old = b]
         /\ turn[v].old => b
         /\ ~b => ~(begins /\ turn[v].pc = "compress" /\ SessionOf(turn[v]) = s)
      <4> HIDE DEF N, begins, s
      <4> QED BY <1>4
    <3> HIDE DEF N
    <3>1. PICK b \in BOOLEAN : /\ N(v) = [turn[v] EXCEPT !.old = b]
                               /\ turn[v].old => b
                               /\ ~b => ~(begins /\ turn[v].pc = "compress" /\ SessionOf(turn[v]) = s)
      BY <3>0
    <3> DEFINE u == turn[v]
    <3>2. u \in TurnRec /\ TurnBounds(u)
      BY <1>2
    <3>3. N(v) = [u EXCEPT !.old = b]
      BY <3>1
    <3> HIDE DEF N, u
    <3>4. N(v) \in TurnRec
      BY <3>2, <3>3 DEF TurnRec
    <3>5. /\ N(v).pc = u.pc /\ N(v).iter = u.iter /\ N(v).saved = u.saved /\ N(v).calls = u.calls
          /\ N(v).id = u.id /\ N(v).retry = u.retry
      BY <3>2, <3>3 DEF TurnRec
    <3> QED BY <3>2, <3>4, <3>5 DEF TurnBounds
  <2> QED BY <2>1, <2>2
<1>6. \A v \in Worker : turn'[v] = N(v)
  BY <1>1
<1> HIDE DEF N
<1>7. turn' \in [Worker -> TurnRec]
  BY <1>1, <1>5
<1>8. \A v \in Worker : TurnBounds(turn[v])'
  BY <1>1, <1>5, <1>6 DEF TurnBounds
<1> QED BY <1>3, <1>4, <1>6, <1>7, <1>8

LEMMA FinishFacts ==
  ASSUME TypeInv, NEW w \in Worker, Finish(w)
  PROVE  LET s == SessionOf(turn[w])
             h == Append(hist[s], Message("assistant", turn[w].id, <<0, 0>>)) IN
         /\ s \in Sessions /\ h \in Seq(Messages) /\ hist' \in [Sessions -> Seq(Messages)] /\ summary' \in [Sessions -> SummaryRec]
         /\ hist'[s] = h /\ \A r \in Sessions : r # s => hist'[r] = hist[r] /\ summary'[r] = summary[r]
         /\ \/ /\ Summarizes(turn[w], h) /\ ~summary[s].on
               /\ summary'[s].on /\ summary'[s].read = h /\ summary'[s].added = 0 /\ summary'[s].missed = 0
            \/ /\ ~Summarizes(turn[w], h) /\ summary'[s].on = summary[s].on /\ summary'[s].read = summary[s].read
               /\ summary'[s].missed = summary[s].missed
               /\ summary'[s].added = IF summary[s].on THEN summary[s].added + 1 ELSE summary[s].added
<1> DEFINE t == turn[w]
           s == SessionOf(t)
           h == Append(hist[s], Message("assistant", t.id, <<0, 0>>))
           begins == Summarizes(t, h)
           fresh == [NoSummary EXCEPT !.on = TRUE, !.read = h]
<1>1. /\ hist \in [Sessions -> Seq(Messages)] /\ summary \in [Sessions -> SummaryRec] /\ t \in TurnRec /\ s \in Sessions
      /\ t.id \in Nat
  BY SessionFact, TurnFields DEF TypeInv
<1>2. /\ hist' = [hist EXCEPT ![s] = h]
      /\ summary' = (IF begins THEN [summary EXCEPT ![s] = fresh]
                     ELSE IF summary[s].on THEN [summary EXCEPT ![s].added = @ + 1] ELSE summary)
  BY DEF Finish
<1>3. h \in Seq(Messages)
  BY <1>1, NewMessage
<1>4. hist' \in [Sessions -> Seq(Messages)] /\ hist'[s] = h /\ \A r \in Sessions : r # s => hist'[r] = hist[r]
  BY <1>1, <1>2, <1>3
<1>5. begins => ~summary[s].on
  BY DEF Summarizes
<1> HIDE DEF h, begins
<1>5a. NoSummary = [on |-> FALSE, read |-> <<>>, added |-> 0, missed |-> 0] /\ <<>> \in Seq(Messages)
  BY DEF NoSummary
<1>5b. NoSummary \in SummaryRec
  BY <1>5a DEF SummaryRec
<1>6. fresh.on /\ fresh.read = h /\ fresh.added = 0 /\ fresh.missed = 0 /\ fresh \in SummaryRec
  BY <1>3, <1>5a, <1>5b DEF SummaryRec
<1> HIDE DEF fresh
<1>7. CASE begins
  <2>1. summary' = [summary EXCEPT ![s] = fresh]
    BY <1>7, <1>2
  <2>2. summary' \in [Sessions -> SummaryRec] /\ summary'[s] = fresh /\ \A r \in Sessions : r # s => summary'[r] = summary[r]
    BY <2>1, <1>1, <1>6
  <2>3. summary'[s].on /\ summary'[s].read = h /\ summary'[s].added = 0 /\ summary'[s].missed = 0
    BY <2>2, <1>6
  <2> HIDE DEF s, t
  <2> QED BY <1>1, <1>3, <1>4, <1>5, <1>7, <2>2, <2>3 DEF h, begins, s, t
<1>8. CASE ~begins
  <2>1. summary' = IF summary[s].on THEN [summary EXCEPT ![s].added = @ + 1] ELSE summary
    BY <1>8, <1>2
  <2>2. /\ summary' \in [Sessions -> SummaryRec] /\ \A r \in Sessions : r # s => summary'[r] = summary[r]
        /\ summary'[s].on = summary[s].on /\ summary'[s].read = summary[s].read
        /\ summary'[s].missed = summary[s].missed
        /\ summary'[s].added = IF summary[s].on THEN summary[s].added + 1 ELSE summary[s].added
    <3>1. CASE summary[s].on
      <4>1. summary' = [summary EXCEPT ![s].added = @ + 1]
        BY <3>1, <2>1
      <4>2. \A r \in Sessions : r # s => summary'[r] = summary[r]
        BY <4>1, <1>1
      <4>3. /\ summary' \in [Sessions -> SummaryRec]
            /\ \A r \in Sessions : /\ summary'[r].on = summary[r].on /\ summary'[r].read = summary[r].read
                                   /\ summary'[r].missed = summary[r].missed
                                   /\ summary'[r].added = IF r = s THEN summary[r].added + 1 ELSE summary[r].added
        BY <4>1, <1>1, ChargeFacts
      <4> HIDE DEF s
      <4> QED BY <4>2, <4>3, <3>1, <1>1
    <3>2. CASE ~summary[s].on
      BY <3>2, <2>1, <1>1
    <3> QED BY <3>1, <3>2
  <2> QED BY <1>1, <1>3, <1>4, <1>8, <2>2 DEF h, begins
<1> QED BY <1>7, <1>8

LEMMA SummarizedFacts ==
  ASSUME TypeInv, NEW s \in Sessions, Summarized(s)
  PROVE  /\ hist' \in [Sessions -> Seq(Messages)] /\ summary' \in [Sessions -> SummaryRec]
         /\ summary[s].on /\ \A r \in Sessions : r # s => hist'[r] = hist[r] /\ summary'[r] = summary[r]
         /\ ~summary'[s].on
         /\ \/ /\ hist'[s] = hist[s] /\ summary'[s].missed = 0
            \/ /\ hist'[s] = IF Len(hist[s]) > Keep THEN SubSeq(hist[s], Len(hist[s]) - Keep + 1, Len(hist[s])) ELSE hist[s]
               /\ summary'[s].missed = Cardinality({i \in 1..(Len(hist[s]) - Keep) :
                     ~\E j \in 1..(Len(summary[s].read) - Keep) : summary[s].read[j] = hist[s][i]}) - summary[s].added
<1> DEFINE n == Len(hist[s])
           lost == Cardinality({i \in 1..(n - Keep) :
                     ~\E j \in 1..(Len(summary[s].read) - Keep) : summary[s].read[j] = hist[s][i]})
           gone == lost - summary[s].added
<1>1. hist \in [Sessions -> Seq(Messages)] /\ summary \in [Sessions -> SummaryRec] /\ summary[s].added \in Nat /\ n \in Nat
  BY DEF TypeInv, SummaryRec
<1>2. lost \in Nat
  <2>1. IsFiniteSet(1..(n - Keep))
    BY <1>1, FS_Interval DEF Keep
  <2>2. IsFiniteSet({i \in 1..(n - Keep) :
                     ~\E j \in 1..(Len(summary[s].read) - Keep) : summary[s].read[j] = hist[s][i]})
    BY <2>1, FS_Subset
  <2> QED BY <2>2, FS_CardinalityType
<1>3. summary[s].on /\
      \/ hist' = [hist EXCEPT ![s] = IF n > Keep THEN SubSeq(@, n - Keep + 1, n) ELSE @]
         /\ summary' = [summary EXCEPT ![s] = [NoSummary EXCEPT !.missed = gone]]
      \/ hist' = hist /\ summary' = [summary EXCEPT ![s] = NoSummary]
  BY DEF Summarized
<1> HIDE DEF lost
<1>4. gone \in Int
  BY <1>1, <1>2
<1> HIDE DEF gone
<1>4a. NoSummary = [on |-> FALSE, read |-> <<>>, added |-> 0, missed |-> 0] /\ <<>> \in Seq(Messages)
  BY DEF NoSummary
<1>4b. NoSummary \in SummaryRec
  BY <1>4a DEF SummaryRec
<1>5. /\ NoSummary \in SummaryRec /\ [NoSummary EXCEPT !.missed = gone] \in SummaryRec
      /\ ~NoSummary.on /\ NoSummary.missed = 0
      /\ ~[NoSummary EXCEPT !.missed = gone].on /\ [NoSummary EXCEPT !.missed = gone].missed = gone
  BY <1>4, <1>4a, <1>4b DEF SummaryRec
<1>6. n > Keep => SubSeq(hist[s], n - Keep + 1, n) \in Seq(Messages)
  BY <1>1 DEF Keep
<1>7. CASE hist' = [hist EXCEPT ![s] = IF n > Keep THEN SubSeq(@, n - Keep + 1, n) ELSE @]
           /\ summary' = [summary EXCEPT ![s] = [NoSummary EXCEPT !.missed = gone]]
  <2> DEFINE h == IF n > Keep THEN SubSeq(hist[s], n - Keep + 1, n) ELSE hist[s]
             m == [NoSummary EXCEPT !.missed = gone]
  <2>1. h \in Seq(Messages) /\ hist' = [hist EXCEPT ![s] = h] /\ m \in SummaryRec /\ summary' = [summary EXCEPT ![s] = m]
        /\ ~m.on /\ m.missed = gone
    BY <1>1, <1>5, <1>6, <1>7
  <2> HIDE DEF h, m
  <2>2. /\ hist' \in [Sessions -> Seq(Messages)] /\ summary' \in [Sessions -> SummaryRec]
        /\ \A r \in Sessions : r # s => hist'[r] = hist[r] /\ summary'[r] = summary[r]
        /\ hist'[s] = h /\ summary'[s] = m
    BY <2>1, <1>1
  <2> QED BY <2>1, <2>2, <1>3 DEF h, gone, lost
<1>8. CASE hist' = hist /\ summary' = [summary EXCEPT ![s] = NoSummary]
  <2>2. /\ hist' \in [Sessions -> Seq(Messages)] /\ summary' \in [Sessions -> SummaryRec]
        /\ \A r \in Sessions : r # s => hist'[r] = hist[r] /\ summary'[r] = summary[r]
        /\ hist'[s] = hist[s] /\ summary'[s] = NoSummary
    BY <1>5, <1>8, <1>1
  <2> QED BY <2>2, <1>3, <1>5
<1> QED BY <1>3, <1>7, <1>8

LEMMA TypeStep == TurnAssumption /\ TypeInv /\ [TurnNext]_turnVars => TypeInv'
<1> SUFFICES ASSUME TurnAssumption, TypeInv, [TurnNext]_turnVars PROVE TypeInv'
  OBVIOUS
<1> USE DEF bus, agentState, background, counts, ghosts
<1>w. /\ world.reloads \in Nat /\ world.iterations \in Nat \ {0}
      /\ world.kinds \subseteq {"heartbeat", "cron"}
      /\ world.writes \subseteq {"user", "command"} \X Agents
      /\ world.rounds \subseteq Seq({"message", "async", "plain"}) \ {<<>>}
      /\ DefaultAgent \in Agents
  BY WorldFacts DEF TypeInv
<1>t. /\ inbox \in Seq(Request) /\ hist \in [Sessions -> Seq(Messages)] /\ sent \in [Agents -> BOOLEAN]
      /\ gen \in Nat /\ turn \in [Worker -> TurnRec] /\ summary \in [Sessions -> SummaryRec] /\ begun \in Nat
      /\ \A w \in Worker : turn[w] \in TurnRec /\ SessionOf(turn[w]) \in Sessions /\ TurnBounds(turn[w])
  BY <1>w, SessionFact DEF TypeInv
<1>h. inbox # <<>> => Head(inbox) \in Request /\ Head(inbox).agent \in Agents /\ Tail(inbox) \in Seq(Request)
  <2>1. inbox # <<>> => Head(inbox) \in Request /\ Tail(inbox) \in Seq(Request)
    BY <1>t
  <2> QED BY <2>1 DEF Request
<1>1. CASE Arrive
  <2>1. PICK m \in world.writes : inbox' = Append(inbox, [kind |-> m[1], agent |-> m[2]])
    BY <1>1 DEF Arrive
  <2>2. inbox' \in Seq(Request)
    BY <2>1, <1>t, <1>w DEF Request
  <2> QED BY <2>2, <1>1 DEF Arrive, TypeInv, TurnBounds
<1>2. CASE Take
  <2>1. sent' \in [Agents -> BOOLEAN] BY <1>2, <1>t, <1>h DEF Take, ResetSent
  <2> QED BY <2>1, <1>2, <1>h, TypeStart DEF Take, Worker, Kinds
<1>3. CASE Command
  <2> DEFINE t == [Idle EXCEPT !.pc = "respond", !.kind = "command", !.agent = Head(inbox).agent,
                               !.id = begun + 1, !.gen = gen]
             a == Head(inbox).agent
  <2>0. inbox # <<>>
    BY <1>3 DEF Command
  <2>1. a \in Agents /\ Tail(inbox) \in Seq(Request) /\ Idle \in TurnRec /\ begun + 1 \in Nat
    BY <2>0, <1>h, <1>t, IdleType
  <2>2. t \in TurnRec
    BY <2>1, <1>t DEF TurnRec, Pcs, Kinds
  <2>3. turn' = [turn EXCEPT !["run"] = t] /\ begun' = begun + 1 /\ world' = world
    BY <1>3 DEF Command
  <2>4. t.iter = 0 /\ t.saved = 0 /\ t.calls = <<>> /\ t.pc = "respond" /\ t.id = begun + 1
    BY DEF Idle
  <2> HIDE DEF t
  <2>5. turn' \in [Worker -> TurnRec] /\ turn'["run"] = t /\ \A v \in Worker : v # "run" => turn'[v] = turn[v]
    BY <2>2, <2>3, <1>t DEF Worker
  <2>6. \A v \in Worker : TurnBounds(turn[v])'
    <3> SUFFICES ASSUME NEW v \in Worker PROVE TurnBounds(turn[v])'
      OBVIOUS
    <3>1. CASE v = "run" BY <3>1, <2>5, <2>4, <2>3, <1>w, <1>t DEF TurnBounds
    <3>2. CASE v # "run" BY <3>2, <2>5, <2>3, <1>t DEF TurnBounds
    <3> QED BY <3>1, <3>2
  <2>7. hist' = [hist EXCEPT ![a] = <<>>] /\ sent' = [sent EXCEPT ![a] = FALSE] /\ inbox' = Tail(inbox)
        /\ crowded' = crowded \cup IdsOf(Active(a))
        /\ gen' = gen /\ closed' = closed /\ summary' = summary /\ tasks' = tasks
    BY <1>3 DEF Command, ResetSent
  <2>8. hist' \in [Sessions -> Seq(Messages)] /\ sent' \in [Agents -> BOOLEAN]
    BY <2>7, <2>1, <1>t DEF Sessions
  <2>9. crowded' \subseteq 1..begun'
    <3>1. \A v \in Worker : turn[v].pc # "idle" => turn[v].id \in 1..begun
      BY <1>t DEF TurnBounds
    <3>2. IdsOf(Active(a)) \subseteq 1..begun /\ crowded \subseteq 1..begun
      BY <3>1 DEF IdsOf, Active, TypeInv
    <3>3. crowded' = crowded \cup IdsOf(Active(a)) /\ begun' = begun + 1 /\ begun \in Nat
      BY <2>7, <2>3, <1>t
    <3>4. 1..begun \subseteq 1..begun'
      BY <3>3
    <3>5. crowded \cup IdsOf(Active(a)) \subseteq 1..begun
      BY <3>2
    <3> QED BY <3>3, <3>4, <3>5
  <2> QED BY <2>1, <2>3, <2>5, <2>6, <2>7, <2>8, <2>9, <1>t DEF TypeInv
<1>4. CASE TakeSystem
  BY <1>4, <1>h, <1>w, <1>t, TypeStart DEF TakeSystem, Worker, Kinds
<1>5. ASSUME NEW kind \in world.kinds, Side(kind) PROVE TypeInv'
  <2>1. sent' \in [Agents -> BOOLEAN] /\ kind \in {"heartbeat", "cron"}
    BY <1>5, <1>t, <1>w DEF Side, ResetSent
  <2> QED BY <2>1, <1>5, <1>w, <1>t, TypeStart DEF Side, Worker, Kinds
<1>6. ASSUME NEW w \in Worker, Advance(w) PROVE TypeInv'
  <2> DEFINE t == turn[w]
             s == SessionOf(t)
  <2>t. /\ t \in TurnRec /\ s \in Sessions /\ TurnBounds(t)
        /\ t.pc \in Pcs /\ t.kind \in Kinds /\ t.agent \in Agents /\ t.id \in Nat /\ t.gen \in Nat /\ t.iter \in Nat
        /\ t.retry \in 0..MaxRetries /\ t.calls \in Seq({"message", "async", "plain"}) /\ t.ran \in SUBSET Nat
        /\ t.saved \in Nat /\ t.asked \in BOOLEAN /\ t.read \in Seq(Messages) /\ t.old \in BOOLEAN /\ t.heard \in BOOLEAN
    BY <1>t, TurnFields
  <2>r. ASSUME NEW r \in TurnRec, turn' = [turn EXCEPT ![w] = r], world' = world, begun' = begun, TurnBounds(r),
               hist' \in [Sessions -> Seq(Messages)], summary' \in [Sessions -> SummaryRec],
               UNCHANGED <<inbox, sent, gen, closed, tasks, crowded>>
        PROVE  TypeInv'
    <3>1. turn' \in [Worker -> TurnRec] /\ \A v \in Worker : TurnBounds(turn[v])'
      BY <2>r, TurnUpdate
    <3> QED BY <3>1, <2>r DEF TypeInv
  <2>1. CASE Answer(w)
    <3> DEFINE r == [t EXCEPT !.pc = "answer"]
    <3>1. r \in TurnRec BY <2>t DEF TurnRec, Pcs
    <3>2. TurnBounds(r) BY <2>1, <2>t DEF TurnBounds, Answer, May, TurnRec
    <3> QED BY <3>1, <3>2, <2>1, <2>r, <1>t DEF Answer
  <2>2. CASE AskTools(w)
    <3>1. PICK calls \in world.rounds : turn' = [turn EXCEPT ![w].pc = "tools", ![w].calls = calls]
      BY <2>2 DEF AskTools
    <3> DEFINE r == [t EXCEPT !.pc = "tools", !.calls = calls]
               m == Message("calls", t.id, <<t.iter, Len(turn'[w].calls)>>)
    <3>2. r \in TurnRec BY <2>t, <1>w DEF TurnRec, Pcs
    <3>3. t.saved = 0 /\ calls \in Seq({"message", "async", "plain"})
      BY <2>2, <2>t, <1>w DEF TurnBounds, AskTools, May
    <3>4. TurnBounds(r)
      BY <3>3, <2>2, <2>t DEF TurnBounds, AskTools, May, TurnRec
    <3>5. turn' = [turn EXCEPT ![w] = r] /\ turn'[w].calls = calls
      BY <3>1, <1>t DEF TurnRec
    <3>6. m \in Messages /\ Save(s, m)
      BY <3>5, <3>3, <2>2, <2>t, NewMessage DEF AskTools
    <3>7. hist' \in [Sessions -> Seq(Messages)] /\ summary' \in [Sessions -> SummaryRec]
      BY <3>6, <2>t, SaveFacts
    <3> QED BY <3>2, <3>4, <3>5, <3>7, <2>2, <2>r DEF AskTools
  <2>3. CASE TimeOut(w)
    <3> DEFINE r == IF t.retry < MaxRetries THEN [t EXCEPT !.retry = @ + 1] ELSE [t EXCEPT !.pc = "failed"]
    <3>1. r \in TurnRec
      <4>1. "failed" \in Pcs /\ (t.retry < MaxRetries => t.retry + 1 \in 0..MaxRetries) /\ t \in TurnRec
        BY <2>t DEF Pcs, MaxRetries
      <4> HIDE DEF t
      <4>2. t.retry < MaxRetries => [t EXCEPT !.retry = @ + 1] \in TurnRec
        BY <4>1 DEF TurnRec
      <4>3. [t EXCEPT !.pc = "failed"] \in TurnRec
        BY <4>1 DEF TurnRec
      <4> QED BY <4>2, <4>3
    <3>2. TurnBounds(r) BY <2>3, <2>t DEF TurnBounds, TimeOut, May, TurnRec
    <3>3. turn' = [turn EXCEPT ![w] = r] BY <2>3, <1>t DEF TimeOut
    <3> QED BY <3>1, <3>2, <3>3, <2>3, <2>r, <1>t DEF TimeOut
  <2>4. CASE Fail(w)
    <3> DEFINE r == [t EXCEPT !.pc = "failed"]
    <3>1. r \in TurnRec BY <2>t DEF TurnRec, Pcs
    <3>2. TurnBounds(r) BY <2>4, <2>t DEF TurnBounds, Fail, TurnRec
    <3> QED BY <3>1, <3>2, <2>4, <2>r, <1>t DEF Fail
  <2>5. CASE TooLong(w)
    <3> DEFINE h == hist[s]
               r == [t EXCEPT !.pc = "compress", !.read = h]
    <3>0. h \in Seq(Messages) /\ "compress" \in Pcs
      BY <2>t, <1>t DEF Pcs
    <3>1. r \in TurnRec
      <4> HIDE DEF h, t
      <4>1. t \in TurnRec BY <2>t
      <4> QED BY <4>1, <3>0 DEF TurnRec
    <3>2. TurnBounds(r) BY <2>5, <2>t DEF TurnBounds, TooLong, May, TurnRec
    <3> QED BY <3>1, <3>2, <2>5, <2>r, <1>t DEF TooLong
  <2>6. CASE Compress(w)
    <3> DEFINE cut == Len(t.read) > 4
               now == IF cut THEN Compressed(t.read) ELSE hist[s]
               asked == \E i \in DOMAIN now : now[i] = Message("user", t.id, <<0, 0>>)
               r == [t EXCEPT !.pc = "model", !.read = <<>>, !.old = FALSE, !.retry = @ + 1, !.asked = asked]
    <3>1. now \in Seq(Messages) /\ asked \in BOOLEAN
      BY <2>t, <1>t, CompressedType
    <3>2. t.pc = "compress" /\ hist' = [hist EXCEPT ![s] = now] /\ turn' = [turn EXCEPT ![w] = r]
          /\ summary' = (IF cut /\ t.old /\ summary[s].on THEN [summary EXCEPT ![s].added = @ + Len(now)] ELSE summary)
          /\ UNCHANGED <<world, begun, inbox, sent, gen, closed, tasks, crowded>>
      BY <2>6, <1>t DEF Compress
    <3>3. t.retry + 1 \in 0..MaxRetries /\ t.saved = 0
      BY <3>2, <2>t DEF TurnBounds, MaxRetries
    <3> HIDE DEF now, asked
    <3>4. r \in TurnRec
      <4>1. "model" \in Pcs /\ <<>> \in Seq(Messages) BY DEF Pcs
      <4> QED BY <4>1, <3>1, <3>3, <2>t DEF TurnRec
    <3>5. TurnBounds(r) BY <3>2, <3>3, <2>t DEF TurnBounds, TurnRec
    <3>6. hist' \in [Sessions -> Seq(Messages)]
      BY <3>1, <3>2, <2>t, <1>t
    <3>7. summary' \in [Sessions -> SummaryRec]
      <4>1. CASE cut /\ t.old /\ summary[s].on
        <5>1. summary' = [summary EXCEPT ![s].added = @ + Len(now)] /\ Len(now) \in Nat
          BY <4>1, <3>1, <3>2
        <5> QED BY <5>1, <2>t, <1>t, ChargeFacts
      <4>2. CASE ~(cut /\ t.old /\ summary[s].on)
        BY <4>2, <3>2, <1>t
      <4> QED BY <4>1, <4>2
    <3> HIDE DEF r
    <3> QED BY <3>2, <3>4, <3>5, <3>6, <3>7, <2>r
  <2>7. CASE RunTool(w)
    <3>1. PICK i \in DOMAIN t.calls \ t.ran :
             LET sends == t.calls[i] = "message" IN
             /\ turn' = [v \in Worker |-> [turn[v] EXCEPT
                             !.ran = IF v = w THEN @ \cup {i} ELSE @,
                             !.heard = @ \/ (sends /\ t.agent = DefaultAgent)]]
             /\ sent' = IF sends /\ t.gen = gen THEN [sent EXCEPT ![t.agent] = TRUE] ELSE sent
             /\ tasks' = IF t.calls[i] = "async" THEN tasks \cup {t.id} ELSE tasks
      BY <2>7 DEF RunTool
    <3> DEFINE loud == t.calls[i] = "message" /\ t.agent = DefaultAgent
               N(v) == [turn[v] EXCEPT !.ran = IF v = w THEN @ \cup {i} ELSE @, !.heard = @ \/ loud]
    <3>2. \A v \in Worker : turn'[v] = N(v)
      BY <3>1
    <3>3. \A v \in Worker : N(v) \in TurnRec
      <4> SUFFICES ASSUME NEW v \in Worker PROVE N(v) \in TurnRec
        OBVIOUS
      <4> HIDE DEF loud
      <4>0. i \in DOMAIN t.calls /\ DOMAIN t.calls = 1..Len(t.calls) /\ Len(t.calls) \in Nat
        <5>1. i \in DOMAIN t.calls BY <3>1
        <5> HIDE DEF t
        <5> QED BY <5>1, <2>t
      <4>1. i \in Nat BY <4>0
      <4>2. turn[v] \in TurnRec /\ turn[v].ran \in SUBSET Nat /\ turn[v].heard \in BOOLEAN
        BY <1>t, TurnFields
      <4> DEFINE more == IF v = w THEN turn[v].ran \cup {i} ELSE turn[v].ran
                 told == turn[v].heard \/ loud
      <4>3. more \in SUBSET Nat /\ told \in BOOLEAN
        BY <4>1, <4>2
      <4>4. N(v) = [turn[v] EXCEPT !.ran = more, !.heard = told]
        OBVIOUS
      <4> HIDE DEF more, told, N
      <4> QED BY <4>2, <4>3, <4>4 DEF TurnRec
    <3>4. \A v \in Worker : /\ N(v).pc = turn[v].pc /\ N(v).iter = turn[v].iter /\ N(v).saved = turn[v].saved
                            /\ N(v).calls = turn[v].calls /\ N(v).retry = turn[v].retry /\ N(v).id = turn[v].id
      <4> SUFFICES ASSUME NEW v \in Worker
                   PROVE  /\ N(v).pc = turn[v].pc /\ N(v).iter = turn[v].iter /\ N(v).saved = turn[v].saved
                          /\ N(v).calls = turn[v].calls /\ N(v).retry = turn[v].retry /\ N(v).id = turn[v].id
        OBVIOUS
      <4>1. turn[v] \in TurnRec BY <1>t
      <4> QED BY <4>1 DEF TurnRec
    <3>5. turn' \in [Worker -> TurnRec]
      <4> HIDE DEF N
      <4>1. turn' = [v \in Worker |-> N(v)]
        BY <3>1 DEF N
      <4> QED BY <3>3, <4>1
    <3> HIDE DEF N
    <3>6. \A v \in Worker : TurnBounds(turn[v])'
      <4>1. UNCHANGED <<world, begun>> BY <2>7 DEF RunTool
      <4> SUFFICES ASSUME NEW v \in Worker PROVE TurnBounds(turn[v])'
        OBVIOUS
      <4>2. TurnBounds(turn[v]) BY <1>t
      <4> QED BY <3>2, <3>4, <4>1, <4>2 DEF TurnBounds
    <3>7. tasks' \subseteq 1..begun'
      <4>1. t.id \in 1..begun /\ begun' = begun /\ tasks \subseteq 1..begun
        BY <2>7, <2>t DEF TurnBounds, RunTool, TypeInv
      <4> QED BY <4>1, <3>1
    <3>8. sent' \in [Agents -> BOOLEAN]
      BY <3>1, <1>t, <2>t
    <3> QED BY <3>5, <3>6, <3>7, <3>8, <2>7 DEF RunTool, TypeInv
  <2>8. CASE SaveResult(w)
    <3> DEFINE r == [t EXCEPT !.saved = @ + 1]
               m == Message("tool", t.id, <<t.iter, t.saved + 1>>)
    <3>1. r \in TurnRec
      <4>1. t.saved + 1 \in Nat /\ t \in TurnRec
        BY <2>t
      <4> HIDE DEF t
      <4> QED BY <4>1 DEF TurnRec
    <3>2. TurnBounds(r) BY <2>8, <2>t DEF TurnBounds, SaveResult, TurnRec
    <3>3. m \in Messages /\ Save(s, m)
      BY <2>8, <2>t, NewMessage DEF SaveResult
    <3>4. hist' \in [Sessions -> Seq(Messages)] /\ summary' \in [Sessions -> SummaryRec]
      BY <3>3, <2>t, SaveFacts
    <3>5. turn' = [turn EXCEPT ![w] = r] BY <2>8 DEF SaveResult
    <3> QED BY <3>1, <3>2, <3>4, <3>5, <2>8, <2>r DEF SaveResult
  <2>9. CASE Iterate(w)
    <3> DEFINE last == t.iter = world.iterations
               r == [t EXCEPT !.calls = <<>>, !.ran = {}, !.saved = 0, !.retry = 0,
                              !.pc = IF last THEN "answer" ELSE "model", !.iter = IF last THEN t.iter ELSE t.iter + 1]
    <3>1. r \in TurnRec
      <4>1. <<>> \in Seq({"message", "async", "plain"}) /\ {} \in SUBSET Nat /\ 0 \in 0..MaxRetries
            /\ (IF last THEN "answer" ELSE "model") \in Pcs /\ (IF last THEN t.iter ELSE t.iter + 1) \in Nat
        BY <2>t DEF Pcs, MaxRetries
      <4> DEFINE pc == IF last THEN "answer" ELSE "model"
                 i == IF last THEN t.iter ELSE t.iter + 1
      <4> HIDE DEF t, pc, i, last
      <4>2. t \in TurnRec /\ pc \in Pcs /\ i \in Nat
        BY <4>1, <2>t DEF pc, i
      <4>3. r = [t EXCEPT !.calls = <<>>, !.ran = {}, !.saved = 0, !.retry = 0, !.pc = pc, !.iter = i]
        BY DEF pc, i
      <4> QED BY <4>1, <4>2, <4>3 DEF TurnRec
    <3>2. TurnBounds(r) BY <2>9, <2>t, <1>w DEF TurnBounds, Iterate, TurnRec
    <3>3. turn' = [turn EXCEPT ![w] = r] BY <2>9, <1>t DEF Iterate
    <3> QED BY <3>1, <3>2, <3>3, <2>9, <2>r, <1>t DEF Iterate
  <2>a. CASE Finish(w)
    <3> DEFINE m == Message("assistant", t.id, <<0, 0>>)
               h == Append(hist[s], m)
    <3>2. hist' \in [Sessions -> Seq(Messages)] /\ summary' \in [Sessions -> SummaryRec]
      BY <2>a, FinishFacts
    <3>3. turn' \in [Worker -> TurnRec] /\ \A v \in Worker : TurnBounds(turn[v])'
      BY <2>a, FinishTurns
    <3>4. crowded' \subseteq 1..begun'
      <4>1. \A v \in Worker : turn[v].pc # "idle" => turn[v].id \in 1..begun
        BY <1>t DEF TurnBounds
      <4>2. IdsOf(Active(s) \ {w}) \subseteq 1..begun /\ crowded \subseteq 1..begun
        BY <4>1 DEF IdsOf, Active, TypeInv
      <4>3. crowded' \in {crowded, crowded \cup IdsOf(Active(s) \ {w})} /\ begun' = begun
        BY <2>a DEF Finish
      <4> QED BY <4>2, <4>3
    <3> QED BY <3>2, <3>3, <3>4, <2>a DEF Finish, TypeInv
  <2>b. CASE Respond(w)
    <3>1. Idle \in TurnRec /\ TurnBounds(Idle)
      BY IdleType, <1>w DEF TurnBounds, Idle
    <3> QED BY <3>1, <2>b, <2>r, <1>t DEF Respond
  <2> QED BY <1>6, <2>1, <2>2, <2>3, <2>4, <2>5, <2>6, <2>7, <2>8, <2>9, <2>a, <2>b DEF Advance
<1>7. ASSUME NEW id \in tasks, AsyncDone(id) PROVE TypeInv'
  <2>0. [kind |-> "system", agent |-> DefaultAgent] \in Request
    BY <1>w DEF Request
  <2>1. inbox' \in Seq(Request)
    <3> DEFINE q == [kind |-> "system", agent |-> DefaultAgent]
    <3>1. inbox' = inbox \/ inbox' = Append(inbox, q)
      BY <1>7 DEF AsyncDone
    <3>2. q \in Request /\ inbox \in Seq(Request)
      BY <2>0, <1>t
    <3> HIDE DEF q
    <3> QED BY <3>1, <3>2
  <2> QED BY <2>1, <1>7 DEF AsyncDone, TypeInv, TurnBounds
<1>8. ASSUME NEW s \in Sessions, Summarized(s) PROVE TypeInv'
  <2>1. hist' \in [Sessions -> Seq(Messages)] /\ summary' \in [Sessions -> SummaryRec]
    BY <1>8, SummarizedFacts
  <2>2. crowded' \subseteq 1..begun'
    <3>1. \A v \in Worker : turn[v].pc # "idle" => turn[v].id \in 1..begun
      BY <1>t DEF TurnBounds
    <3>2. IdsOf(Active(s)) \subseteq 1..begun /\ crowded \subseteq 1..begun
      BY <3>1 DEF IdsOf, Active, TypeInv
    <3>3. crowded' = crowded \cup IdsOf(Active(s)) /\ begun' = begun
      BY <1>8 DEF Summarized
    <3> QED BY <3>2, <3>3
  <2> QED BY <2>1, <2>2, <1>8 DEF Summarized, TypeInv, TurnBounds
<1>9. CASE ReloadConfig
  BY <1>9, <1>t, <1>w DEF ReloadConfig, TypeInv, TurnBounds
<1>a. CASE CloseProvider
  BY <1>a, <1>t, <1>w DEF CloseProvider, TypeInv, TurnBounds
<1>b. CASE UNCHANGED turnVars
  BY <1>b DEF turnVars, TypeInv, TurnBounds
<1> QED BY <1>1, <1>2, <1>3, <1>4, <1>5, <1>6, <1>7, <1>8, <1>9, <1>a, <1>b DEF TurnNext

-----------------------------------------------------------------------------
(***************************************************************************)
(* The results of tool calls.                                              *)
(***************************************************************************)
\* The turn t is running the calls that m records.
Pending(t, m) == t.pc = "tools" /\ t.id = m.turn /\ t.iter = m.at[1]

\* The first n results of the calls at h[i] lie behind them, in the order of the calls.
Results(h, m, n)  == {j \in DOMAIN h : h[j] = Message("tool", m.turn, <<m.at[1], n>>)}
Answered(h, i, n) ==
    \A k \in 1..n : /\ \E j \in Results(h, h[i], k) : i < j
                    /\ k > 1 => \A a \in Results(h, h[i], k - 1), b \in Results(h, h[i], k) : a < b

\* What a message m of session s says about a turn t: turns are numbered as they begin, they
\* save to their own session, and only what they have asked for and done.
Fine(s, m, t, b) ==
    /\ m.turn <= b
    /\ (t.pc # "idle" /\ m.turn = t.id) =>
          /\ SessionOf(t) = s
          /\ m.role \in {"calls", "tool"} => /\ m.at[1] <= t.iter
                                             /\ t.pc \in {"model", "compress"} => m.at[1] < t.iter
          /\ (t.pc = "tools" /\ m.role = "tool" /\ m.at[1] = t.iter) => m.at[2] <= t.saved

CallOk(h, i, ts) ==
    /\ \A w \in Worker : Pending(ts[w], h[i]) =>
          h[i].at[2] = Len(ts[w].calls) /\ Answered(h, i, ts[w].saved)
    /\ (\A w \in Worker : ~Pending(ts[w], h[i])) => Answered(h, i, h[i].at[2])

DistinctInv == \A v, w \in Worker : (v # w /\ turn[v].pc # "idle" /\ turn[w].pc # "idle") => turn[v].id # turn[w].id
FineInv == \A s \in Sessions \ squeezed : \A i \in DOMAIN hist[s] : \A w \in Worker : Fine(s, hist[s][i], turn[w], begun)
CallInv == \A s \in Sessions \ squeezed : \A i \in DOMAIN hist[s] : hist[s][i].role = "calls" => CallOk(hist[s], i, turn)
HistoryInv == DistinctInv /\ FineInv /\ CallInv

LEMMA AnsweredAppend ==
  ASSUME NEW h \in Seq(Messages), NEW i \in DOMAIN h, NEW m \in Messages, NEW n \in Nat, Answered(h, i, n),
         \A k \in 1..n : m # Message("tool", h[i].turn, <<h[i].at[1], k>>)
  PROVE  Answered(Append(h, m), i, n)
<1> DEFINE g == Append(h, m)
<1>1. g[i] = h[i] /\ DOMAIN h \subseteq DOMAIN g /\ DOMAIN g = 1..(Len(h) + 1) /\ DOMAIN h = 1..Len(h) /\ Len(h) \in Nat
      /\ g[Len(h) + 1] = m /\ \A j \in DOMAIN h : g[j] = h[j]
  OBVIOUS
<1> HIDE DEF g
<1>2. ASSUME NEW k \in 1..n PROVE Results(g, g[i], k) = Results(h, h[i], k)
  BY <1>1, <1>2 DEF Results
<1>3. ASSUME NEW k \in 1..n, k > 1 PROVE k - 1 \in 1..n
  BY <1>3
<1>4. Answered(g, i, n)
  BY <1>1, <1>2, <1>3 DEF Answered
<1> QED BY <1>4 DEF g

LEMMA AnsweredNext ==
  ASSUME NEW h \in Seq(Messages), NEW i \in DOMAIN h, NEW n \in Nat, Answered(h, i, n), Results(h, h[i], n + 1) = {}
  PROVE  Answered(Append(h, Message("tool", h[i].turn, <<h[i].at[1], n + 1>>)), i, n + 1)
<1> DEFINE m == Message("tool", h[i].turn, <<h[i].at[1], n + 1>>)
           g == Append(h, m)
<1>0. Len(h) \in Nat /\ DOMAIN h = 1..Len(h) /\ i \in 1..Len(h) /\ i \in Nat
  OBVIOUS
<1>1. g[i] = h[i] /\ DOMAIN g = 1..(Len(h) + 1)
      /\ g[Len(h) + 1] = m /\ \A j \in DOMAIN h : g[j] = h[j]
  OBVIOUS
<1>2. \A k \in 1..n : Message("tool", h[i].turn, <<h[i].at[1], k>>) # m
  BY DEF Message
<1> HIDE DEF g, m
<1>3. ASSUME NEW k \in 1..n PROVE Results(g, g[i], k) = Results(h, h[i], k)
  BY <1>0, <1>1, <1>2, <1>3 DEF Results
<1>4. Results(g, g[i], n + 1) = {Len(h) + 1}
  <2>1. \A j \in DOMAIN h : h[j] # m
    BY DEF Results, m
  <2>2. Results(g, g[i], n + 1) = {j \in DOMAIN g : g[j] = m}
    BY <1>1 DEF Results, m
  <2> QED BY <1>0, <1>1, <2>1, <2>2
<1>5. \A k \in 1..n : Results(h, h[i], k) \subseteq DOMAIN h
  BY DEF Results
<1>6. ASSUME NEW k \in 1..(n + 1)
      PROVE  /\ \E j \in Results(g, g[i], k) : i < j
             /\ k > 1 => \A a \in Results(g, g[i], k - 1), b \in Results(g, g[i], k) : a < b
  <2>1. CASE k \in 1..n
    <3>1. k > 1 => k - 1 \in 1..n BY <2>1
    <3> QED BY <2>1, <3>1, <1>3 DEF Answered
  <2>2. CASE k = n + 1
    <3>1. \E j \in Results(g, g[i], k) : i < j
      <4>1. Len(h) + 1 \in Results(g, g[i], k) /\ i < Len(h) + 1
        BY <2>2, <1>0, <1>4
      <4> QED BY <4>1
    <3>2. ASSUME k > 1, NEW a \in Results(g, g[i], k - 1), NEW b \in Results(g, g[i], k) PROVE a < b
      <4>1. k - 1 = n /\ n \in 1..n BY <2>2, <3>2
      <4>2. a \in DOMAIN h BY <4>1, <1>3, <1>5, <3>2
      <4>3. b = Len(h) + 1 BY <2>2, <1>4, <3>2
      <4> QED BY <4>2, <4>3, <1>0
    <3> QED BY <3>1, <3>2
  <2> QED BY <2>1, <2>2
<1>7. Answered(g, i, n + 1)
  BY <1>6 DEF Answered
<1> QED BY <1>7 DEF g, m

\* A cut history keeps what lies behind the cut.
LEMMA TailFacts ==
  ASSUME NEW S, NEW h \in Seq(S), NEW d \in 0..Len(h)
  PROVE  LET g == SubSeq(h, d + 1, Len(h)) IN
         /\ g \in Seq(S) /\ DOMAIN g = 1..(Len(h) - d) /\ \A j \in DOMAIN g : j + d \in DOMAIN h /\ g[j] = h[j + d]
  OBVIOUS

LEMMA AnsweredTail ==
  ASSUME NEW h \in Seq(Messages), NEW d \in 0..Len(h), NEW i \in DOMAIN SubSeq(h, d + 1, Len(h)), NEW n \in Nat, Answered(h, i + d, n)
  PROVE  Answered(SubSeq(h, d + 1, Len(h)), i, n)
<1> DEFINE g == SubSeq(h, d + 1, Len(h))
<1>1. /\ g \in Seq(Messages) /\ DOMAIN g = 1..(Len(h) - d) /\ \A j \in DOMAIN g : j + d \in DOMAIN h /\ g[j] = h[j + d]
      /\ Len(h) \in Nat /\ DOMAIN h = 1..Len(h)
  BY TailFacts
<1> HIDE DEF g
<1>2. i \in DOMAIN g /\ i \in Nat /\ g[i] = h[i + d]
  BY <1>1 DEF g
<1>3. ASSUME NEW k, NEW j \in Results(g, g[i], k) PROVE j \in Nat /\ j + d \in Results(h, h[i + d], k)
  BY <1>1, <1>2, <1>3 DEF Results
<1>4. ASSUME NEW k, NEW j \in Results(h, h[i + d], k), i + d < j PROVE j \in Nat /\ j - d \in Results(g, g[i], k)
  <2>1. j \in DOMAIN h /\ j \in Nat /\ j - d \in 1..(Len(h) - d)
    BY <1>1, <1>2, <1>4 DEF Results
  <2>2. j - d \in DOMAIN g /\ g[j - d] = h[j]
    BY <1>1, <2>1
  <2> QED BY <2>1, <2>2, <1>2, <1>4 DEF Results
<1>5. ASSUME NEW k \in 1..n
      PROVE  /\ \E j \in Results(g, g[i], k) : i < j
             /\ k > 1 => \A a \in Results(g, g[i], k - 1), b \in Results(g, g[i], k) : a < b
  <2>1. PICK j \in Results(h, h[i + d], k) : i + d < j
    BY DEF Answered
  <2>2. j - d \in Results(g, g[i], k) /\ i < j - d
    BY <2>1, <1>2, <1>4
  <2>3. ASSUME k > 1, NEW a \in Results(g, g[i], k - 1), NEW b \in Results(g, g[i], k) PROVE a < b
    <3>1. a + d < b + d /\ a \in Nat /\ b \in Nat
      BY <1>3, <2>3 DEF Answered
    <3> QED BY <3>1
  <2> QED BY <2>2, <2>3
<1>6. Answered(g, i, n)
  BY <1>5 DEF Answered
<1> QED BY <1>6 DEF g

-----------------------------------------------------------------------------
\* How a turn t may go on as u in a step in which it saves nothing.
GoesOn(t, u) ==
    /\ t.pc # "idle" /\ u.pc # "idle" /\ u.id = t.id /\ SessionOf(u) = SessionOf(t)
    /\ \/ u.pc = t.pc /\ u.iter = t.iter /\ u.saved = t.saved /\ u.calls = t.calls
       \/ /\ t.pc # "tools" /\ u.pc # "tools" /\ u.iter = t.iter
          /\ u.pc \in {"model", "compress"} => t.pc \in {"model", "compress"}
       \/ /\ t.pc = "tools" /\ u.pc # "tools" /\ t.saved = Len(t.calls) /\ u.iter >= t.iter
          /\ u.pc \in {"model", "compress"} => u.iter > t.iter
Rests(t, u)  == t.pc # "tools" /\ u.pc = "idle"
Begins(t, u, b, c) == t.pc = "idle" /\ u.pc \in {"model", "respond"} /\ u.id = b + 1 /\ c = b + 1
\* How a turn t may go on as u in a step in which it saves m.
Asks(t, u, m) ==
    /\ t.pc = "model" /\ u.pc = "tools" /\ u.id = t.id /\ SessionOf(u) = SessionOf(t) /\ u.iter = t.iter /\ u.saved = 0
    /\ m = Message("calls", t.id, <<t.iter, Len(u.calls)>>)
Stores(t, u, m) ==
    /\ t.pc = "tools" /\ u.pc = "tools" /\ u.id = t.id /\ SessionOf(u) = SessionOf(t) /\ u.iter = t.iter
    /\ u.calls = t.calls /\ u.saved = t.saved + 1
    /\ m = Message("tool", t.id, <<t.iter, t.saved + 1>>)
Talks(t, u, m, b, c) == /\ GoesOn(t, u) \/ Begins(t, u, b, c)
                        /\ m.turn = u.id /\ m.role \in {"user", "assistant"}

\* What was fine stays so: messages that are there already fit every turn, however it goes on.
LEMMA FineStep ==
  ASSUME NEW s \in Sessions, NEW m \in Messages, NEW t \in TurnRec, NEW u \in TurnRec, NEW k,
         NEW b \in Nat, NEW c \in Nat, b <= c, Fine(s, m, t, b),
         GoesOn(t, u) \/ Rests(t, u) \/ Begins(t, u, b, c) \/ Asks(t, u, k) \/ Stores(t, u, k)
  PROVE  Fine(s, m, u, c)
<1>1. /\ m.turn \in Nat /\ m.at[1] \in Nat /\ m.at[2] \in Nat
      /\ t.iter \in Nat /\ u.iter \in Nat /\ t.saved \in Nat /\ u.saved \in Nat
  BY DEF Messages, TurnRec
<1>2. m.turn <= b
  BY DEF Fine
<1>3. CASE GoesOn(t, u)
  BY <1>1, <1>2, <1>3 DEF GoesOn, Fine
<1>4. CASE Rests(t, u)
  BY <1>1, <1>2, <1>4 DEF Rests, Fine
<1>5. CASE Begins(t, u, b, c)
  BY <1>1, <1>2, <1>5 DEF Begins, Fine
<1>6. CASE Asks(t, u, k)
  BY <1>1, <1>2, <1>6 DEF Asks, Fine
<1>7. CASE Stores(t, u, k)
  BY <1>1, <1>2, <1>7 DEF Stores, Fine
<1> QED BY <1>3, <1>4, <1>5, <1>6, <1>7

\* A turn goes on with the calls that it was running, or it has saved all their results.
LEMMA PendingStep ==
  ASSUME NEW m \in Messages, NEW t \in TurnRec, NEW u \in TurnRec, NEW b \in Nat, NEW c \in Nat,
         GoesOn(t, u) \/ Rests(t, u) \/ Begins(t, u, b, c)
  PROVE  /\ Pending(u, m) => Pending(t, m) /\ u.calls = t.calls /\ u.saved = t.saved
         /\ Pending(t, m) /\ ~Pending(u, m) => t.saved = Len(t.calls)
<1>1. /\ m.turn \in Nat /\ m.at[1] \in Nat /\ m.at[2] \in Nat
      /\ t.iter \in Nat /\ u.iter \in Nat /\ t.saved \in Nat /\ u.saved \in Nat
  BY DEF Messages, TurnRec
<1>3. CASE GoesOn(t, u)
  BY <1>1, <1>3 DEF GoesOn, Pending
<1>4. CASE Rests(t, u)
  BY <1>4 DEF Rests, Pending
<1>5. CASE Begins(t, u, b, c)
  BY <1>5 DEF Begins, Pending
<1> QED BY <1>3, <1>4, <1>5

\* A step in which nothing new is saved, and histories are at most cut.
LEMMA HistoryCarry ==
  ASSUME TypeInv, TypeInv', HistoryInv, squeezed \subseteq squeezed', begun <= begun',
         \A s \in Sessions \ squeezed' :
             hist'[s] = hist[s] \/ \E d \in 0..Len(hist[s]) : hist'[s] = SubSeq(hist[s], d + 1, Len(hist[s])),
         NEW w \in Worker, \A v \in Worker : GoesOn(turn[v], turn'[v]) \/ Rests(turn[v], turn'[v]) \/ Begins(turn[v], turn'[v], begun, begun'),
         \A v \in Worker : v # w => ~Begins(turn[v], turn'[v], begun, begun')
  PROVE  HistoryInv'
<1>1. /\ \A v \in Worker : turn[v] \in TurnRec /\ turn'[v] \in TurnRec
      /\ \A v \in Worker : turn[v].pc # "idle" => turn[v].id <= begun
      /\ begun \in Nat /\ begun' \in Nat /\ hist \in [Sessions -> Seq(Messages)]
  BY DEF TypeInv, TurnBounds
<1>2. DistinctInv'
  <2> SUFFICES ASSUME NEW a \in Worker, NEW b \in Worker, a # b, turn'[a].pc # "idle", turn'[b].pc # "idle"
               PROVE  turn'[a].id # turn'[b].id
    BY DEF DistinctInv
  <2>1. \A v \in {a, b} : GoesOn(turn[v], turn'[v]) \/ Begins(turn[v], turn'[v], begun, begun')
    BY DEF Rests
  <2>2. \A v \in {a, b} : \/ turn[v].pc # "idle" /\ turn'[v].id = turn[v].id /\ turn[v].id <= begun
                          \/ turn'[v].id = begun + 1 /\ v = w
    BY <2>1, <1>1 DEF GoesOn, Begins
  <2>3. turn[a].pc # "idle" /\ turn[b].pc # "idle" => turn[a].id # turn[b].id
    BY DEF HistoryInv, DistinctInv
  <2> QED BY <2>2, <2>3, <1>1
\* Every message of a history that is not rewritten was there before, with all that follows it.
<1>3. ASSUME NEW s \in Sessions \ squeezed', NEW i \in DOMAIN hist'[s]
      PROVE  \E j \in DOMAIN hist[s] : /\ hist'[s][i] = hist[s][j] /\ hist[s][j] \in Messages
                                       /\ \A n \in Nat : Answered(hist[s], j, n) => Answered(hist'[s], i, n)
  <2>0. hist[s] \in Seq(Messages)
    BY <1>1
  <2>1. CASE hist'[s] = hist[s]
    BY <2>0, <2>1, <1>3
  <2>2. CASE \E d \in 0..Len(hist[s]) : hist'[s] = SubSeq(hist[s], d + 1, Len(hist[s]))
    <3>1. PICK d \in 0..Len(hist[s]) : hist'[s] = SubSeq(hist[s], d + 1, Len(hist[s]))
      BY <2>2
    <3>2. i + d \in DOMAIN hist[s] /\ hist'[s][i] = hist[s][i + d]
      BY <3>1, <2>0, <1>3, TailFacts
    <3>3. \A n \in Nat : Answered(hist[s], i + d, n) => Answered(hist'[s], i, n)
      BY <3>1, <2>0, <1>3, AnsweredTail
    <3>4. hist[s][i + d] \in Messages
      BY <3>2, <2>0
    <3> QED BY <3>2, <3>3, <3>4
  <2> QED BY <2>1, <2>2
<1>4. FineInv'
  <2> SUFFICES ASSUME NEW s \in Sessions \ squeezed', NEW i \in DOMAIN hist'[s], NEW v \in Worker
               PROVE  Fine(s, hist'[s][i], turn'[v], begun')
    BY DEF FineInv
  <2>1. PICK j \in DOMAIN hist[s] : hist'[s][i] = hist[s][j] /\ hist[s][j] \in Messages
    BY <1>3
  <2>2. Fine(s, hist[s][j], turn[v], begun)
    BY DEF HistoryInv, FineInv
  <2> QED BY <2>1, <2>2, <1>1, FineStep
<1>5. CallInv'
  <2> SUFFICES ASSUME NEW s \in Sessions \ squeezed', NEW i \in DOMAIN hist'[s], hist'[s][i].role = "calls"
               PROVE  CallOk(hist'[s], i, turn')
    BY DEF CallInv
  <2>1. PICK j \in DOMAIN hist[s] : /\ hist'[s][i] = hist[s][j] /\ hist[s][j] \in Messages
                                     /\ \A n \in Nat : Answered(hist[s], j, n) => Answered(hist'[s], i, n)
    BY <1>3
  <2> DEFINE m == hist[s][j]
  <2>2. m \in Messages /\ m.role = "calls" /\ m.at[2] \in Nat /\ CallOk(hist[s], j, turn)
    BY <2>1 DEF HistoryInv, CallInv, Messages
  <2>3. \A v \in Worker : Fine(s, m, turn[v], begun)
    BY DEF HistoryInv, FineInv
  <2>4. ASSUME NEW v \in Worker
        PROVE  /\ Pending(turn'[v], m) => Pending(turn[v], m) /\ turn'[v].calls = turn[v].calls /\ turn'[v].saved = turn[v].saved
               /\ Pending(turn[v], m) /\ ~Pending(turn'[v], m) => turn[v].saved = Len(turn[v].calls)
    <3>1. GoesOn(turn[v], turn'[v]) \/ Rests(turn[v], turn'[v]) \/ Begins(turn[v], turn'[v], begun, begun')
      OBVIOUS
    <3> HIDE DEF m
    <3> QED BY <1>1, <2>2, <3>1, PendingStep
  <2>5. \A v \in Worker : turn[v].saved \in Nat
    BY <1>1 DEF TurnRec
  <2>6. ASSUME NEW v \in Worker, Pending(turn'[v], m)
        PROVE  m.at[2] = Len(turn'[v].calls) /\ Answered(hist'[s], i, turn'[v].saved)
    BY <2>1, <2>2, <2>4, <2>5, <2>6 DEF CallOk
  <2>7. ASSUME \A v \in Worker : ~Pending(turn'[v], m)
        PROVE  Answered(hist'[s], i, m.at[2])
    <3>1. CASE \E v \in Worker : Pending(turn[v], m)
      <4>1. PICK v \in Worker : Pending(turn[v], m)
        BY <3>1
      <4>2. turn[v].saved = m.at[2] /\ Answered(hist[s], j, turn[v].saved)
        BY <4>1, <2>2, <2>4, <2>7 DEF CallOk
      <4> QED BY <4>2, <2>1, <2>2
    <3>2. CASE \A v \in Worker : ~Pending(turn[v], m)
      BY <3>2, <2>1, <2>2 DEF CallOk
    <3> QED BY <3>1, <3>2
  <2> QED BY <2>1, <2>6, <2>7 DEF CallOk
<1> QED BY <1>2, <1>4, <1>5 DEF HistoryInv

\* A step in which one turn saves one message.
LEMMA HistorySave ==
  ASSUME TypeInv, TypeInv', HistoryInv, squeezed' = squeezed, begun <= begun',
         NEW w \in Worker, NEW z \in Sessions, NEW m \in Messages,
         hist'[z] = Append(hist[z], m), \A s \in Sessions : s # z => hist'[s] = hist[s],
         SessionOf(turn'[w]) = z, turn'[w].pc # "idle",
         Asks(turn[w], turn'[w], m) \/ Stores(turn[w], turn'[w], m) \/ Talks(turn[w], turn'[w], m, begun, begun'),
         \A v \in Worker : v # w => GoesOn(turn[v], turn'[v]) \/ Rests(turn[v], turn'[v])
  PROVE  HistoryInv'
<1> DEFINE t == turn[w]
           u == turn'[w]
<1>0. /\ \A v \in Worker : turn[v] \in TurnRec /\ turn'[v] \in TurnRec
      /\ begun \in Nat /\ begun' \in Nat /\ hist \in [Sessions -> Seq(Messages)]
      /\ \A v \in Worker : TurnBounds(turn[v]) /\ TurnBounds(turn[v])'
  BY DEF TypeInv
<1>1. /\ \A v \in Worker : /\ turn[v] \in TurnRec /\ turn'[v] \in TurnRec
                           /\ turn[v].saved \in Nat /\ turn[v].id \in Nat
                           /\ turn[v].pc # "idle" => turn[v].id <= begun
                           /\ turn'[v].pc # "idle" => turn'[v].id <= begun'
      /\ begun \in Nat /\ begun' \in Nat /\ hist \in [Sessions -> Seq(Messages)]
  <2>1. ASSUME NEW v \in Worker
        PROVE  /\ turn[v].pc # "idle" => turn[v].id <= begun
               /\ turn'[v].pc # "idle" => turn'[v].id <= begun'
    <3>1. TurnBounds(turn[v]) /\ TurnBounds(turn[v])'
      BY <1>0
    <3> QED BY <3>1, <1>0 DEF TurnBounds
  <2>2. ASSUME NEW v \in Worker PROVE turn[v].saved \in Nat /\ turn[v].id \in Nat
    BY <1>0 DEF TurnRec
  <2> QED BY <1>0, <2>1, <2>2
<1>a. Asks(t, u, m) \/ Stores(t, u, m) \/ Talks(t, u, m, begun, begun')
  OBVIOUS
<1>b. GoesOn(t, u) \/ Begins(t, u, begun, begun') \/ Asks(t, u, m) \/ Stores(t, u, m)
  BY <1>a DEF Talks
<1>m. m.turn = u.id /\ ((m.turn = t.id /\ t.pc # "idle") \/ (m.turn = begun + 1 /\ t.pc = "idle"))
  BY <1>a DEF Asks, Stores, Talks, GoesOn, Begins, Message
<1>2. DistinctInv'
  <2> SUFFICES ASSUME NEW a \in Worker, NEW b \in Worker, a # b, turn'[a].pc # "idle", turn'[b].pc # "idle"
               PROVE  turn'[a].id # turn'[b].id
    BY DEF DistinctInv
  <2>1. \A v \in Worker : v # w /\ turn'[v].pc # "idle" => turn[v].pc # "idle" /\ turn'[v].id = turn[v].id /\ turn[v].id <= begun
    BY <1>1 DEF Rests, GoesOn
  <2>2. (t.pc # "idle" /\ u.id = t.id) \/ u.id = begun + 1
    BY <1>m
  <2>3. \A v \in Worker : v # w /\ turn[v].pc # "idle" /\ t.pc # "idle" => turn[v].id # t.id
    BY DEF HistoryInv, DistinctInv
  <2>4. \A v \in Worker : v # w /\ turn'[v].pc # "idle" => turn'[v].id # u.id
    BY <1>1, <2>1, <2>2, <2>3
  <2>5. \A v \in Worker : turn[v].pc # "idle" /\ turn'[v].pc # "idle" /\ v # w => turn'[v].id = turn[v].id
    BY <2>1
  <2>6. \A v \in Worker : turn[v].pc # "idle" /\ turn[a].pc # "idle" /\ v # a => turn[v].id # turn[a].id
    BY DEF HistoryInv, DistinctInv
  <2> QED BY <2>1, <2>4, <2>6
\* The new message belongs to a turn of its own number.
<1>3. \A v \in Worker : v # w => ~(turn'[v].pc # "idle" /\ m.turn = turn'[v].id)
  BY <1>2, <1>m DEF DistinctInv
<1>4. /\ \A s \in Sessions : s # z => hist'[s] = hist[s]
      /\ hist[z] \in Seq(Messages) /\ Len(hist[z]) \in Nat /\ DOMAIN hist'[z] = DOMAIN hist[z] \cup {Len(hist[z]) + 1}
      /\ hist'[z][Len(hist[z]) + 1] = m /\ \A i \in DOMAIN hist[z] : hist'[z][i] = hist[z][i]
  BY <1>1
<1>5. FineInv'
  <2> SUFFICES ASSUME NEW s \in Sessions \ squeezed, NEW i \in DOMAIN hist'[s], NEW v \in Worker
               PROVE  Fine(s, hist'[s][i], turn'[v], begun')
    BY DEF FineInv
  <2>1. CASE i \in DOMAIN hist[s] /\ hist'[s][i] = hist[s][i]
    <3>1. Fine(s, hist[s][i], turn[v], begun) /\ hist[s][i] \in Messages
      BY <1>1, <2>1 DEF HistoryInv, FineInv
    <3>2. GoesOn(turn[v], turn'[v]) \/ Rests(turn[v], turn'[v]) \/ Begins(turn[v], turn'[v], begun, begun')
             \/ Asks(turn[v], turn'[v], m) \/ Stores(turn[v], turn'[v], m)
      BY <1>b
    <3> QED BY <1>1, <2>1, <3>1, <3>2, FineStep
  <2>2. CASE s = z /\ hist'[s][i] = m
    <3>1. CASE v # w
      <4>1. m.turn <= begun'
        BY <1>1, <1>m
      <4> QED BY <2>2, <3>1, <4>1, <1>3 DEF Fine
    <3>2. CASE v = w
      <4>1. m.turn <= begun' /\ SessionOf(u) = s
        BY <1>1, <1>m, <2>2
      <4>2. m.role \in {"calls", "tool"} => m.at[1] = u.iter /\ u.pc = "tools" /\ (m.role = "tool" => m.at[2] = u.saved)
        BY <1>a DEF Asks, Stores, Talks, Message
      <4>3. u.iter \in Nat /\ u.saved \in Nat
        BY <1>1 DEF TurnRec
      <4> QED BY <2>2, <3>2, <4>1, <4>2, <4>3 DEF Fine
    <3> QED BY <3>1, <3>2
  <2> QED BY <2>1, <2>2, <1>4
<1>6. CallInv'
  <2> SUFFICES ASSUME NEW s \in Sessions \ squeezed, NEW i \in DOMAIN hist'[s], hist'[s][i].role = "calls"
               PROVE  CallOk(hist'[s], i, turn')
    BY DEF CallInv
  <2>1. CASE i \in DOMAIN hist[s] /\ hist'[s][i] = hist[s][i]
    <3> DEFINE c == hist[s][i]
    <3>1. hist[s] \in Seq(Messages) /\ c \in Messages /\ c.role = "calls" /\ c.at[2] \in Nat /\ CallOk(hist[s], i, turn)
      <4>1. hist[s] \in Seq(Messages) /\ c \in Messages /\ c.role = "calls"
        BY <1>1, <2>1
      <4>2. CallOk(hist[s], i, turn)
        BY <2>1, <4>1 DEF HistoryInv, CallInv
      <4> QED BY <4>1, <4>2 DEF Messages
    <3>2. \A v \in Worker : Fine(s, c, turn[v], begun)
      BY <2>1 DEF HistoryInv, FineInv
    <3>3. CASE Stores(t, u, m) /\ Pending(t, c)
      <4>1. s = z /\ c.turn = t.id /\ c.at[1] = t.iter /\ Pending(u, c) /\ u.saved = t.saved + 1 /\ u.calls = t.calls
            /\ m = Message("tool", c.turn, <<c.at[1], t.saved + 1>>)
        BY <3>2, <3>3 DEF Stores, Pending, Fine
      <4>2. c.at[2] = Len(u.calls) /\ Answered(hist[s], i, t.saved)
        BY <3>1, <3>3, <4>1 DEF CallOk
      <4>3. Results(hist[s], c, t.saved + 1) = {}
        <5> SUFFICES ASSUME NEW j \in DOMAIN hist[s], hist[s][j] = m PROVE FALSE
          BY <4>1 DEF Results
        <5>1. Fine(s, m, t, begun)
          BY DEF HistoryInv, FineInv
        <5>2. m.role = "tool" /\ m.at[1] = t.iter /\ m.at[2] = t.saved + 1 /\ m.turn = t.id /\ t.pc = "tools"
          BY <3>3 DEF Stores, Message
        <5>3. t.saved \in Nat
          BY <1>1
        <5> QED BY <5>1, <5>2, <5>3 DEF Fine
      <4>4. Answered(hist'[s], i, u.saved)
        <5>1. hist'[s] = Append(hist[s], Message("tool", hist[s][i].turn, <<hist[s][i].at[1], t.saved + 1>>))
          BY <4>1
        <5>2. t.saved \in Nat
          BY <1>1
        <5>3. Answered(Append(hist[s], Message("tool", hist[s][i].turn, <<hist[s][i].at[1], t.saved + 1>>)), i, t.saved + 1)
          BY <2>1, <3>1, <4>2, <4>3, <5>2, AnsweredNext
        <5> QED BY <4>1, <5>1, <5>3
      <4>5. \A v \in Worker : Pending(turn'[v], c) => v = w
        BY <1>3, <1>m, <4>1 DEF Pending
      <4> QED BY <2>1, <4>1, <4>2, <4>4, <4>5 DEF CallOk
    <3>4. CASE ~(Stores(t, u, m) /\ Pending(t, c))
      <4>1. ASSUME NEW n \in Nat, Answered(hist[s], i, n) PROVE Answered(hist'[s], i, n)
        <5>1. CASE s # z BY <1>4, <4>1, <5>1
        <5>2. CASE s = z
          <6>1. \A k : m # Message("tool", c.turn, <<c.at[1], k>>)
            BY <1>a, <3>4 DEF Stores, Asks, Talks, Pending, Message
          <6> QED BY <2>1, <3>1, <4>1, <5>2, <6>1, AnsweredAppend
        <5> QED BY <5>1, <5>2
      <4>2. ASSUME NEW v \in Worker
            PROVE  /\ Pending(turn'[v], c) => Pending(turn[v], c) /\ turn'[v].calls = turn[v].calls /\ turn'[v].saved = turn[v].saved
                   /\ Pending(turn[v], c) /\ ~Pending(turn'[v], c) => turn[v].saved = Len(turn[v].calls)
        <5>1. CASE GoesOn(turn[v], turn'[v]) \/ Rests(turn[v], turn'[v]) \/ Begins(turn[v], turn'[v], begun, begun')
          <6> HIDE DEF c
          <6> QED BY <1>1, <3>1, <5>1, PendingStep
        <5>2. CASE v = w /\ Asks(t, u, m)
          <6>1. /\ c.at[1] \in Nat /\ t.iter \in Nat
            BY <1>1, <3>1 DEF Messages, TurnRec
          <6> QED BY <3>1, <3>2, <5>2, <6>1 DEF Asks, Fine, Pending
        <5>3. CASE v = w /\ Stores(t, u, m)
          BY <3>4, <5>3 DEF Stores, Pending
        <5> QED BY <1>b, <5>1, <5>2, <5>3
      <4>3. ASSUME NEW v \in Worker, Pending(turn'[v], c)
            PROVE  c.at[2] = Len(turn'[v].calls) /\ Answered(hist'[s], i, turn'[v].saved)
        <5>1. Pending(turn[v], c) /\ turn'[v].calls = turn[v].calls /\ turn'[v].saved = turn[v].saved
          BY <4>2, <4>3
        <5>2. c.at[2] = Len(turn[v].calls) /\ Answered(hist[s], i, turn[v].saved) /\ turn[v].saved \in Nat
          BY <1>1, <3>1, <5>1 DEF CallOk
        <5> QED BY <4>1, <5>1, <5>2
      <4>4. ASSUME \A v \in Worker : ~Pending(turn'[v], c)
            PROVE  Answered(hist'[s], i, c.at[2])
        <5>1. CASE \E v \in Worker : Pending(turn[v], c)
          <6>1. PICK v \in Worker : Pending(turn[v], c)
            BY <5>1
          <6>2. turn[v].saved = c.at[2] /\ Answered(hist[s], i, turn[v].saved)
            BY <6>1, <3>1, <4>2, <4>4 DEF CallOk
          <6> QED BY <6>2, <3>1, <4>1
        <5>2. CASE \A v \in Worker : ~Pending(turn[v], c)
          BY <5>2, <3>1, <4>1 DEF CallOk
        <5> QED BY <5>1, <5>2
      <4> QED BY <2>1, <4>3, <4>4 DEF CallOk
    <3> QED BY <3>3, <3>4
  <2>2. CASE s = z /\ hist'[s][i] = m
    <3>1. Asks(t, u, m)
      BY <1>a, <2>2 DEF Stores, Talks, Message
    <3>2. Pending(u, m) /\ m.at[2] = Len(u.calls) /\ u.saved = 0
      BY <3>1 DEF Asks, Pending, Message
    <3>3. \A v \in Worker : Pending(turn'[v], m) => v = w
      BY <1>3 DEF Pending
    <3>4. Answered(hist'[s], i, 0)
      BY DEF Answered
    <3> QED BY <2>2, <3>2, <3>3, <3>4 DEF CallOk
  <2> QED BY <2>1, <2>2, <1>4
<1> QED BY <1>2, <1>5, <1>6 DEF HistoryInv

-----------------------------------------------------------------------------
(***************************************************************************)
(* What the actions of a turn do to it, field by field.                    *)
(***************************************************************************)
\* u is the turn t further on: of the same number, kind and agent.
SameTurn(t, u) == /\ u.id = t.id /\ u.kind = t.kind /\ u.agent = t.agent /\ u.heard = t.heard
                  /\ t.pc # "idle" /\ u.pc # "idle" /\ SessionOf(u) = SessionOf(t)
SameRound(t, u) == SameTurn(t, u) /\ u.iter = t.iter /\ u.saved = t.saved /\ u.calls = t.calls

Calm(w)   == turn[w].pc = "model" /\ turn'[w].pc \in {"model", "answer", "failed"} /\ SameRound(turn[w], turn'[w])
             /\ turn'[w].asked = turn[w].asked /\ hist' = hist /\ summary' = summary /\ squeezed' = squeezed
Reads(w)  == turn[w].pc = "model" /\ turn'[w].pc = "compress" /\ SameRound(turn[w], turn'[w])
             /\ turn'[w].asked = turn[w].asked /\ turn'[w].read = hist[SessionOf(turn[w])]
             /\ hist' = hist /\ summary' = summary /\ squeezed' = squeezed
Writes(w) ==
    LET t   == turn[w]
        s   == SessionOf(t)
        cut == Len(t.read) > 4
        now == IF cut THEN Compressed(t.read) ELSE hist[s]
    IN  /\ t.pc = "compress" /\ turn'[w].pc = "model" /\ SameRound(t, turn'[w])
        /\ turn'[w].asked = (\E i \in DOMAIN now : now[i] = Message("user", t.id, <<0, 0>>))
        /\ hist' = [hist EXCEPT ![s] = now]
        /\ squeezed' = (IF cut THEN squeezed \cup {s} ELSE squeezed)
        /\ summary' = (IF cut /\ t.old /\ summary[s].on THEN [summary EXCEPT ![s].added = @ + Len(now)] ELSE summary)
Called(w) == \E m \in Messages : /\ Asks(turn[w], turn'[w], m) /\ SameTurn(turn[w], turn'[w])
                                 /\ Save(SessionOf(turn[w]), m) /\ squeezed' = squeezed
Stored(w) == \E m \in Messages : /\ Stores(turn[w], turn'[w], m) /\ SameTurn(turn[w], turn'[w])
                                 /\ Save(SessionOf(turn[w]), m) /\ squeezed' = squeezed
Turns(w)  == /\ turn[w].pc = "tools" /\ turn'[w].pc \in {"model", "answer"} /\ SameTurn(turn[w], turn'[w])
             /\ turn[w].saved = Len(turn[w].calls) /\ turn'[w].iter >= turn[w].iter
             /\ turn'[w].pc = "model" => turn'[w].iter > turn[w].iter
             /\ hist' = hist /\ summary' = summary /\ squeezed' = squeezed

\* Every step of a turn is one of these.
LEMMA AdvanceFacts ==
  ASSUME TurnAssumption, TypeInv, NEW w \in Worker, Advance(w), ~Finish(w), ~RunTool(w), ~Respond(w)
  PROVE  /\ Calm(w) \/ Reads(w) \/ Writes(w) \/ Called(w) \/ Stored(w) \/ Turns(w)
         /\ \A v \in Worker : v # w => turn'[v] = turn[v]
         /\ UNCHANGED <<begun, sent, ended, crowded>>
<1> USE DEF bus, agentState, background, counts, ghosts
<1> DEFINE t == turn[w]
           s == SessionOf(t)
<1>t. /\ turn \in [Worker -> TurnRec] /\ t \in TurnRec /\ s \in Sessions /\ hist \in [Sessions -> Seq(Messages)]
      /\ TurnBounds(t) /\ t.id \in Nat /\ t.iter \in Nat /\ t.saved \in Nat /\ t.calls \in Seq({"message", "async", "plain"})
      /\ world.iterations \in Nat
  <2>1. turn \in [Worker -> TurnRec] /\ t \in TurnRec /\ hist \in [Sessions -> Seq(Messages)] /\ TurnBounds(t)
    BY DEF TypeInv
  <2>2. world.iterations \in Nat
    BY WorldFacts DEF TypeInv
  <2> HIDE DEF t
  <2> QED BY <2>1, <2>2, SessionFact, TurnFields
<1>1. CASE Answer(w)
  <2> DEFINE u == [t EXCEPT !.pc = "answer"]
  <2>1. turn' = [turn EXCEPT ![w] = u] BY <1>1 DEF Answer
  <2>2. turn'[w] = u /\ \A v \in Worker : v # w => turn'[v] = turn[v] BY <2>1, <1>t
  <2>3. /\ u.pc = "answer" /\ u.id = t.id /\ u.kind = t.kind /\ u.agent = t.agent /\ u.heard = t.heard
        /\ u.iter = t.iter /\ u.saved = t.saved /\ u.calls = t.calls /\ u.asked = t.asked
    BY <1>t DEF TurnRec
  <2>4. SessionOf(u) = s
    <3> HIDE DEF u
    <3> QED BY <2>3 DEF SessionOf
  <2> HIDE DEF u
  <2> QED BY <2>2, <2>3, <2>4, <1>1 DEF Answer, May, Calm, SameRound, SameTurn
<1>2. CASE Fail(w)
  <2> DEFINE u == [t EXCEPT !.pc = "failed"]
  <2>1. turn' = [turn EXCEPT ![w] = u] BY <1>2 DEF Fail
  <2>2. turn'[w] = u /\ \A v \in Worker : v # w => turn'[v] = turn[v] BY <2>1, <1>t
  <2>3. /\ u.pc = "failed" /\ u.id = t.id /\ u.kind = t.kind /\ u.agent = t.agent /\ u.heard = t.heard
        /\ u.iter = t.iter /\ u.saved = t.saved /\ u.calls = t.calls /\ u.asked = t.asked
    BY <1>t DEF TurnRec
  <2>4. SessionOf(u) = s
    <3> HIDE DEF u
    <3> QED BY <2>3 DEF SessionOf
  <2> HIDE DEF u
  <2> QED BY <2>2, <2>3, <2>4, <1>2 DEF Fail, Calm, SameRound, SameTurn
<1>3. CASE TimeOut(w)
  <2> DEFINE u == IF t.retry < MaxRetries THEN [t EXCEPT !.retry = @ + 1] ELSE [t EXCEPT !.pc = "failed"]
  <2>1. turn' = [turn EXCEPT ![w] = u] BY <1>3, <1>t DEF TimeOut
  <2>2. turn'[w] = u /\ \A v \in Worker : v # w => turn'[v] = turn[v] BY <2>1, <1>t
  <2>3. /\ u.pc \in {t.pc, "failed"} /\ u.id = t.id /\ u.kind = t.kind /\ u.agent = t.agent /\ u.heard = t.heard
        /\ u.iter = t.iter /\ u.saved = t.saved /\ u.calls = t.calls /\ u.asked = t.asked
    BY <1>t DEF TurnRec
  <2>4. SessionOf(u) = s
    <3> HIDE DEF u
    <3> QED BY <2>3 DEF SessionOf
  <2> HIDE DEF u
  <2> QED BY <2>2, <2>3, <2>4, <1>3 DEF TimeOut, May, Calm, SameRound, SameTurn
<1>4. CASE TooLong(w)
  <2> DEFINE h == hist[s]
             u == [t EXCEPT !.pc = "compress", !.read = h]
  <2>1. turn' = [turn EXCEPT ![w] = u] BY <1>4, <1>t DEF TooLong
  <2>2. turn'[w] = u /\ \A v \in Worker : v # w => turn'[v] = turn[v] BY <2>1, <1>t
  <2>3. /\ u.pc = "compress" /\ u.id = t.id /\ u.kind = t.kind /\ u.agent = t.agent /\ u.heard = t.heard
        /\ u.iter = t.iter /\ u.saved = t.saved /\ u.calls = t.calls /\ u.asked = t.asked /\ u.read = h
    <3> HIDE DEF h
    <3> QED BY <1>t DEF TurnRec
  <2>4. SessionOf(u) = s
    <3> HIDE DEF u
    <3> QED BY <2>3 DEF SessionOf
  <2> HIDE DEF u
  <2> QED BY <2>2, <2>3, <2>4, <1>4 DEF TooLong, May, Reads, SameRound, SameTurn
<1>5. CASE Compress(w)
  <2> DEFINE cut == Len(t.read) > 4
             now == IF cut THEN Compressed(t.read) ELSE hist[s]
             asked == \E i \in DOMAIN now : now[i] = Message("user", t.id, <<0, 0>>)
             u == [t EXCEPT !.pc = "model", !.read = <<>>, !.old = FALSE, !.retry = @ + 1, !.asked = asked]
  <2>1. turn' = [turn EXCEPT ![w] = u] BY <1>5, <1>t DEF Compress
  <2>2. turn'[w] = u /\ \A v \in Worker : v # w => turn'[v] = turn[v] BY <2>1, <1>t
  <2>3. /\ u.pc = "model" /\ u.id = t.id /\ u.kind = t.kind /\ u.agent = t.agent /\ u.heard = t.heard
        /\ u.iter = t.iter /\ u.saved = t.saved /\ u.calls = t.calls /\ u.asked = asked
    <3> HIDE DEF asked
    <3> QED BY <1>t DEF TurnRec
  <2>4. SessionOf(u) = s
    <3> HIDE DEF u
    <3> QED BY <2>3 DEF SessionOf
  <2> HIDE DEF u, asked
  <2>5. SameRound(t, turn'[w])
    BY <2>2, <2>3, <2>4, <1>5 DEF Compress, SameRound, SameTurn
  <2>6. Writes(w)
    BY <2>2, <2>3, <2>5, <1>5 DEF Compress, Writes, asked
  <2> QED BY <2>2, <2>6, <1>5 DEF Compress
<1>6. CASE AskTools(w)
  <2>1. PICK calls \in world.rounds : turn' = [turn EXCEPT ![w].pc = "tools", ![w].calls = calls]
    BY <1>6 DEF AskTools
  <2> DEFINE u == [t EXCEPT !.pc = "tools", !.calls = calls]
             m == Message("calls", t.id, <<t.iter, Len(turn'[w].calls)>>)
  <2>2. turn' = [turn EXCEPT ![w] = u] BY <2>1, <1>t
  <2>3. turn'[w] = u /\ \A v \in Worker : v # w => turn'[v] = turn[v] BY <2>2, <1>t
  <2>4. /\ u.pc = "tools" /\ u.id = t.id /\ u.kind = t.kind /\ u.agent = t.agent /\ u.heard = t.heard
        /\ u.iter = t.iter /\ u.saved = t.saved /\ u.calls = calls
    BY <1>t DEF TurnRec
  <2>5. SessionOf(u) = s
    <3> HIDE DEF u
    <3> QED BY <2>4 DEF SessionOf
  <2>6. t.pc = "model" /\ t.saved = 0
    BY <1>6, <1>t DEF AskTools, May, TurnBounds
  <2>7. m \in Messages
    <3>1. calls \in Seq({"message", "async", "plain"})
      BY WorldFacts DEF TypeInv
    <3>2. turn'[w].calls = calls
      BY <2>3, <2>4
    <3>3. Len(calls) \in Nat
      BY <3>1
    <3> QED BY <3>2, <3>3, <1>t, NewMessage
  <2>8. Save(s, m) /\ UNCHANGED <<begun, sent, ended, squeezed, crowded>>
    BY <1>6 DEF AskTools
  <2> HIDE DEF u
  <2>9. Asks(t, turn'[w], m) /\ SameTurn(t, turn'[w])
    BY <2>3, <2>4, <2>5, <2>6 DEF Asks, SameTurn
  <2> QED BY <2>3, <2>7, <2>8, <2>9 DEF Called
<1>7. CASE SaveResult(w)
  <2> DEFINE u == [t EXCEPT !.saved = @ + 1]
             m == Message("tool", t.id, <<t.iter, t.saved + 1>>)
  <2>2. turn' = [turn EXCEPT ![w] = u] BY <1>7 DEF SaveResult
  <2>3. turn'[w] = u /\ \A v \in Worker : v # w => turn'[v] = turn[v] BY <2>2, <1>t
  <2>4. /\ u.pc = t.pc /\ u.id = t.id /\ u.kind = t.kind /\ u.agent = t.agent /\ u.heard = t.heard
        /\ u.iter = t.iter /\ u.saved = t.saved + 1 /\ u.calls = t.calls
    BY <1>t DEF TurnRec
  <2>5. SessionOf(u) = s
    <3> HIDE DEF u
    <3> QED BY <2>4 DEF SessionOf
  <2>6. t.pc = "tools" /\ m \in Messages
    BY <1>7, <1>t, NewMessage DEF SaveResult
  <2>8. Save(s, m) /\ UNCHANGED <<begun, sent, ended, squeezed, crowded>>
    BY <1>7 DEF SaveResult
  <2> HIDE DEF u
  <2>9. Stores(t, turn'[w], m) /\ SameTurn(t, turn'[w])
    BY <2>3, <2>4, <2>5, <2>6 DEF Stores, SameTurn
  <2> QED BY <2>3, <2>6, <2>8, <2>9 DEF Stored
<1>8. CASE Iterate(w)
  <2> DEFINE last == t.iter = world.iterations
             u == [t EXCEPT !.calls = <<>>, !.ran = {}, !.saved = 0, !.retry = 0,
                            !.pc = IF last THEN "answer" ELSE "model", !.iter = IF last THEN t.iter ELSE t.iter + 1]
  <2>2. turn' = [turn EXCEPT ![w] = u] BY <1>8, <1>t DEF Iterate
  <2>3. turn'[w] = u /\ \A v \in Worker : v # w => turn'[v] = turn[v] BY <2>2, <1>t
  <2>4. /\ u.pc = (IF last THEN "answer" ELSE "model") /\ u.id = t.id /\ u.kind = t.kind /\ u.agent = t.agent
        /\ u.heard = t.heard /\ u.iter = IF last THEN t.iter ELSE t.iter + 1
    BY <1>t DEF TurnRec
  <2>5. SessionOf(u) = s
    <3> HIDE DEF u
    <3> QED BY <2>4 DEF SessionOf
  <2>6. t.pc = "tools" /\ t.saved = Len(t.calls) /\ UNCHANGED <<hist, summary, begun, sent, ended, squeezed, crowded>>
    BY <1>8 DEF Iterate
  <2> HIDE DEF u
  <2>7. u.pc \in {"model", "answer"} /\ u.iter >= t.iter /\ (u.pc = "model" => u.iter > t.iter)
    BY <2>4, <1>t
  <2> QED BY <2>3, <2>4, <2>5, <2>6, <2>7 DEF Turns, SameTurn
<1> QED BY <1>1, <1>2, <1>3, <1>4, <1>5, <1>6, <1>7, <1>8 DEF Advance

-----------------------------------------------------------------------------
\* A turn that does not change goes on, or rests.
LEMMA Stays == ASSUME NEW t PROVE GoesOn(t, t) \/ Rests(t, t)
  BY DEF GoesOn, Rests

LEMMA HistoryInit == TurnInit => HistoryInv
  BY DEF TurnInit, HistoryInv, DistinctInv, FineInv, CallInv, Idle

LEMMA HistoryQuiet ==
  ASSUME HistoryInv, hist' = hist, turn' = turn, squeezed' = squeezed, begun' = begun
  PROVE  HistoryInv'
  BY DEF HistoryInv, DistinctInv, FineInv, CallInv

LEMMA HistoryStart ==
  ASSUME TurnAssumption, TypeInv, TypeInv', HistoryInv, NEW w \in Worker, NEW kind \in Kinds \ {"none"}, NEW agent \in Agents,
         Start(w, kind, agent), turn[w].pc = "idle", world' = world, squeezed' = squeezed
  PROVE  HistoryInv'
<1> DEFINE s == IF kind = "heartbeat" THEN "heartbeat" ELSE agent
           m == Message("user", begun + 1, <<0, 0>>)
<1>1. /\ s \in Sessions
      /\ turn'[w].pc = "model" /\ turn'[w].id = begun + 1
      /\ SessionOf(turn'[w]) = s /\ \A v \in Worker : v # w => turn'[v] = turn[v]
      /\ begun' = begun + 1 /\ m \in Messages /\ Save(s, m)
  <2>1. s \in Sessions /\ SessionOf(turn'[w]) = s
    BY StartFacts
  <2>2. turn'[w].pc = "model" /\ turn'[w].id = begun + 1
    <3>1. w \in DOMAIN turn
      BY DEF TypeInv
    <3> QED BY <3>1 DEF Start, Idle
  <2>3. (\A v \in Worker : v # w => turn'[v] = turn[v]) /\ begun' = begun + 1
    BY StartFacts
  <2>4. m \in Messages
    BY StartFacts
  <2>5. Save(s, m)
    BY StartFacts
  <2> QED BY <2>1, <2>2, <2>3, <2>4, <2>5
<1>3. m.turn = begun + 1 /\ m.role = "user"
  BY DEF Message
<1> HIDE DEF s, m
<1>4. hist'[s] = Append(hist[s], m) /\ \A r \in Sessions : r # s => hist'[r] = hist[r]
  BY <1>1, SaveFacts
<1>5. Talks(turn[w], turn'[w], m, begun, begun')
  BY <1>1, <1>3 DEF Talks, Begins
<1>6. \A v \in Worker : v # w => GoesOn(turn[v], turn'[v]) \/ Rests(turn[v], turn'[v])
  BY <1>1, Stays
<1>7. begun <= begun' /\ turn'[w].pc # "idle" /\ squeezed' = squeezed /\ SessionOf(turn'[w]) = s
  BY <1>1 DEF TypeInv
<1> QED BY <1>1, <1>4, <1>5, <1>6, <1>7, HistorySave

LEMMA HistoryFinish ==
  ASSUME TypeInv, TypeInv', HistoryInv, NEW w \in Worker, Finish(w)
  PROVE  HistoryInv'
<1> DEFINE t == turn[w]
           s == SessionOf(t)
           m == Message("assistant", t.id, <<0, 0>>)
<1>1. /\ turn'[w] = [t EXCEPT !.pc = "respond"] /\ t \in TurnRec /\ t.pc = "answer"
      /\ \A v \in Worker \ {w} : \E b \in BOOLEAN : turn'[v] = [turn[v] EXCEPT !.old = b]
      /\ squeezed' = squeezed /\ begun' = begun /\ begun \in Nat
  <2>1. /\ turn'[w] = [t EXCEPT !.pc = "respond"]
        /\ \A v \in Worker \ {w} : \E b \in BOOLEAN : turn'[v] = [turn[v] EXCEPT !.old = b]
    <3>1. /\ turn'[w] = [turn[w] EXCEPT !.pc = "respond"]
          /\ \A v \in Worker \ {w} : \E b \in BOOLEAN :
                /\ turn'[v] = [turn[v] EXCEPT !.old = b]
                /\ turn[v].old => b
                /\ ~b => ~(/\ Summarizes(turn[w], Append(hist[SessionOf(turn[w])], Message("assistant", turn[w].id, <<0, 0>>)))
                          /\ turn[v].pc = "compress" /\ SessionOf(turn[v]) = SessionOf(turn[w]))
      BY FinishTurns
    <3> QED BY <3>1
  <2>2. t \in TurnRec /\ t.pc = "answer" /\ squeezed' = squeezed /\ begun' = begun /\ begun \in Nat
    BY DEF Finish, counts, TypeInv
  <2> QED BY <2>1, <2>2
<1>2. s \in Sessions /\ hist'[s] = Append(hist[s], m) /\ \A r \in Sessions : r # s => hist'[r] = hist[r]
  BY FinishFacts
<1>3. m \in Messages /\ m.turn = t.id /\ m.role = "assistant"
  <2>1. t.id \in Nat
    BY <1>1, TurnFields
  <2> QED BY <2>1, NewMessage DEF Message
<1> HIDE DEF t, m
<1>4. GoesOn(t, turn'[w]) /\ turn'[w].id = t.id /\ SessionOf(turn'[w]) = s /\ turn'[w].pc # "idle"
  BY <1>1 DEF GoesOn, TurnRec, SessionOf
<1>5. ASSUME NEW v \in Worker, v # w PROVE GoesOn(turn[v], turn'[v]) \/ Rests(turn[v], turn'[v])
  <2> DEFINE u == turn[v]
  <2>1. PICK b \in BOOLEAN : turn'[v] = [u EXCEPT !.old = b]
    BY <1>1, <1>5
  <2>2. u \in TurnRec
    BY DEF TypeInv
  <2> HIDE DEF u
  <2>3. /\ turn'[v].pc = u.pc /\ turn'[v].id = u.id /\ turn'[v].iter = u.iter /\ turn'[v].saved = u.saved
        /\ turn'[v].calls = u.calls /\ SessionOf(turn'[v]) = SessionOf(u)
    BY <2>1, <2>2 DEF TurnRec, SessionOf
  <2> QED BY <2>3 DEF GoesOn, Rests, u
<1>6. Talks(turn[w], turn'[w], m, begun, begun')
  BY <1>3, <1>4 DEF Talks, t
<1>7. SessionOf(turn'[w]) = s /\ turn'[w].pc # "idle" /\ squeezed' = squeezed /\ begun <= begun'
  BY <1>1, <1>4
<1> HIDE DEF s
<1> QED BY <1>2, <1>3, <1>5, <1>6, <1>7, HistorySave

LEMMA HistoryTool ==
  ASSUME TypeInv, TypeInv', HistoryInv, NEW w \in Worker, RunTool(w)
  PROVE  HistoryInv'
<1>1. hist' = hist /\ squeezed' = squeezed /\ begun' = begun /\ begun \in Nat
  BY DEF RunTool, counts, ghosts, TypeInv
<1>2. ASSUME NEW v \in Worker
      PROVE  GoesOn(turn[v], turn'[v]) \/ Rests(turn[v], turn'[v])
  <2> DEFINE u == turn[v]
  <2>1. PICK i : turn'[v] = [u EXCEPT !.ran = IF v = w THEN @ \cup {i} ELSE @,
                                      !.heard = @ \/ (turn[w].calls[i] = "message" /\ turn[w].agent = DefaultAgent)]
    BY DEF RunTool
  <2> DEFINE a == IF v = w THEN u.ran \cup {i} ELSE u.ran
             b == u.heard \/ (turn[w].calls[i] = "message" /\ turn[w].agent = DefaultAgent)
  <2>2. turn'[v] = [u EXCEPT !.ran = a, !.heard = b]
    BY <2>1
  <2> HIDE DEF a, b
  <2>3. u \in TurnRec
    BY DEF TypeInv
  <2> HIDE DEF u
  <2>4. /\ turn'[v].pc = u.pc /\ turn'[v].id = u.id /\ turn'[v].iter = u.iter /\ turn'[v].saved = u.saved
        /\ turn'[v].calls = u.calls /\ SessionOf(turn'[v]) = SessionOf(u)
    BY <2>2, <2>3 DEF TurnRec, SessionOf
  <2> QED BY <2>4 DEF GoesOn, Rests, u
<1>3. \A v \in Worker : ~Begins(turn[v], turn'[v], begun, begun')
  BY <1>1 DEF Begins
<1> QED BY <1>1, <1>2, <1>3, HistoryCarry

LEMMA HistoryStep ==
  TurnAssumption /\ TypeInv /\ TypeInv' /\ HistoryInv /\ [TurnNext]_turnVars => HistoryInv'
<1> SUFFICES ASSUME TurnAssumption, TypeInv, TypeInv', HistoryInv, [TurnNext]_turnVars PROVE HistoryInv'
  OBVIOUS
<1> USE DEF bus, agentState, background, counts, ghosts
<1>t. begun \in Nat /\ turn \in [Worker -> TurnRec] /\ hist \in [Sessions -> Seq(Messages)] /\ inbox \in Seq(Request)
  BY DEF TypeInv
<1>w. world.kinds \subseteq {"heartbeat", "cron"} /\ DefaultAgent \in Agents /\ "run" \in Worker /\ "side" \in Worker
  BY WorldFacts DEF TypeInv, Worker
<1>1. CASE Arrive \/ ReloadConfig \/ CloseProvider \/ \E id \in tasks : AsyncDone(id)
  <2>1. hist' = hist /\ turn' = turn /\ squeezed' = squeezed /\ begun' = begun
    BY <1>1 DEF Arrive, ReloadConfig, CloseProvider, AsyncDone
  <2> QED BY <2>1, HistoryQuiet
<1>2. CASE Take
  <2>1. Head(inbox).agent \in Agents
    <3>1. Head(inbox) \in Request
      BY <1>2, <1>t DEF Take
    <3> QED BY <3>1 DEF Request
  <2>2. Start("run", "user", Head(inbox).agent) /\ turn["run"].pc = "idle" /\ world' = world /\ squeezed' = squeezed
    BY <1>2 DEF Take
  <2>3. "user" \in Kinds \ {"none"}
    BY DEF Kinds
  <2> QED BY <2>1, <2>2, <2>3, <1>w, HistoryStart
<1>3. CASE TakeSystem
  <2>2. Start("run", "system", DefaultAgent) /\ turn["run"].pc = "idle" /\ world' = world /\ squeezed' = squeezed
    BY <1>3 DEF TakeSystem
  <2>3. "system" \in Kinds \ {"none"}
    BY DEF Kinds
  <2> QED BY <2>2, <2>3, <1>w, HistoryStart
<1>4. ASSUME NEW kind \in world.kinds, Side(kind) PROVE HistoryInv'
  <2>2. Start("side", kind, DefaultAgent) /\ turn["side"].pc = "idle" /\ world' = world /\ squeezed' = squeezed
    BY <1>4 DEF Side
  <2>3. kind \in Kinds \ {"none"}
    BY <1>w DEF Kinds
  <2> QED BY <2>2, <2>3, <1>w, HistoryStart
<1>5. CASE Command
  <2> DEFINE a == Head(inbox).agent
  <2>1. /\ turn["run"].pc = "idle" /\ begun' = begun + 1 /\ squeezed' = squeezed \cup {a}
        /\ turn' = [turn EXCEPT !["run"] = [Idle EXCEPT !.pc = "respond", !.kind = "command",
                                            !.agent = a, !.id = begun + 1, !.gen = gen]]
        /\ hist' = [hist EXCEPT ![a] = <<>>]
    BY <1>5 DEF Command
  <2>2. turn'["run"].pc = "respond" /\ turn'["run"].id = begun + 1 /\ \A v \in Worker : v # "run" => turn'[v] = turn[v]
    BY <2>1, <1>t, <1>w DEF Idle
  <2>3. \A s \in Sessions \ squeezed' : hist'[s] = hist[s]
    BY <2>1, <1>t
  <2>4. Begins(turn["run"], turn'["run"], begun, begun')
    BY <2>1, <2>2 DEF Begins
  <2>5. \A v \in Worker : v # "run" => /\ GoesOn(turn[v], turn'[v]) \/ Rests(turn[v], turn'[v])
                                       /\ ~Begins(turn[v], turn'[v], begun, begun')
    BY <2>2, Stays DEF Begins
  <2>6. squeezed \subseteq squeezed' /\ begun <= begun'
    BY <2>1, <1>t
  <2> HIDE DEF a
  <2> QED BY <2>3, <2>4, <2>5, <2>6, <1>w, HistoryCarry
<1>6. ASSUME NEW s \in Sessions, Summarized(s) PROVE HistoryInv'
  <2>1. turn' = turn /\ squeezed' = squeezed /\ begun' = begun
    BY <1>6 DEF Summarized
  <2>2. \A r \in Sessions : hist'[r] = hist[r] \/ \E d \in 0..Len(hist[r]) : hist'[r] = SubSeq(hist[r], d + 1, Len(hist[r]))
    <3> SUFFICES ASSUME NEW r \in Sessions, hist'[r] # hist[r]
                 PROVE  \E d \in 0..Len(hist[r]) : hist'[r] = SubSeq(hist[r], d + 1, Len(hist[r]))
      OBVIOUS
    <3> DEFINE n == Len(hist[s])
    <3>1. r = s /\ n > Keep /\ hist'[s] = SubSeq(hist[s], n - Keep + 1, n)
      BY <1>6, <1>t DEF Summarized
    <3>2. n \in Nat
      BY <1>t
    <3>3. n - Keep \in 0..n
      BY <3>1, <3>2 DEF Keep
    <3> QED BY <3>1, <3>3
  <2>3. \A v \in Worker : GoesOn(turn[v], turn'[v]) \/ Rests(turn[v], turn'[v])
    BY <2>1, Stays
  <2>4. \A v \in Worker : ~Begins(turn[v], turn'[v], begun, begun')
    BY <2>1, <1>t DEF Begins
  <2> QED BY <2>1, <2>2, <2>3, <2>4, <1>t, <1>w, HistoryCarry
<1>7. ASSUME NEW w \in Worker, Advance(w) PROVE HistoryInv'
  <2> DEFINE t == turn[w]
             s == SessionOf(t)
  <2>1. CASE Finish(w)
    BY <2>1, <1>7, HistoryFinish
  <2>2. CASE RunTool(w)
    BY <2>2, <1>7, HistoryTool
  <2>3. CASE Respond(w)
    <3>1. turn' = [turn EXCEPT ![w] = Idle] /\ t.pc \in {"respond", "failed"} /\ UNCHANGED <<hist, begun, squeezed>>
      BY <2>3 DEF Respond
    <3>2. turn'[w].pc = "idle" /\ \A v \in Worker : v # w => turn'[v] = turn[v]
      BY <3>1, <1>t, <1>7 DEF Idle
    <3>3. \A v \in Worker : GoesOn(turn[v], turn'[v]) \/ Rests(turn[v], turn'[v])
      BY <3>1, <3>2, Stays DEF Rests
    <3>4. \A v \in Worker : ~Begins(turn[v], turn'[v], begun, begun')
      BY <3>1, <1>t DEF Begins
    <3> QED BY <3>1, <3>3, <3>4, <1>t, <1>7, HistoryCarry
  <2>4. CASE ~Finish(w) /\ ~RunTool(w) /\ ~Respond(w)
    <3>0. /\ Calm(w) \/ Reads(w) \/ Writes(w) \/ Called(w) \/ Stored(w) \/ Turns(w)
          /\ \A v \in Worker : v # w => turn'[v] = turn[v]
          /\ begun' = begun
      BY <2>4, <1>7, AdvanceFacts
    <3>1. \A v \in Worker : v # w => GoesOn(turn[v], turn'[v]) \/ Rests(turn[v], turn'[v])
      BY <3>0, Stays
    <3>2. \A v \in Worker : ~Begins(turn[v], turn'[v], begun, begun')
      BY <3>0, <1>t DEF Begins
    <3>3. CASE Calm(w) \/ Reads(w) \/ Turns(w)
      <4>1. GoesOn(turn[w], turn'[w]) /\ hist' = hist /\ squeezed' = squeezed
        BY <3>3 DEF Calm, Reads, Turns, SameRound, SameTurn, GoesOn
      <4> QED BY <3>0, <3>1, <3>2, <4>1, <1>t, <1>7, HistoryCarry
    <3>4. CASE Writes(w)
      <4>1. GoesOn(turn[w], turn'[w])
        BY <3>4 DEF Writes, SameRound, SameTurn, GoesOn
      <4>2. squeezed \subseteq squeezed' /\ \A r \in Sessions \ squeezed' : hist'[r] = hist[r]
        BY <3>4, <1>t DEF Writes
      <4> QED BY <3>0, <3>1, <3>2, <4>1, <4>2, <1>t, <1>7, HistoryCarry
    <3>5. CASE Called(w) \/ Stored(w)
      <4>1. PICK m \in Messages : /\ Asks(t, turn'[w], m) \/ Stores(t, turn'[w], m)
                                  /\ SameTurn(t, turn'[w]) /\ Save(s, m) /\ squeezed' = squeezed
        BY <3>5 DEF Called, Stored
      <4>2. s \in Sessions
        <5>1. turn[w] \in TurnRec BY <1>t, <1>7
        <5> QED BY <5>1, SessionFact
      <4>3. hist'[s] = Append(hist[s], m) /\ \A r \in Sessions : r # s => hist'[r] = hist[r]
        BY <4>1, <4>2, SaveFacts
      <4>4. SessionOf(turn'[w]) = s /\ turn'[w].pc # "idle"
        BY <4>1 DEF SameTurn
      <4>5. Asks(turn[w], turn'[w], m) \/ Stores(turn[w], turn'[w], m)
        BY <4>1
      <4> HIDE DEF s
      <4> QED BY <3>0, <3>1, <4>1, <4>2, <4>3, <4>4, <4>5, <1>t, <1>7, HistorySave
    <3> QED BY <3>0, <3>3, <3>4, <3>5
  <2> QED BY <2>1, <2>2, <2>3, <2>4
<1>8. CASE UNCHANGED turnVars
  BY <1>8, HistoryQuiet DEF turnVars
<1> QED BY <1>1, <1>2, <1>3, <1>4, <1>5, <1>6, <1>7, <1>8 DEF TurnNext

\* The calls of a turn that is over have their results: nobody is running them any more.
LEMMA HistorySays == HistoryInv => CallsAnswered
<1> SUFFICES ASSUME HistoryInv, NEW s \in Sessions \ squeezed, NEW i \in DOMAIN hist[s],
                    hist[s][i].role = "calls", hist[s][i].turn \notin IdsOf(Active(s))
             PROVE  Answered(hist[s], i, hist[s][i].at[2])
  BY DEF CallsAnswered, Answered, Results
<1>1. ASSUME NEW w \in Worker PROVE ~Pending(turn[w], hist[s][i])
  <2> SUFFICES ASSUME Pending(turn[w], hist[s][i]) PROVE FALSE
    OBVIOUS
  <2>1. turn[w].pc # "idle" /\ turn[w].id = hist[s][i].turn
    BY DEF Pending
  <2>2. SessionOf(turn[w]) = s
    BY <2>1 DEF HistoryInv, FineInv, Fine
  <2> QED BY <2>1, <2>2 DEF Active, IdsOf
<1> QED BY <1>1 DEF HistoryInv, CallInv, CallOk

-----------------------------------------------------------------------------
(***************************************************************************)
(* The request of a turn that has its session to itself.                   *)
(***************************************************************************)
\* In its first iteration such a turn finds its request at the end of the history, no
\* summariser at work, and no other turn in the session.
Undisturbed(t) == t.pc \in {"model", "compress"} /\ t.iter = 1 /\ t.id \notin crowded
Ends(h, t) == h # <<>> /\ h[Len(h)] = Message("user", t.id, <<0, 0>>)
Alone(w) ==
    LET s == SessionOf(turn[w])
    IN  /\ ~summary[s].on /\ turn[w].asked
        /\ \A v \in Worker : v # w => turn[v].pc = "idle" \/ SessionOf(turn[v]) # s
        /\ Ends(hist[s], turn[w])
        /\ turn[w].pc = "compress" => turn[w].read = hist[s]
RequestInv == \A w \in Worker : Undisturbed(turn[w]) => Alone(w)

LEMMA RequestInit == TurnInit => RequestInv
  BY DEF TurnInit, RequestInv, Undisturbed, Idle

\* A turn that a step of somebody else in another session leaves alone.
Alike(t, u) == /\ u.pc = t.pc /\ u.iter = t.iter /\ u.id = t.id /\ u.asked = t.asked /\ u.read = t.read
               /\ SessionOf(u) = SessionOf(t)
LEMMA RequestCarry ==
  ASSUME NEW w \in Worker, Alone(w), Alike(turn[w], turn'[w]), hist'[SessionOf(turn[w])] = hist[SessionOf(turn[w])],
         summary'[SessionOf(turn[w])].on = summary[SessionOf(turn[w])].on,
         \A v \in Worker : v # w => turn'[v].pc = "idle" \/ SessionOf(turn'[v]) # SessionOf(turn[w])
  PROVE  Alone(w)'
  BY DEF Alone, Alike, Ends

LEMMA RequestStart ==
  ASSUME TurnAssumption, TypeInv, RequestInv, NEW z \in Worker, NEW kind \in Kinds \ {"none"}, NEW agent \in Agents,
         Start(z, kind, agent), turn[z].pc = "idle", world' = world
  PROVE  RequestInv'
<1> DEFINE s == IF kind = "heartbeat" THEN "heartbeat" ELSE agent
           m == Message("user", begun + 1, <<0, 0>>)
<1>1. s \in Sessions /\ SessionOf(turn'[z]) = s
  BY StartFacts
<1>2. /\ turn'[z].pc = "model" /\ turn'[z].id = begun + 1 /\ turn'[z].asked
      /\ \A v \in Worker : v # z => turn'[v] = turn[v]
  <2>1. z \in DOMAIN turn
    BY DEF TypeInv
  <2>2. turn'[z].pc = "model" /\ turn'[z].id = begun + 1 /\ turn'[z].asked
    BY <2>1 DEF Start, Idle
  <2> QED BY <2>2, StartFacts
<1>3. m \in Messages /\ Save(s, m)
  <2>1. m \in Messages
    BY StartFacts
  <2>2. Save(s, m)
    BY StartFacts
  <2> QED BY <2>1, <2>2
<1>4. /\ crowded \subseteq crowded' /\ crowded' \subseteq 1..begun'
      /\ (\E v \in Worker : turn[v].pc # "idle" /\ SessionOf(turn[v]) = s) \/ summary[s].on => begun + 1 \in crowded'
      /\ \A v \in Worker : turn[v].pc # "idle" /\ SessionOf(turn[v]) = s => turn[v].id \in crowded'
  <2>1. crowded \subseteq crowded' /\ crowded' \subseteq 1..begun'
    BY StartFacts
  <2>2. (\E v \in Worker : turn[v].pc # "idle" /\ SessionOf(turn[v]) = s) \/ summary[s].on => begun + 1 \in crowded'
    BY StartFacts
  <2>3. ASSUME NEW v \in Worker, turn[v].pc # "idle", SessionOf(turn[v]) = s PROVE turn[v].id \in crowded'
    <3>1. crowded' = crowded \cup IdsOf(Active(s)) \cup {begun + 1}
      <4>1. SessionOf([Idle EXCEPT !.pc = "model", !.kind = kind, !.agent = agent, !.id = begun + 1, !.gen = gen, !.iter = 1]) = s
        BY DEF SessionOf, Idle
      <4>2. v \in Active(s)
        BY <2>3 DEF Active
      <4> QED BY <4>1, <4>2 DEF Start
    <3>2. v \in Active(s)
      BY <2>3 DEF Active
    <3> QED BY <3>1, <3>2 DEF IdsOf
  <2> QED BY <2>1, <2>2, <2>3
<1> HIDE DEF s
<1>5. /\ hist'[s] = Append(hist[s], m) /\ \A r \in Sessions : r # s => hist'[r] = hist[r]
      /\ \A r \in Sessions : summary'[r].on = summary[r].on
  BY <1>1, <1>3, SaveFacts
<1>6. turn \in [Worker -> TurnRec] /\ hist[s] \in Seq(Messages)
  BY <1>1 DEF TypeInv
<1> SUFFICES ASSUME NEW w \in Worker, Undisturbed(turn[w])' PROVE Alone(w)'
  BY DEF RequestInv
<1>7. CASE w = z
  <2>1. ~summary[s].on /\ \A v \in Worker : turn[v].pc = "idle" \/ SessionOf(turn[v]) # s
    BY <1>2, <1>4, <1>7 DEF Undisturbed
  <2>2. Ends(hist'[s], turn'[w])
    <3>1. Ends(Append(hist[s], m), turn'[w])
      BY <1>2, <1>3, <1>6, <1>7 DEF Ends
    <3> QED BY <3>1, <1>5
  <2> QED BY <2>1, <2>2, <1>1, <1>2, <1>5, <1>7 DEF Alone
<1>8. CASE w # z
  <2> DEFINE r == SessionOf(turn[w])
  <2>1. turn'[w] = turn[w] /\ Undisturbed(turn[w]) /\ Alone(w)
    BY <1>2, <1>4, <1>8 DEF Undisturbed, RequestInv
  <2>2. r \in Sessions
    BY <1>6, SessionFact
  <2>3. r # s
    BY <2>1, <1>4, <1>8 DEF Undisturbed
  <2>4. \A v \in Worker : v # w => turn'[v].pc = "idle" \/ SessionOf(turn'[v]) # r
    BY <2>1, <2>3, <1>1, <1>2 DEF Alone
  <2>5. hist'[r] = hist[r] /\ summary'[r].on = summary[r].on
    BY <2>2, <2>3, <1>5
  <2> QED BY <2>1, <2>4, <2>5, RequestCarry DEF Alike
<1> QED BY <1>7, <1>8

LEMMA RequestAdvance ==
  ASSUME TurnAssumption, TypeInv, RequestInv, NEW z \in Worker, Advance(z)
  PROVE  RequestInv'
<1> SUFFICES ASSUME NEW w \in Worker, Undisturbed(turn[w])' PROVE Alone(w)'
  BY DEF RequestInv
<1> USE DEF bus, agentState, background, counts, ghosts
<1> DEFINE t == turn[w]
           s == SessionOf(t)
           c == turn[z]
           r == SessionOf(c)
<1>t. /\ turn \in [Worker -> TurnRec] /\ t \in TurnRec /\ c \in TurnRec /\ s \in Sessions /\ r \in Sessions
      /\ hist \in [Sessions -> Seq(Messages)] /\ summary \in [Sessions -> SummaryRec]
      /\ crowded \in SUBSET (1..begun) /\ t.iter \in Nat /\ (t.pc = "tools" => t.iter > 0)
  <2>1. /\ turn \in [Worker -> TurnRec] /\ hist \in [Sessions -> Seq(Messages)] /\ summary \in [Sessions -> SummaryRec]
        /\ crowded \in SUBSET (1..begun) /\ t \in TurnRec /\ c \in TurnRec
    BY DEF TypeInv
  <2>2. t.pc = "tools" => t.iter > 0
    BY DEF TypeInv, TurnBounds
  <2> HIDE DEF t, c
  <2> QED BY <2>1, <2>2, SessionFact, TurnFields
<1>1. CASE Finish(z)
  <2>1. /\ turn'[z] = [c EXCEPT !.pc = "respond"]
        /\ \A v \in Worker \ {z} : \E b \in BOOLEAN : turn'[v] = [turn[v] EXCEPT !.old = b]
    <3>1. /\ turn'[z] = [turn[z] EXCEPT !.pc = "respond"]
          /\ \A v \in Worker \ {z} : \E b \in BOOLEAN :
                /\ turn'[v] = [turn[v] EXCEPT !.old = b]
                /\ turn[v].old => b
                /\ ~b => ~(/\ Summarizes(turn[z], Append(hist[SessionOf(turn[z])], Message("assistant", turn[z].id, <<0, 0>>)))
                          /\ turn[v].pc = "compress" /\ SessionOf(turn[v]) = SessionOf(turn[z]))
      BY <1>1, FinishTurns
    <3> QED BY <3>1
  <2>2. \A v \in Worker \ {z} : Alike(turn[v], turn'[v])
    <3> SUFFICES ASSUME NEW v \in Worker \ {z} PROVE Alike(turn[v], turn'[v])
      OBVIOUS
    <3> DEFINE u == turn[v]
    <3>1. PICK b \in BOOLEAN : turn'[v] = [u EXCEPT !.old = b]
      BY <2>1
    <3>2. u \in TurnRec
      BY <1>t
    <3> HIDE DEF u
    <3>3. Alike(u, turn'[v])
      BY <3>1, <3>2 DEF TurnRec, Alike, SessionOf
    <3> QED BY <3>3 DEF u
  <2>3. turn'[z].pc = "respond" /\ SessionOf(turn'[z]) = r
    <3> HIDE DEF c
    <3> QED BY <1>t, <2>1 DEF TurnRec, SessionOf
  <2>4. w # z
    BY <2>3 DEF Undisturbed
  <2>5. crowded \subseteq crowded' /\ c.pc = "answer"
    BY <1>1 DEF Finish
  <2>6. Alike(t, turn'[w])
    BY <2>2, <2>4
  <2>7. Alone(w)
    BY <2>5, <2>6 DEF RequestInv, Undisturbed, Alike
  <2>8. r # s
    BY <2>4, <2>5, <2>7 DEF Alone
  <2>9. hist'[s] = hist[s] /\ summary'[s] = summary[s]
    BY <1>1, <1>t, <2>8, FinishFacts
  <2>a. \A v \in Worker : v # w => turn'[v].pc = "idle" \/ SessionOf(turn'[v]) # s
    BY <2>2, <2>3, <2>7, <2>8 DEF Alone, Alike
  <2> QED BY <2>6, <2>7, <2>9, <2>a, RequestCarry
<1>2. CASE RunTool(z)
  <2>1. hist' = hist /\ summary' = summary /\ crowded' = crowded
    BY <1>2 DEF RunTool
  <2>2. \A v \in Worker : Alike(turn[v], turn'[v])
    <3> SUFFICES ASSUME NEW v \in Worker PROVE Alike(turn[v], turn'[v])
      OBVIOUS
    <3> DEFINE u == turn[v]
    <3>1. PICK i : turn'[v] = [u EXCEPT !.ran = IF v = z THEN @ \cup {i} ELSE @,
                                        !.heard = @ \/ (turn[z].calls[i] = "message" /\ turn[z].agent = DefaultAgent)]
      BY <1>2 DEF RunTool
    <3> DEFINE a == IF v = z THEN u.ran \cup {i} ELSE u.ran
               b == u.heard \/ (turn[z].calls[i] = "message" /\ turn[z].agent = DefaultAgent)
    <3>2. turn'[v] = [u EXCEPT !.ran = a, !.heard = b]
      BY <3>1
    <3>3. u \in TurnRec
      BY <1>t
    <3> HIDE DEF u, a, b
    <3>4. Alike(u, turn'[v])
      BY <3>2, <3>3 DEF TurnRec, Alike, SessionOf
    <3> QED BY <3>4 DEF u
  <2>3. Alone(w) /\ Alike(t, turn'[w])
    BY <2>1, <2>2 DEF RequestInv, Undisturbed, Alike
  <2>4. \A v \in Worker : v # w => turn'[v].pc = "idle" \/ SessionOf(turn'[v]) # s
    BY <2>2, <2>3 DEF Alone, Alike
  <2> QED BY <2>1, <2>3, <2>4, RequestCarry
<1>3. CASE Respond(z)
  <2>1. turn' = [turn EXCEPT ![z] = Idle] /\ hist' = hist /\ summary' = summary /\ crowded' = crowded
    BY <1>3 DEF Respond
  <2>2. turn'[z].pc = "idle" /\ \A v \in Worker : v # z => turn'[v] = turn[v]
    BY <2>1, <1>t DEF Idle
  <2>3. w # z /\ turn'[w] = t
    BY <2>2 DEF Undisturbed
  <2>4. Alone(w) /\ Alike(t, turn'[w])
    BY <2>1, <2>3 DEF RequestInv, Undisturbed, Alike
  <2>5. \A v \in Worker : v # w => turn'[v].pc = "idle" \/ SessionOf(turn'[v]) # s
    BY <2>2, <2>4 DEF Alone
  <2> QED BY <2>1, <2>4, <2>5, RequestCarry
<1>4. CASE ~Finish(z) /\ ~RunTool(z) /\ ~Respond(z)
  <2>0. /\ Calm(z) \/ Reads(z) \/ Writes(z) \/ Called(z) \/ Stored(z) \/ Turns(z)
        /\ \A v \in Worker : v # z => turn'[v] = turn[v]
        /\ crowded' = crowded
    BY <1>4, AdvanceFacts
  <2>1. /\ SessionOf(turn'[z]) = r /\ c.pc # "idle"
        /\ \A q \in Sessions : q # r => hist'[q] = hist[q] /\ summary'[q].on = summary[q].on
    <3>1. CASE Calm(z) \/ Reads(z) \/ Turns(z)
      BY <3>1 DEF Calm, Reads, Turns, SameRound, SameTurn
    <3>2. CASE Called(z) \/ Stored(z)
      <4>1. PICK m \in Messages : SameTurn(c, turn'[z]) /\ Save(r, m)
        BY <3>2 DEF Called, Stored
      <4> QED BY <4>1, <1>t, SaveFacts DEF SameTurn
    <3>3. CASE Writes(z)
      <4> DEFINE cut == Len(c.read) > 4
                 now == IF cut THEN Compressed(c.read) ELSE hist[r]
      <4>1. /\ SameRound(c, turn'[z]) /\ hist' = [hist EXCEPT ![r] = now]
            /\ summary' = (IF cut /\ c.old /\ summary[r].on THEN [summary EXCEPT ![r].added = @ + Len(now)] ELSE summary)
        BY <3>3 DEF Writes
      <4> HIDE DEF cut, now
      <4>2. \A q \in Sessions : q # r => hist'[q] = hist[q] /\ summary'[q] = summary[q]
        BY <4>1, <1>t
      <4> QED BY <4>1, <4>2 DEF SameRound, SameTurn
    <3> QED BY <2>0, <3>1, <3>2, <3>3
  <2>2. CASE w # z
    <3>1. Alone(w) /\ Alike(t, turn'[w])
      BY <2>0, <2>2 DEF RequestInv, Undisturbed, Alike
    <3>2. r # s
      BY <2>1, <2>2, <3>1 DEF Alone
    <3>3. \A v \in Worker : v # w => turn'[v].pc = "idle" \/ SessionOf(turn'[v]) # s
      BY <2>0, <2>1, <3>1, <3>2 DEF Alone
    <3>4. hist'[s] = hist[s] /\ summary'[s].on = summary[s].on
      BY <1>t, <2>1, <3>2
    <3> QED BY <3>1, <3>3, <3>4, RequestCarry
  <2>3. CASE w = z
    <3>0. turn'[w].pc \in {"model", "compress"} /\ turn'[w].iter = 1 /\ turn'[w].id \notin crowded
      BY <2>0 DEF Undisturbed
    <3>1. Calm(w) \/ Reads(w) \/ Writes(w)
      <4>1. ~Called(w) /\ ~Stored(w)
        BY <3>0 DEF Called, Stored, Asks, Stores
      <4>2. ~Turns(w)
        BY <3>0, <1>t DEF Turns, SameTurn
      <4> QED BY <2>0, <2>3, <4>1, <4>2
    <3>2. SameRound(t, turn'[w]) /\ t.pc \in {"model", "compress"}
      BY <3>1 DEF Calm, Reads, Writes
    <3>3. Alone(w)
      BY <3>0, <3>2 DEF SameRound, SameTurn, RequestInv, Undisturbed
    <3>4. \A v \in Worker : v # w => turn'[v].pc = "idle" \/ SessionOf(turn'[v]) # s
      BY <2>0, <2>3, <3>3 DEF Alone
    <3>5. CASE Calm(w) \/ Reads(w)
      BY <3>0, <3>3, <3>4, <3>5 DEF Alone, Calm, Reads, SameRound, SameTurn, Ends
    <3>6. CASE Writes(w)
      <4> DEFINE cut == Len(t.read) > 4
                 now == IF cut THEN Compressed(t.read) ELSE hist[s]
      <4>1. /\ t.pc = "compress" /\ turn'[w].pc = "model" /\ hist' = [hist EXCEPT ![s] = now]
            /\ turn'[w].asked = (\E i \in DOMAIN now : now[i] = Message("user", t.id, <<0, 0>>))
            /\ summary' = (IF cut /\ t.old /\ summary[s].on THEN [summary EXCEPT ![s].added = @ + Len(now)] ELSE summary)
            /\ turn'[w].id = t.id /\ SessionOf(turn'[w]) = s
        BY <3>6 DEF Writes, SameRound, SameTurn
      <4>2. t.read = hist[s] /\ Ends(hist[s], t) /\ ~summary[s].on
        BY <3>3, <4>1 DEF Alone
      <4>3. now \in Seq(Messages) /\ Ends(now, t)
        <5>1. CASE cut
          <6>1. t.read \in Seq(Messages) /\ now = Compressed(t.read) /\ Len(t.read) > 4
            BY <4>2, <1>t, <5>1
          <6>2. /\ Compressed(t.read) \in Seq(Messages) /\ Len(Compressed(t.read)) > 0
                /\ t.read[Len(t.read)] = Compressed(t.read)[Len(Compressed(t.read))]
            BY <6>1, CompressedType
          <6> HIDE DEF now
          <6> QED BY <4>2, <6>1, <6>2 DEF Ends
        <5>2. CASE ~cut
          BY <5>2, <4>2, <1>t
        <5> QED BY <5>1, <5>2
      <4> HIDE DEF now, cut
      <4>4. turn'[w].asked
        <5>1. Len(now) \in DOMAIN now
          BY <4>3 DEF Ends
        <5> QED BY <4>1, <4>3, <5>1 DEF Ends
      <4>5. hist'[s] = now /\ summary' = summary
        BY <4>1, <4>2, <1>t
      <4> QED BY <3>4, <4>1, <4>2, <4>3, <4>4, <4>5 DEF Alone, Ends
    <3> QED BY <3>1, <3>5, <3>6
  <2> QED BY <2>2, <2>3
<1> QED BY <1>1, <1>2, <1>3, <1>4

LEMMA RequestStep ==
  TurnAssumption /\ TypeInv /\ RequestInv /\ [TurnNext]_turnVars => RequestInv'
<1> SUFFICES ASSUME TurnAssumption, TypeInv, RequestInv, [TurnNext]_turnVars PROVE RequestInv'
  OBVIOUS
<1> USE DEF bus, agentState, background, counts, ghosts
<1>t. /\ begun \in Nat /\ turn \in [Worker -> TurnRec] /\ hist \in [Sessions -> Seq(Messages)] /\ inbox \in Seq(Request)
      /\ summary \in [Sessions -> SummaryRec]
  BY DEF TypeInv
<1>w. world.kinds \subseteq {"heartbeat", "cron"} /\ DefaultAgent \in Agents /\ "run" \in Worker /\ "side" \in Worker
  BY WorldFacts DEF TypeInv, Worker
<1>1. CASE Arrive \/ ReloadConfig \/ CloseProvider \/ (\E id \in tasks : AsyncDone(id)) \/ UNCHANGED turnVars
  <2>1. hist' = hist /\ turn' = turn /\ summary' = summary /\ crowded' = crowded
    BY <1>1 DEF Arrive, ReloadConfig, CloseProvider, AsyncDone, turnVars
  <2> QED BY <2>1 DEF RequestInv, Undisturbed, Alone, Ends
<1>2. CASE Take
  <2>1. Head(inbox).agent \in Agents
    <3>1. Head(inbox) \in Request
      BY <1>2, <1>t DEF Take
    <3> QED BY <3>1 DEF Request
  <2>2. Start("run", "user", Head(inbox).agent) /\ turn["run"].pc = "idle" /\ world' = world
    BY <1>2 DEF Take
  <2>3. "user" \in Kinds \ {"none"}
    BY DEF Kinds
  <2> QED BY <2>1, <2>2, <2>3, <1>w, RequestStart
<1>3. CASE TakeSystem
  <2>2. Start("run", "system", DefaultAgent) /\ turn["run"].pc = "idle" /\ world' = world
    BY <1>3 DEF TakeSystem
  <2>3. "system" \in Kinds \ {"none"}
    BY DEF Kinds
  <2> QED BY <2>2, <2>3, <1>w, RequestStart
<1>4. ASSUME NEW kind \in world.kinds, Side(kind) PROVE RequestInv'
  <2>2. Start("side", kind, DefaultAgent) /\ turn["side"].pc = "idle" /\ world' = world
    BY <1>4 DEF Side
  <2>3. kind \in Kinds \ {"none"}
    BY <1>w DEF Kinds
  <2> QED BY <2>2, <2>3, <1>w, RequestStart
<1>5. CASE Command
  <2> DEFINE a == Head(inbox).agent
             new == [Idle EXCEPT !.pc = "respond", !.kind = "command", !.agent = a, !.id = begun + 1, !.gen = gen]
  <2>1. /\ turn["run"].pc = "idle" /\ turn' = [turn EXCEPT !["run"] = new] /\ hist' = [hist EXCEPT ![a] = <<>>]
        /\ crowded' = crowded \cup IdsOf(Active(a)) /\ summary' = summary
    BY <1>5 DEF Command
  <2>2. new.pc = "respond" /\ SessionOf(new) = a
    BY DEF Idle, SessionOf
  <2> HIDE DEF new, a
  <2>3. turn'["run"] = new /\ \A v \in Worker : v # "run" => turn'[v] = turn[v]
    BY <2>1, <1>t, <1>w
  <2> SUFFICES ASSUME NEW w \in Worker, Undisturbed(turn[w])' PROVE Alone(w)'
    BY DEF RequestInv
  <2>4. w # "run" /\ turn'[w] = turn[w] /\ turn[w].id \notin crowded'
    BY <2>2, <2>3 DEF Undisturbed
  <2>5. Alone(w) /\ turn[w].pc # "idle"
    BY <2>1, <2>4 DEF RequestInv, Undisturbed
  <2>6. SessionOf(turn[w]) # a
    BY <2>1, <2>4, <2>5 DEF Active, IdsOf
  <2>7. \A v \in Worker : v # w => turn'[v].pc = "idle" \/ SessionOf(turn'[v]) # SessionOf(turn[w])
    BY <2>2, <2>3, <2>5, <2>6 DEF Alone
  <2>8. SessionOf(turn[w]) \in Sessions
    <3>1. turn[w] \in TurnRec BY <1>t
    <3> QED BY <3>1, SessionFact
  <2>9. hist'[SessionOf(turn[w])] = hist[SessionOf(turn[w])]
    BY <2>1, <2>6, <2>8, <1>t
  <2> QED BY <2>1, <2>4, <2>5, <2>7, <2>9, RequestCarry DEF Alike
<1>6. ASSUME NEW s \in Sessions, Summarized(s) PROVE RequestInv'
  <2>1. turn' = turn /\ crowded \subseteq crowded' /\ summary[s].on
    BY <1>6 DEF Summarized
  <2>2. \A r \in Sessions : r # s => hist'[r] = hist[r] /\ summary'[r] = summary[r]
    BY <1>6, <1>t DEF Summarized
  <2> SUFFICES ASSUME NEW w \in Worker, Undisturbed(turn[w])' PROVE Alone(w)'
    BY DEF RequestInv
  <2>3. Alone(w)
    BY <2>1 DEF RequestInv, Undisturbed
  <2>4. SessionOf(turn[w]) # s /\ \A v \in Worker : v # w => turn'[v].pc = "idle" \/ SessionOf(turn'[v]) # SessionOf(turn[w])
    BY <2>1, <2>3 DEF Alone
  <2>5. SessionOf(turn[w]) \in Sessions
    <3>1. turn[w] \in TurnRec BY <1>t
    <3> QED BY <3>1, SessionFact
  <2> QED BY <2>1, <2>2, <2>3, <2>4, <2>5, RequestCarry DEF Alike
<1>7. ASSUME NEW w \in Worker, Advance(w) PROVE RequestInv'
  BY <1>7, RequestAdvance
<1> QED BY <1>1, <1>2, <1>3, <1>4, <1>5, <1>6, <1>7 DEF TurnNext

LEMMA RequestSays == RequestInv => RequestKept
  BY DEF RequestInv, RequestKept, Undisturbed, Alone

-----------------------------------------------------------------------------
(***************************************************************************)
(* Silence.                                                                *)
(***************************************************************************)
\* A turn that answers a user of the default agent heard every message of that agent's
\* message tool since the flag was reset for it.
HeardInv ==
    \A w \in Worker : (turn[w].pc # "idle" /\ turn[w].kind \in {"user", "command"} /\ turn[w].agent = DefaultAgent
                       /\ sent[DefaultAgent]) => turn[w].heard
SilentInv == HeardInv /\ SilentOnlyIfSent

LEMMA SilentInit == TurnInit => SilentInv
  BY DEF TurnInit, SilentInv, HeardInv, SilentOnlyIfSent, Idle

\* What concerns the flag in a turn.
Hears(t, u) == u.pc # "idle" => t.pc # "idle" /\ u.kind = t.kind /\ u.agent = t.agent /\ (t.heard => u.heard)
LEMMA SilentCarry ==
  ASSUME SilentInv, \A w \in Worker : Hears(turn[w], turn'[w]), sent'[DefaultAgent] => sent[DefaultAgent], ended' = ended
  PROVE  SilentInv'
  BY DEF SilentInv, HeardInv, SilentOnlyIfSent, Hears

LEMMA SilentStep == TurnAssumption /\ TypeInv /\ SilentInv /\ [TurnNext]_turnVars => SilentInv'
<1> SUFFICES ASSUME TurnAssumption, TypeInv, SilentInv, [TurnNext]_turnVars PROVE SilentInv'
  OBVIOUS
<1> USE DEF bus, agentState, background, counts, ghosts
<1>t. turn \in [Worker -> TurnRec] /\ sent \in [Agents -> BOOLEAN]
  BY DEF TypeInv
<1>w. world.kinds \subseteq {"heartbeat", "cron"} /\ DefaultAgent \in Agents /\ "run" \in Worker /\ "side" \in Worker
  BY WorldFacts DEF TypeInv, Worker
\* A turn that begins for a user of the default agent begins with the flag reset.
<1>s. ASSUME NEW w \in Worker, NEW u, turn' = [turn EXCEPT ![w] = u], ended' = ended,
             u.kind \in {"user", "command"} /\ u.agent = DefaultAgent => ~sent'[DefaultAgent],
             sent'[DefaultAgent] => sent[DefaultAgent]
      PROVE  SilentInv'
  <2>1. turn'[w] = u /\ \A v \in Worker : v # w => turn'[v] = turn[v]
    BY <1>s, <1>t
  <2> QED BY <2>1, <1>s DEF SilentInv, HeardInv, SilentOnlyIfSent
<1>1. CASE Arrive \/ (\E id \in tasks : AsyncDone(id)) \/ (\E s \in Sessions : Summarized(s))
           \/ CloseProvider \/ ReloadConfig \/ UNCHANGED turnVars
  <2>1. turn' = turn /\ ended' = ended /\ (sent'[DefaultAgent] => sent[DefaultAgent])
    BY <1>1, <1>w DEF Arrive, AsyncDone, Summarized, CloseProvider, ReloadConfig, turnVars
  <2> QED BY <2>1, SilentCarry DEF Hears
<1>2. CASE Take
  <2> DEFINE a == Head(inbox).agent
             u == [Idle EXCEPT !.pc = "model", !.kind = "user", !.agent = a, !.id = begun + 1, !.gen = gen, !.iter = 1]
  <2>1. turn' = [turn EXCEPT !["run"] = u] /\ ended' = ended /\ sent' = [sent EXCEPT ![a] = FALSE]
    BY <1>2 DEF Take, Start, ResetSent
  <2>2. u.agent = a
    BY DEF Idle
  <2>3. sent'[DefaultAgent] => sent[DefaultAgent] /\ a # DefaultAgent
    BY <2>1, <1>t, <1>w
  <2> HIDE DEF u, a
  <2> QED BY <2>1, <2>2, <2>3, <1>s, <1>w
<1>3. CASE TakeSystem
  <2> DEFINE u == [Idle EXCEPT !.pc = "model", !.kind = "system", !.agent = DefaultAgent, !.id = begun + 1, !.gen = gen, !.iter = 1]
  <2>1. turn' = [turn EXCEPT !["run"] = u] /\ ended' = ended /\ sent' = sent
    BY <1>3 DEF TakeSystem, Start
  <2>2. u.kind = "system"
    BY DEF Idle
  <2> HIDE DEF u
  <2> QED BY <2>1, <2>2, <1>s, <1>w
<1>4. ASSUME NEW kind \in world.kinds, Side(kind) PROVE SilentInv'
  <2> DEFINE u == [Idle EXCEPT !.pc = "model", !.kind = kind, !.agent = DefaultAgent, !.id = begun + 1, !.gen = gen, !.iter = 1]
  <2>1. turn' = [turn EXCEPT !["side"] = u] /\ ended' = ended /\ (sent'[DefaultAgent] => sent[DefaultAgent])
    BY <1>4, <1>t, <1>w DEF Side, Start, ResetSent
  <2>2. u.kind \in {"heartbeat", "cron"}
    BY <1>w DEF Idle
  <2> HIDE DEF u
  <2> QED BY <2>1, <2>2, <1>s, <1>w
<1>5. CASE Command
  <2> DEFINE a == Head(inbox).agent
             u == [Idle EXCEPT !.pc = "respond", !.kind = "command", !.agent = a, !.id = begun + 1, !.gen = gen]
  <2>1. turn' = [turn EXCEPT !["run"] = u] /\ ended' = ended /\ sent' = [sent EXCEPT ![a] = FALSE]
    BY <1>5 DEF Command, ResetSent
  <2>2. u.agent = a
    BY DEF Idle
  <2>3. sent'[DefaultAgent] => sent[DefaultAgent] /\ a # DefaultAgent
    BY <2>1, <1>t, <1>w
  <2> HIDE DEF u, a
  <2> QED BY <2>1, <2>2, <2>3, <1>s, <1>w
<1>6. ASSUME NEW w \in Worker, Advance(w) PROVE SilentInv'
  <2> DEFINE t == turn[w]
  <2>1. CASE Finish(w)
    <3>1. ASSUME NEW v \in Worker PROVE Hears(turn[v], turn'[v])
      <4> DEFINE u == turn[v]
      <4>1. PICK p, b : turn'[v] = [u EXCEPT !.pc = p, !.old = b] /\ (v # w => p = u.pc)
        <5> DEFINE h == Append(hist[SessionOf(t)], Message("assistant", t.id, <<0, 0>>))
        <5>1. turn'[v] = [u EXCEPT !.pc = IF v = w THEN "respond" ELSE @,
                                   !.old = IF Summarizes(t, h) /\ v \in Active(SessionOf(t)) /\ u.pc = "compress" THEN TRUE ELSE @]
          BY <2>1 DEF Finish
        <5> QED BY <5>1
      <4>2. u \in TurnRec /\ t.pc = "answer"
        BY <1>t, <2>1 DEF Finish
      <4> HIDE DEF u
      <4>3. /\ turn'[v].pc = p /\ turn'[v].kind = u.kind /\ turn'[v].agent = u.agent /\ turn'[v].heard = u.heard
        BY <4>1, <4>2 DEF TurnRec
      <4> QED BY <4>1, <4>2, <4>3 DEF Hears, u
    <3>2. ended' = ended /\ sent' = sent
      BY <2>1 DEF Finish
    <3> QED BY <3>1, <3>2, SilentCarry
  <2>2. CASE RunTool(w)
    <3>1. PICK i : /\ turn' = [v \in Worker |-> [turn[v] EXCEPT
                                   !.ran = IF v = w THEN @ \cup {i} ELSE @,
                                   !.heard = @ \/ (t.calls[i] = "message" /\ t.agent = DefaultAgent)]]
                   /\ sent' = IF t.calls[i] = "message" /\ t.gen = gen THEN [sent EXCEPT ![t.agent] = TRUE] ELSE sent
                   /\ ended' = ended
      BY <2>2 DEF RunTool
    <3> DEFINE loud == t.calls[i] = "message" /\ t.agent = DefaultAgent
    <3>2. ASSUME NEW v \in Worker
          PROVE  /\ turn'[v].pc = turn[v].pc /\ turn'[v].kind = turn[v].kind /\ turn'[v].agent = turn[v].agent
                 /\ turn'[v].heard = (turn[v].heard \/ loud)
      <4> DEFINE u == turn[v]
                 a == IF v = w THEN u.ran \cup {i} ELSE u.ran
                 b == u.heard \/ loud
      <4>1. turn'[v] = [u EXCEPT !.ran = a, !.heard = b]
        BY <3>1
      <4>2. u \in TurnRec
        BY <1>t
      <4> HIDE DEF u, a, b
      <4>3. turn'[v].pc = u.pc /\ turn'[v].kind = u.kind /\ turn'[v].agent = u.agent /\ turn'[v].heard = b
        BY <4>1, <4>2 DEF TurnRec
      <4> QED BY <4>3 DEF u, b
    <3>3. CASE loud
      <4> HIDE DEF loud
      <4>1. \A v \in Worker : turn'[v].heard
        BY <3>2, <3>3
      <4>2. HeardInv'
        BY <4>1 DEF HeardInv
      <4>3. SilentOnlyIfSent'
        BY <3>1 DEF SilentInv, SilentOnlyIfSent
      <4> QED BY <4>2, <4>3 DEF SilentInv
    <3>4. CASE ~loud
      <4>1. sent'[DefaultAgent] = sent[DefaultAgent]
        BY <3>1, <3>4, <1>t, <1>w
      <4> QED BY <3>1, <3>2, <4>1, SilentCarry DEF Hears
    <3> QED BY <3>3, <3>4
  <2>3. CASE Respond(w)
    <3> DEFINE said == \/ t.kind \in {"user", "command"} /\ ~sent[DefaultAgent]
                       \/ t.kind = "system" /\ t.pc = "respond"
               e == [turn |-> t.id, kind |-> t.kind, agent |-> t.agent, said |-> said, heard |-> t.heard]
    <3>1. turn' = [turn EXCEPT ![w] = Idle] /\ sent' = sent /\ ended' = ended \cup {e} /\ t.pc \in {"respond", "failed"}
      BY <2>3 DEF Respond
    <3>2. turn'[w].pc = "idle" /\ \A v \in Worker : v # w => turn'[v] = turn[v]
      BY <3>1, <1>t DEF Idle
    <3>3. e.kind \in {"user", "command"} /\ e.agent = DefaultAgent /\ ~e.said => e.heard
      BY <3>1 DEF SilentInv, HeardInv
    <3> HIDE DEF e
    <3>4. SilentOnlyIfSent'
      BY <3>1, <3>3 DEF SilentInv, SilentOnlyIfSent
    <3>5. HeardInv'
      BY <3>1, <3>2 DEF SilentInv, HeardInv
    <3> QED BY <3>4, <3>5 DEF SilentInv
  <2>4. CASE ~Finish(w) /\ ~RunTool(w) /\ ~Respond(w)
    <3>1. /\ Calm(w) \/ Reads(w) \/ Writes(w) \/ Called(w) \/ Stored(w) \/ Turns(w)
          /\ \A v \in Worker : v # w => turn'[v] = turn[v]
          /\ sent' = sent /\ ended' = ended
      BY <2>4, <1>6, AdvanceFacts
    <3>2. SameTurn(t, turn'[w])
      BY <3>1 DEF Calm, Reads, Writes, Called, Stored, Turns, SameRound
    <3>3. \A v \in Worker : Hears(turn[v], turn'[v])
      BY <3>1, <3>2 DEF Hears, SameTurn
    <3> QED BY <3>1, <3>3, SilentCarry
  <2> QED BY <2>1, <2>2, <2>3, <2>4
<1> QED BY <1>1, <1>2, <1>3, <1>4, <1>5, <1>6 DEF TurnNext

-----------------------------------------------------------------------------
(***************************************************************************)
(* What summaries lose.                                                    *)
(***************************************************************************)
\* The summary of what the summariser u has read will cover the first messages of h; behind
\* them are at most those that it keeps and those it is charged with.
Covers(u, m) == \E j \in 1..(Len(u.read) - Keep) : u.read[j] = m
Covered(h, u) == \E k \in 0..Len(h) : (\A i \in 1..k : Covers(u, h[i])) /\ Len(h) - k <= Keep + u.added

\* So it is with the history, and with what a turn has read and will put back.
LossFree(s) ==
    /\ summary[s].missed <= 0
    /\ summary[s].on => Covered(hist[s], summary[s])
    /\ summary[s].on => \A w \in Worker : (turn[w].pc = "compress" /\ ~turn[w].old /\ SessionOf(turn[w]) = s)
                                          => Covered(turn[w].read, summary[s])
LossInv == \A s \in Sessions : LossFree(s)

LEMMA CoveredMore ==
  ASSUME NEW h \in Seq(Messages), NEW u \in SummaryRec, NEW v \in SummaryRec, Covered(h, u),
         v.read = u.read, v.added >= u.added
  PROVE  Covered(h, v)
<1>1. u.added \in Nat /\ v.added \in Nat /\ Len(h) \in Nat
  BY DEF SummaryRec
<1>2. PICK k \in 0..Len(h) : (\A i \in 1..k : Covers(u, h[i])) /\ Len(h) - k <= Keep + u.added
  BY DEF Covered
<1>3. Len(h) - k <= Keep + v.added
  BY <1>1, <1>2 DEF Keep
<1> QED BY <1>2, <1>3 DEF Covered, Covers

LEMMA CoveredAppend ==
  ASSUME NEW h \in Seq(Messages), NEW m \in Messages, NEW u \in SummaryRec, NEW v \in SummaryRec, Covered(h, u),
         v.read = u.read, v.added = u.added + 1
  PROVE  Covered(Append(h, m), v)
<1>1. u.added \in Nat /\ v.added \in Nat /\ Len(h) \in Nat
  BY DEF SummaryRec
<1>2. PICK k \in 0..Len(h) : (\A i \in 1..k : Covers(u, h[i])) /\ Len(h) - k <= Keep + u.added
  BY DEF Covered
<1>3. Len(Append(h, m)) = Len(h) + 1 /\ \A i \in 1..Len(h) : Append(h, m)[i] = h[i]
  OBVIOUS
<1>4. k \in 0..Len(Append(h, m)) /\ Len(Append(h, m)) - k <= Keep + v.added
  BY <1>1, <1>2, <1>3 DEF Keep
<1>5. \A i \in 1..k : Covers(v, Append(h, m)[i])
  BY <1>1, <1>2, <1>3 DEF Covers
<1> QED BY <1>4, <1>5 DEF Covered

LEMMA CoveredBegin ==
  ASSUME NEW h \in Seq(Messages), NEW u \in SummaryRec, u.read = h
  PROVE  Covered(h, u)
<1> DEFINE k == IF Len(h) > Keep THEN Len(h) - Keep ELSE 0
<1>1. k \in 0..Len(h) /\ Len(h) - k <= Keep + u.added /\ \A i \in 1..k : i \in 1..(Len(h) - Keep)
  BY DEF SummaryRec, Keep
<1>2. \A i \in 1..k : Covers(u, h[i])
  BY <1>1 DEF Covers
<1> HIDE DEF k
<1> QED BY <1>1, <1>2 DEF Covered

LEMMA CoveredAll ==
  ASSUME NEW h \in Seq(Messages), NEW u \in SummaryRec, u.added >= Len(h)
  PROVE  Covered(h, u)
<1>1. 0 \in 0..Len(h) /\ Len(h) - 0 <= Keep + u.added
  BY DEF SummaryRec, Keep
<1> QED BY <1>1 DEF Covered

LEMMA CoveredCompressed ==
  ASSUME NEW h \in Seq(Messages), Len(h) > 4, NEW u \in SummaryRec, Covered(h, u)
  PROVE  Covered(Compressed(h), u)
<1> DEFINE half == (Len(h) - 2) \div 2
           c == Compressed(h)
<1>1. /\ half \in 1..(Len(h) - 3) /\ c \in Seq(Messages) /\ Len(c) = Len(h) - half
      /\ c[1] = h[1] /\ \A i \in 2..(Len(h) - half) : c[i] = h[i + half]
  BY CompressedFacts
<1>2. u.added \in Nat /\ Len(h) \in Nat
  BY DEF SummaryRec
<1>3. PICK k \in 0..Len(h) : (\A i \in 1..k : Covers(u, h[i])) /\ Len(h) - k <= Keep + u.added
  BY DEF Covered
<1> HIDE DEF half, c
<1> DEFINE n == IF k = 0 THEN 0 ELSE IF k > half THEN k - half ELSE 1
<1>4. n \in 0..Len(c) /\ Len(c) - n <= Keep + u.added
  BY <1>1, <1>2, <1>3 DEF Keep
<1>5. ASSUME NEW i \in 1..n PROVE Covers(u, c[i])
  <2>1. CASE i = 1
    <3>1. 1 \in 1..k
      BY <2>1, <1>5
    <3> QED BY <3>1, <2>1, <1>1, <1>3
  <2>2. CASE i # 1
    <3>1. i \in 2..(Len(h) - half) /\ i + half \in 1..k
      BY <2>2, <1>1, <1>2, <1>5
    <3> QED BY <3>1, <1>1, <1>3
  <2> QED BY <2>1, <2>2
<1> HIDE DEF n
<1>6. Covered(c, u)
  BY <1>4, <1>5 DEF Covered
<1> QED BY <1>6 DEF c

\* What is cut off and not covered has been charged.
LEMMA CoveredLoss ==
  ASSUME NEW h \in Seq(Messages), NEW u \in SummaryRec, Covered(h, u)
  PROVE  LET lost == {i \in 1..(Len(h) - Keep) : ~Covers(u, h[i])}
         IN  Cardinality(lost) \in Nat /\ Cardinality(lost) <= u.added
<1> DEFINE lost == {i \in 1..(Len(h) - Keep) : ~Covers(u, h[i])}
<1>1. u.added \in Nat /\ Len(h) \in Nat
  BY DEF SummaryRec
<1>2. PICK k \in 0..Len(h) : (\A i \in 1..k : Covers(u, h[i])) /\ Len(h) - k <= Keep + u.added
  BY DEF Covered
<1>3. k + 1 \in Int /\ Len(h) - Keep \in Int
  BY <1>1 DEF Keep
<1>4. lost \subseteq (k + 1)..(Len(h) - Keep)
  BY <1>1, <1>2 DEF Keep
<1>5. /\ IsFiniteSet((k + 1)..(Len(h) - Keep))
      /\ Cardinality((k + 1)..(Len(h) - Keep)) = IF k + 1 > Len(h) - Keep THEN 0 ELSE (Len(h) - Keep) - (k + 1) + 1
  BY <1>3, FS_Interval
<1>6. IsFiniteSet(lost) /\ Cardinality(lost) <= Cardinality((k + 1)..(Len(h) - Keep))
  BY <1>4, <1>5, FS_Subset
<1>7. Cardinality(lost) \in Nat
  BY <1>6, FS_CardinalityType
<1> HIDE DEF lost
<1>8. Cardinality(lost) <= u.added
  BY <1>1, <1>2, <1>5, <1>6, <1>7 DEF Keep
<1> QED BY <1>7, <1>8 DEF lost

LEMMA LossInit == TurnInit => LossInv
  BY DEF TurnInit, LossInv, LossFree, NoSummary

\* A session whose summariser has at most been charged with more.
LEMMA LossCarry ==
  ASSUME TypeInv, TypeInv', NEW s \in Sessions, LossFree(s), summary'[s].on = summary[s].on, summary'[s].read = summary[s].read,
         summary'[s].missed = summary[s].missed, summary'[s].added >= summary[s].added,
         summary[s].on /\ Covered(hist[s], summary[s]) => Covered(hist'[s], summary'[s]),
         \A w \in Worker : (turn'[w].pc = "compress" /\ ~turn'[w].old /\ SessionOf(turn'[w]) = s) =>
             \/ turn'[w].read = hist'[s]
             \/ turn[w].pc = "compress" /\ ~turn[w].old /\ SessionOf(turn[w]) = s /\ turn'[w].read = turn[w].read
  PROVE  LossFree(s)'
<1>1. summary[s] \in SummaryRec /\ summary'[s] \in SummaryRec
  BY DEF TypeInv
<1>2. \A w \in Worker : turn[w].read \in Seq(Messages)
  <2> SUFFICES ASSUME NEW w \in Worker PROVE turn[w].read \in Seq(Messages)
    OBVIOUS
  <2>1. turn[w] \in TurnRec
    BY DEF TypeInv
  <2> QED BY <2>1, TurnFields
<1>3. summary'[s].missed <= 0 /\ (summary'[s].on => Covered(hist'[s], summary'[s]))
  BY DEF LossFree
<1>4. ASSUME summary'[s].on, NEW w \in Worker, turn'[w].pc = "compress", ~turn'[w].old, SessionOf(turn'[w]) = s
      PROVE  Covered(turn'[w].read, summary'[s])
  <2>1. CASE turn'[w].read = hist'[s]
    BY <2>1, <1>3, <1>4
  <2>2. CASE turn[w].pc = "compress" /\ ~turn[w].old /\ SessionOf(turn[w]) = s /\ turn'[w].read = turn[w].read
    <3>1. Covered(turn[w].read, summary[s])
      BY <2>2, <1>4 DEF LossFree
    <3>2. Covered(turn[w].read, summary'[s])
      BY <3>1, <1>1, <1>2, CoveredMore
    <3> QED BY <2>2, <3>2
  <2> QED BY <2>1, <2>2, <1>4
<1> QED BY <1>3, <1>4 DEF LossFree

\* A turn that holds what it has read.
Held(t, u) == u.pc = "compress" => /\ t.pc = "compress" /\ u.read = t.read /\ SessionOf(u) = SessionOf(t)
                                   /\ t.old => u.old

\* A message is saved in session z: its summariser is charged with it.
LEMMA LossSave ==
  ASSUME TypeInv, TypeInv', LossInv, NEW z \in Sessions, NEW m \in Messages, Save(z, m),
         \A w \in Worker : Held(turn[w], turn'[w])
  PROVE  LossInv'
<1>1. /\ hist'[z] = Append(hist[z], m) /\ \A r \in Sessions : r # z => hist'[r] = hist[r]
      /\ \A r \in Sessions : /\ summary'[r].on = summary[r].on /\ summary'[r].read = summary[r].read
                             /\ summary'[r].missed = summary[r].missed
                             /\ summary'[r].added = IF r = z /\ summary[z].on THEN summary[r].added + 1
                                                    ELSE summary[r].added
  BY SaveFacts
<1> SUFFICES ASSUME NEW s \in Sessions PROVE LossFree(s)'
  BY DEF LossInv
<1>2. summary[s] \in SummaryRec /\ summary'[s] \in SummaryRec /\ hist[s] \in Seq(Messages) /\ summary[s].added \in Nat
  BY DEF TypeInv, SummaryRec
<1>3. summary'[s].added >= summary[s].added
  BY <1>1, <1>2
<1>4. summary[s].on /\ Covered(hist[s], summary[s]) => Covered(hist'[s], summary'[s])
  <2>1. CASE s = z
    BY <2>1, <1>1, <1>2, CoveredAppend
  <2>2. CASE s # z
    BY <2>2, <1>1, <1>2, <1>3, CoveredMore
  <2> QED BY <2>1, <2>2
<1>5. \A w \in Worker : (turn'[w].pc = "compress" /\ ~turn'[w].old /\ SessionOf(turn'[w]) = s) =>
          turn[w].pc = "compress" /\ ~turn[w].old /\ SessionOf(turn[w]) = s /\ turn'[w].read = turn[w].read
  BY DEF Held
<1>6. LossFree(s)
  BY DEF LossInv
<1> QED BY <1>1, <1>3, <1>4, <1>5, <1>6, LossCarry

\* What a turn has read is put back: it is covered as the history was, or it is charged.
LEMMA LossWrites ==
  ASSUME TypeInv, TypeInv', LossInv, NEW w \in Worker, Writes(w), \A v \in Worker : v # w => turn'[v] = turn[v]
  PROVE  LossInv'
<1> DEFINE t == turn[w]
           z == SessionOf(t)
           cut == Len(t.read) > 4
           now == IF cut THEN Compressed(t.read) ELSE hist[z]
<1>1. /\ t.pc = "compress" /\ turn'[w].pc = "model" /\ hist' = [hist EXCEPT ![z] = now]
      /\ summary' = (IF cut /\ t.old /\ summary[z].on THEN [summary EXCEPT ![z].added = @ + Len(now)] ELSE summary)
  BY DEF Writes
<1>2. /\ t \in TurnRec /\ z \in Sessions /\ hist \in [Sessions -> Seq(Messages)] /\ summary \in [Sessions -> SummaryRec]
      /\ t.read \in Seq(Messages)
  <2>1. t \in TurnRec /\ hist \in [Sessions -> Seq(Messages)] /\ summary \in [Sessions -> SummaryRec]
    BY DEF TypeInv
  <2> HIDE DEF t
  <2> QED BY <2>1, SessionFact, TurnFields
<1>3. now \in Seq(Messages) /\ Len(now) \in Nat
  <2>1. cut => Compressed(t.read) \in Seq(Messages)
    BY <1>2, CompressedType
  <2>2. hist[z] \in Seq(Messages)
    BY <1>2
  <2> QED BY <2>1, <2>2
<1>4. \A s \in Sessions : /\ summary'[s].on = summary[s].on /\ summary'[s].read = summary[s].read
                          /\ summary'[s].missed = summary[s].missed
                          /\ summary'[s].added = IF s = z /\ cut /\ t.old /\ summary[z].on
                                                 THEN summary[s].added + Len(now) ELSE summary[s].added
  <2> HIDE DEF now, cut, t
  <2>1. CASE cut /\ t.old /\ summary[z].on
    <3> HIDE DEF z
    <3>1. summary' = [summary EXCEPT ![z].added = @ + Len(now)]
      BY <2>1, <1>1
    <3> QED BY <2>1, <3>1, <1>2, <1>3, ChargeFacts
  <2>2. CASE ~(cut /\ t.old /\ summary[z].on)
    BY <2>2, <1>1
  <2> QED BY <2>1, <2>2
<1>5. hist'[z] = now /\ \A s \in Sessions : s # z => hist'[s] = hist[s]
  <2> HIDE DEF now
  <2> QED BY <1>1, <1>2
<1> SUFFICES ASSUME NEW s \in Sessions PROVE LossFree(s)'
  BY DEF LossInv
<1>6. summary[s] \in SummaryRec /\ summary'[s] \in SummaryRec /\ hist[s] \in Seq(Messages) /\ summary[s].added \in Nat /\ LossFree(s)
  BY DEF TypeInv, SummaryRec, LossInv
<1>7. summary'[s].added >= summary[s].added
  <2> HIDE DEF now, cut
  <2> QED BY <1>3, <1>4, <1>6
<1>8. summary[s].on /\ Covered(hist[s], summary[s]) => Covered(hist'[s], summary'[s])
  <2> SUFFICES ASSUME summary[s].on, Covered(hist[s], summary[s]) PROVE Covered(hist'[s], summary'[s])
    OBVIOUS
  <2>1. CASE s = z /\ cut /\ t.old
    <3> HIDE DEF now
    <3>1. summary'[s].added >= Len(now)
      BY <2>1, <1>3, <1>4, <1>6
    <3> QED BY <2>1, <3>1, <1>3, <1>5, <1>6, CoveredAll
  <2>2. CASE s = z /\ cut /\ ~t.old
    <3>1. Covered(t.read, summary[s])
      BY <2>2, <1>1, <1>6 DEF LossFree
    <3>2. Covered(Compressed(t.read), summary[s])
      BY <2>2, <3>1, <1>2, <1>6, CoveredCompressed
    <3>3. hist'[s] = Compressed(t.read) /\ Compressed(t.read) \in Seq(Messages)
      BY <2>2, <1>3, <1>5
    <3>4. summary'[s].read = summary[s].read
      BY <1>4
    <3> QED BY <3>2, <3>3, <3>4, <1>6, <1>7, CoveredMore
  <2>3. CASE s # z \/ ~cut
    <3>1. hist'[s] = hist[s]
      BY <2>3, <1>5
    <3> QED BY <3>1, <1>4, <1>6, <1>7, CoveredMore
  <2> QED BY <2>1, <2>2, <2>3
<1>9. \A v \in Worker : (turn'[v].pc = "compress" /\ ~turn'[v].old /\ SessionOf(turn'[v]) = s) =>
          turn[v].pc = "compress" /\ ~turn[v].old /\ SessionOf(turn[v]) = s /\ turn'[v].read = turn[v].read
  BY <1>1
<1> HIDE DEF now, cut, t, z
<1> QED BY <1>4, <1>6, <1>7, <1>8, <1>9, LossCarry

LEMMA LossFinish ==
  ASSUME TypeInv, TypeInv', LossInv, NEW w \in Worker, Finish(w)
  PROVE  LossInv'
<1>0. \A x \in Worker \ {w} : \E b \in BOOLEAN :
          /\ turn'[x] = [turn[x] EXCEPT !.old = b]
          /\ turn[x].old => b
          /\ ~b => ~(/\ Summarizes(turn[w], Append(hist[SessionOf(turn[w])], Message("assistant", turn[w].id, <<0, 0>>)))
                     /\ turn[x].pc = "compress" /\ SessionOf(turn[x]) = SessionOf(turn[w]))
  BY FinishTurns
<1> DEFINE t == turn[w]
           z == SessionOf(t)
           m == Message("assistant", t.id, <<0, 0>>)
           h == Append(hist[z], m)
           begins == Summarizes(t, h)
<1>1. /\ z \in Sessions /\ h \in Seq(Messages) /\ hist'[z] = h
      /\ \A r \in Sessions : r # z => hist'[r] = hist[r] /\ summary'[r] = summary[r]
      /\ begins => summary'[z].on /\ summary'[z].read = h /\ summary'[z].missed = 0
  BY FinishFacts
<1>2. \A v \in Worker : Held(turn[v], turn'[v])
  <2> SUFFICES ASSUME NEW v \in Worker PROVE Held(turn[v], turn'[v])
    OBVIOUS
  <2> DEFINE u == turn[v]
  <2>1. PICK p, b : /\ turn'[v] = [u EXCEPT !.pc = p, !.old = b] /\ (IF v = w THEN p = "respond" ELSE p = u.pc)
                    /\ b = IF begins /\ v \in Active(z) /\ u.pc = "compress" THEN TRUE ELSE u.old
    <3>1. turn'[v] = [u EXCEPT !.pc = IF v = w THEN "respond" ELSE @,
                               !.old = IF begins /\ v \in Active(z) /\ u.pc = "compress" THEN TRUE ELSE @]
      BY DEF Finish
    <3> QED BY <3>1
  <2>2. u \in TurnRec
    BY DEF TypeInv
  <2> HIDE DEF u, begins
  <2>3. turn'[v].pc = p /\ turn'[v].old = b /\ turn'[v].read = u.read /\ turn'[v].kind = u.kind /\ turn'[v].agent = u.agent
    BY <2>1, <2>2 DEF TurnRec
  <2> QED BY <2>1, <2>3 DEF Held, SessionOf, u
<1>3. CASE begins
  <2>1. \A v \in Worker : (turn'[v].pc = "compress" /\ SessionOf(turn'[v]) = z) => turn'[v].old
    <3> SUFFICES ASSUME NEW v \in Worker, turn'[v].pc = "compress", SessionOf(turn'[v]) = z PROVE turn'[v].old
      OBVIOUS
    <3>1. turn[v].pc = "compress" /\ SessionOf(turn[v]) = z
      BY <1>2 DEF Held
    <3>2. t.pc = "answer"
      BY DEF Finish
    <3>3. v \in Worker \ {w}
      BY <3>1, <3>2
    <3> DEFINE u == turn[v]
    <3>5. PICK b \in BOOLEAN : turn'[v] = [u EXCEPT !.old = b] /\ (~b => ~(begins /\ u.pc = "compress" /\ SessionOf(u) = z))
      BY <3>3, <1>0
    <3>6. u \in TurnRec /\ b
      BY <1>3, <3>1, <3>5 DEF TypeInv
    <3> HIDE DEF u
    <3> QED BY <3>5, <3>6 DEF TurnRec
  <2> SUFFICES ASSUME NEW s \in Sessions PROVE LossFree(s)'
    BY DEF LossInv
  <2>2. CASE s = z
    <3> HIDE DEF begins, h
    <3>1. summary'[s] \in SummaryRec
      BY DEF TypeInv
    <3>2. Covered(h, summary'[s])
      BY <1>1, <1>3, <2>2, <3>1, CoveredBegin
    <3> QED BY <1>1, <1>3, <2>1, <2>2, <3>2 DEF LossFree
  <2>3. CASE s # z
    <3>1. hist'[s] = hist[s] /\ summary'[s] = summary[s] /\ summary[s] \in SummaryRec /\ LossFree(s)
      BY <1>1, <2>3 DEF TypeInv, LossInv
    <3>2. summary'[s].added >= summary[s].added
      BY <3>1 DEF SummaryRec
    <3>3. \A v \in Worker : (turn'[v].pc = "compress" /\ ~turn'[v].old /\ SessionOf(turn'[v]) = s) =>
              turn[v].pc = "compress" /\ ~turn[v].old /\ SessionOf(turn[v]) = s /\ turn'[v].read = turn[v].read
      BY <1>2 DEF Held
    <3> QED BY <3>1, <3>2, <3>3, LossCarry
  <2> QED BY <2>2, <2>3
<1>4. CASE ~begins
  <2>1. Save(z, m)
    BY <1>4 DEF Finish, Save
  <2>2. m \in Messages
    <3>1. t.id \in Nat
      <4>1. turn[w] \in TurnRec BY DEF TypeInv
      <4> QED BY <4>1, TurnFields
    <3> QED BY <3>1, NewMessage
  <2> HIDE DEF m, z
  <2> QED BY <1>1, <1>2, <2>1, <2>2, LossSave
<1> QED BY <1>3, <1>4

LEMMA LossStart ==
  ASSUME TurnAssumption, TypeInv, TypeInv', LossInv, NEW w \in Worker, NEW kind \in Kinds \ {"none"}, NEW agent \in Agents,
         Start(w, kind, agent), world' = world
  PROVE  LossInv'
<1> DEFINE s == IF kind = "heartbeat" THEN "heartbeat" ELSE agent
           m == Message("user", begun + 1, <<0, 0>>)
<1>1. s \in Sessions
  BY StartFacts
<1>2. m \in Messages
  BY StartFacts
<1>3. Save(s, m)
  BY StartFacts
<1>4. \A v \in Worker : v # w => turn'[v] = turn[v]
  BY StartFacts
<1>5. turn'[w].pc = "model"
  <2>1. w \in DOMAIN turn
    BY DEF TypeInv
  <2> QED BY <2>1 DEF Start, Idle
<1>6. \A v \in Worker : Held(turn[v], turn'[v])
  BY <1>4, <1>5 DEF Held
<1> HIDE DEF s, m
<1> QED BY <1>1, <1>2, <1>3, <1>6, LossSave

\* A step that leaves the summaries alone and at most empties a history.
LEMMA LossQuiet ==
  ASSUME TypeInv, TypeInv', LossInv, summary' = summary, \A s \in Sessions : hist'[s] \in {hist[s], <<>>},
         \A w \in Worker : Held(turn[w], turn'[w])
                           \/ (turn'[w].pc = "compress" /\ turn'[w].read = hist[SessionOf(turn'[w])] /\ hist' = hist)
  PROVE  LossInv'
<1> SUFFICES ASSUME NEW s \in Sessions PROVE LossFree(s)'
  BY DEF LossInv
<1>1. summary[s] \in SummaryRec /\ summary[s].added \in Nat /\ LossFree(s) /\ <<>> \in Seq(Messages)
  BY DEF TypeInv, SummaryRec, LossInv
<1>2. Covered(<<>>, summary[s])
  <2> DEFINE h == <<>>
  <2>1. h \in Seq(Messages) /\ summary[s].added >= Len(h) /\ summary[s] \in SummaryRec
    BY <1>1
  <2> HIDE DEF h
  <2>2. Covered(h, summary[s])
    BY <2>1, CoveredAll
  <2> QED BY <2>2 DEF h
<1>3. summary[s].on /\ Covered(hist[s], summary[s]) => Covered(hist'[s], summary'[s])
  BY <1>2
<1>4. summary'[s].added >= summary[s].added
  BY <1>1
<1>5. \A v \in Worker : (turn'[v].pc = "compress" /\ ~turn'[v].old /\ SessionOf(turn'[v]) = s) =>
          \/ turn'[v].read = hist'[s]
          \/ turn[v].pc = "compress" /\ ~turn[v].old /\ SessionOf(turn[v]) = s /\ turn'[v].read = turn[v].read
  BY DEF Held
<1> QED BY <1>1, <1>3, <1>4, <1>5, LossCarry

LEMMA LossStep == TurnAssumption /\ TypeInv /\ TypeInv' /\ LossInv /\ [TurnNext]_turnVars => LossInv'
<1> SUFFICES ASSUME TurnAssumption, TypeInv, TypeInv', LossInv, [TurnNext]_turnVars PROVE LossInv'
  OBVIOUS
<1> USE DEF bus, agentState, background, counts, ghosts
<1>t. /\ turn \in [Worker -> TurnRec] /\ hist \in [Sessions -> Seq(Messages)] /\ inbox \in Seq(Request)
      /\ summary \in [Sessions -> SummaryRec]
  BY DEF TypeInv
<1>w. world.kinds \subseteq {"heartbeat", "cron"} /\ DefaultAgent \in Agents /\ "run" \in Worker /\ "side" \in Worker
  BY WorldFacts DEF TypeInv, Worker
<1>1. CASE Arrive \/ ReloadConfig \/ CloseProvider \/ (\E id \in tasks : AsyncDone(id)) \/ UNCHANGED turnVars
  <2>1. hist' = hist /\ turn' = turn /\ summary' = summary
    BY <1>1 DEF Arrive, ReloadConfig, CloseProvider, AsyncDone, turnVars
  <2> QED BY <2>1, LossQuiet DEF Held
<1>2. CASE Take
  <2>1. Head(inbox).agent \in Agents
    <3>1. Head(inbox) \in Request
      BY <1>2, <1>t DEF Take
    <3> QED BY <3>1 DEF Request
  <2>2. Start("run", "user", Head(inbox).agent) /\ world' = world
    BY <1>2 DEF Take
  <2>3. "user" \in Kinds \ {"none"}
    BY DEF Kinds
  <2> QED BY <2>1, <2>2, <2>3, <1>w, LossStart
<1>3. CASE TakeSystem
  <2>2. Start("run", "system", DefaultAgent) /\ world' = world
    BY <1>3 DEF TakeSystem
  <2>3. "system" \in Kinds \ {"none"}
    BY DEF Kinds
  <2> QED BY <2>2, <2>3, <1>w, LossStart
<1>4. ASSUME NEW kind \in world.kinds, Side(kind) PROVE LossInv'
  <2>2. Start("side", kind, DefaultAgent) /\ world' = world
    BY <1>4 DEF Side
  <2>3. kind \in Kinds \ {"none"}
    BY <1>w DEF Kinds
  <2> QED BY <2>2, <2>3, <1>w, LossStart
<1>5. CASE Command
  <2> DEFINE a == Head(inbox).agent
             new == [Idle EXCEPT !.pc = "respond", !.kind = "command", !.agent = a, !.id = begun + 1, !.gen = gen]
  <2>1. turn' = [turn EXCEPT !["run"] = new] /\ hist' = [hist EXCEPT ![a] = <<>>] /\ summary' = summary
    BY <1>5 DEF Command
  <2>2. new.pc = "respond"
    BY DEF Idle
  <2> HIDE DEF new, a
  <2>3. \A v \in Worker : Held(turn[v], turn'[v])
    BY <2>1, <2>2, <1>t, <1>w DEF Held
  <2>4. \A s \in Sessions : hist'[s] \in {hist[s], <<>>}
    BY <2>1, <1>t
  <2> QED BY <2>1, <2>3, <2>4, LossQuiet
<1>6. ASSUME NEW z \in Sessions, Summarized(z) PROVE LossInv'
  <2>1. turn' = turn
    BY <1>6 DEF Summarized
  <2>2. /\ summary[z].on /\ \A r \in Sessions : r # z => hist'[r] = hist[r] /\ summary'[r] = summary[r]
        /\ ~summary'[z].on
        /\ \/ summary'[z].missed = 0
           \/ summary'[z].missed = Cardinality({i \in 1..(Len(hist[z]) - Keep) :
                  ~\E j \in 1..(Len(summary[z].read) - Keep) : summary[z].read[j] = hist[z][i]}) - summary[z].added
    BY <1>6, SummarizedFacts
  <2> SUFFICES ASSUME NEW s \in Sessions PROVE LossFree(s)'
    BY DEF LossInv
  <2>3. CASE s = z
    <3> DEFINE lost == {i \in 1..(Len(hist[z]) - Keep) : ~Covers(summary[z], hist[z][i])}
    <3>1. summary'[z].missed \in {0, Cardinality(lost) - summary[z].added}
      BY <2>2 DEF Covers
    <3>2. Covered(hist[z], summary[z]) /\ hist[z] \in Seq(Messages) /\ summary[z] \in SummaryRec
      BY <2>2, <1>t DEF LossInv, LossFree
    <3>3. Cardinality(lost) \in Nat /\ Cardinality(lost) <= summary[z].added
      BY <3>2, CoveredLoss
    <3> HIDE DEF lost
    <3>4. summary[z].added \in Nat
      BY <3>2 DEF SummaryRec
    <3>5. summary'[z].missed <= 0
      BY <3>1, <3>3, <3>4
    <3> QED BY <3>5, <2>2, <2>3 DEF LossFree
  <2>4. CASE s # z
    <3>1. hist'[s] = hist[s] /\ summary'[s] = summary[s] /\ summary[s] \in SummaryRec /\ LossFree(s)
      BY <2>2, <2>4, <1>t DEF LossInv
    <3> QED BY <3>1, <2>1 DEF LossFree
  <2> QED BY <2>3, <2>4
<1>7. ASSUME NEW w \in Worker, Advance(w) PROVE LossInv'
  <2> DEFINE t == turn[w]
  <2>1. CASE Finish(w)
    BY <2>1, LossFinish
  <2>2. CASE RunTool(w)
    <3>1. hist' = hist /\ summary' = summary
      BY <2>2 DEF RunTool
    <3>2. ASSUME NEW v \in Worker PROVE Held(turn[v], turn'[v])
      <4> DEFINE u == turn[v]
      <4>1. PICK i : turn'[v] = [u EXCEPT !.ran = IF v = w THEN @ \cup {i} ELSE @,
                                          !.heard = @ \/ (turn[w].calls[i] = "message" /\ turn[w].agent = DefaultAgent)]
        BY <2>2 DEF RunTool
      <4> DEFINE a == IF v = w THEN u.ran \cup {i} ELSE u.ran
                 b == u.heard \/ (turn[w].calls[i] = "message" /\ turn[w].agent = DefaultAgent)
      <4>2. turn'[v] = [u EXCEPT !.ran = a, !.heard = b]
        BY <4>1
      <4>3. u \in TurnRec
        BY <1>t
      <4> HIDE DEF u, a, b
      <4>4. Held(u, turn'[v])
        BY <4>2, <4>3 DEF TurnRec, Held, SessionOf
      <4> QED BY <4>4 DEF u
    <3> QED BY <3>1, <3>2, LossQuiet
  <2>3. CASE Respond(w)
    <3>1. hist' = hist /\ summary' = summary /\ turn' = [turn EXCEPT ![w] = Idle]
      BY <2>3 DEF Respond
    <3>2. \A v \in Worker : Held(turn[v], turn'[v])
      BY <3>1, <1>t DEF Held, Idle
    <3> QED BY <3>1, <3>2, LossQuiet
  <2>4. CASE ~Finish(w) /\ ~RunTool(w) /\ ~Respond(w)
    <3>0. /\ Calm(w) \/ Reads(w) \/ Writes(w) \/ Called(w) \/ Stored(w) \/ Turns(w)
          /\ \A v \in Worker : v # w => turn'[v] = turn[v]
      BY <2>4, <1>7, AdvanceFacts
    <3>1. \A v \in Worker : v # w => Held(turn[v], turn'[v])
      BY <3>0 DEF Held
    <3>2. CASE Calm(w) \/ Turns(w)
      <4>1. hist' = hist /\ summary' = summary /\ turn'[w].pc # "compress"
        BY <3>2 DEF Calm, Turns
      <4>2. \A v \in Worker : Held(turn[v], turn'[v])
        BY <3>1, <4>1 DEF Held
      <4> QED BY <4>1, <4>2, LossQuiet
    <3>3. CASE Reads(w)
      <4>1. hist' = hist /\ summary' = summary /\ turn'[w].pc = "compress" /\ turn'[w].read = hist[SessionOf(turn'[w])]
        BY <3>3 DEF Reads, SameRound, SameTurn
      <4> QED BY <3>1, <4>1, LossQuiet
    <3>4. CASE Writes(w)
      BY <3>0, <3>4, LossWrites
    <3>5. CASE Called(w) \/ Stored(w)
      <4>1. PICK m \in Messages : Save(SessionOf(t), m) /\ turn'[w].pc = "tools"
        BY <3>5 DEF Called, Stored, Asks, Stores
      <4>2. SessionOf(t) \in Sessions
        <5>1. turn[w] \in TurnRec BY <1>t
        <5> QED BY <5>1, SessionFact
      <4>3. \A v \in Worker : Held(turn[v], turn'[v])
        BY <3>1, <4>1 DEF Held
      <4> QED BY <4>1, <4>2, <4>3, LossSave
    <3> QED BY <3>0, <3>2, <3>3, <3>4, <3>5
  <2> QED BY <2>1, <2>2, <2>3, <2>4
<1> QED BY <1>1, <1>2, <1>3, <1>4, <1>5, <1>6, <1>7 DEF TurnNext

-----------------------------------------------------------------------------
TurnInv == TypeInv /\ HistoryInv /\ RequestInv /\ SilentInv /\ LossInv

\* In every reachable state the five parts of the invariant hold.
LEMMA TurnInvHolds == TurnSpec => []TurnInv
<1>1. TurnAssumption /\ TurnInit => TurnInv
  BY TypeInit, HistoryInit, RequestInit, SilentInit, LossInit DEF TurnInv
<1>2. TurnAssumption /\ TurnInv /\ [TurnNext]_turnVars => TurnInv'
  BY TypeStep, HistoryStep, RequestStep, SilentStep, LossStep DEF TurnInv
<1> QED BY <1>1, <1>2, TurnAssumption, PTL DEF TurnSpec

\* The invariant says what the runs check.
LEMMA TypeSays == TurnAssumption /\ TypeInv => TurnTypeOK
<1> SUFFICES ASSUME TurnAssumption, TypeInv PROVE TurnTypeOK
  OBVIOUS
<1>1. \A i \in DOMAIN inbox : inbox[i].kind \in {"user", "command", "system"}
  <2> SUFFICES ASSUME NEW i \in DOMAIN inbox PROVE inbox[i].kind \in {"user", "command", "system"}
    OBVIOUS
  <2>1. inbox[i] \in Request
    BY DEF TypeInv
  <2> QED BY <2>1 DEF Request
<1>2. ASSUME NEW w \in Worker
      PROVE  turn[w].retry \in 0..MaxRetries /\ turn[w].iter \in 0..world.iterations /\ turn[w].saved \in 0..Len(turn[w].calls)
  <2>1. turn[w] \in TurnRec /\ TurnBounds(turn[w])
    BY DEF TypeInv
  <2>2. turn[w].retry \in 0..MaxRetries /\ turn[w].saved \in Nat /\ Len(turn[w].calls) \in Nat
    BY <2>1, TurnFields
  <2> QED BY <2>1, <2>2 DEF TurnBounds
<1>3. \A s \in Sessions : summary[s].on \in BOOLEAN /\ summary[s].missed \in Int
  BY DEF TypeInv, SummaryRec
<1> QED BY <1>1, <1>2, <1>3 DEF TypeInv, TurnTypeOK

LEMMA LossSays == LossInv => SummaryLossBounded
  BY DEF LossInv, LossFree, SummaryLossBounded

\* The types and bounds of the turns, histories and summaries of any configuration.
THEOREM TurnTypeCorrect == TurnSpec => []TurnTypeOK
<1>1. TurnInv => TurnTypeOK
  BY TypeSays, TurnAssumption DEF TurnInv
<1> QED BY <1>1, TurnInvHolds, PTL

\* A user of the default agent gets no answer only when a message tool has spoken during
\* that very turn (processMessage resets the flag before the turn, loop.go:713).
THEOREM TurnSilence == TurnSpec => []SilentOnlyIfSent
<1>1. TurnInv => SilentOnlyIfSent
  BY DEF TurnInv, SilentInv
<1> QED BY <1>1, TurnInvHolds, PTL

\* The calls of a turn that is over have their results behind them, in order, however many
\* turns save to the session and summaries cut it (loop.go:1252-1387).
THEOREM TurnResults == TurnSpec => []CallsAnswered
<1>1. TurnInv => CallsAnswered
  BY HistorySays DEF TurnInv
<1> QED BY <1>1, TurnInvHolds, PTL

\* A summary loses at most what was saved, or put back, while it was made (summarizeSession).
THEOREM TurnLoss == TurnSpec => []SummaryLossBounded
<1>1. TurnInv => SummaryLossBounded
  BY LossSays DEF TurnInv
<1> QED BY <1>1, TurnInvHolds, PTL

\* The prompt of a turn's first iteration holds its request, if nobody else is in the
\* session, also when the history was compressed for it (loop.go:1461).
THEOREM TurnRequest == TurnSpec => []RequestKept
<1>1. TurnInv => RequestKept
  BY RequestSays DEF TurnInv
<1> QED BY <1>1, TurnInvHolds, PTL

\* All of them: what a turn does to a conversation, whatever crosses it.
THEOREM TurnsKeepSound == TurnSpec => []TurnSound
<1> QED BY TurnTypeCorrect, TurnSilence, TurnResults, TurnLoss, TurnRequest, PTL DEF TurnSound
=============================================================================

--------------------------- MODULE ServiceProofs ---------------------------
(***************************************************************************)
(* Proofs about the services around the agent loop: the cache of the       *)
(* system prompt, the tool registry, the credentials, the session          *)
(* backends, the heartbeat, MCP, the media store, the fallback chain and   *)
(* the control of the gateway process, each for any value of its           *)
(* constants.  The modules share no state, and each theorem is about one   *)
(* of them alone.                                                          *)
(***************************************************************************)
EXTENDS PromptCache, AgentTools, Credentials, SessionBackends, Heartbeat, McpManager, MediaStore,
        ProviderFallback, GatewayControl, FiniteSetTheorems, WellFoundedInduction, TLAPS
-----------------------------------------------------------------------------
(* The cache of the prompt (PromptCache).                                  *)

\* A bounded set of numbers that is not empty has a greatest one.
LEMMA GreatestExists ==
  ASSUME NEW T, T # {}, NEW bound \in Nat, T \subseteq 0..bound
  PROVE  \E m \in T : \A n \in T : n <= m
<1> DEFINE Gaps == {k \in Nat : \E n \in T : k = bound - n}
           Below == {ss \in Nat \X Nat : ss[1] < ss[2]}
<1>1. Below = OpToRel(<, Nat)
  BY DEF OpToRel
<1>2. IsWellFoundedOn(Below, Nat)
  BY <1>1, NatLessThanWellFounded
<1>3. Gaps \subseteq Nat /\ Gaps # {}
  <2>1. PICK n \in T : TRUE
    OBVIOUS
  <2>2. bound - n \in Nat
    BY <2>1
  <2> QED BY <2>1, <2>2
<1>4. PICK x \in Gaps : \A y \in Gaps : ~(<<y, x>> \in Below)
  <2> HIDE DEF Gaps, Below
  <2> QED BY <1>2, <1>3, WFMin
<1>5. PICK m \in T : x = bound - m
  BY <1>4
<1>6. ASSUME NEW n \in T, n > m PROVE FALSE
  <2>1. bound - n \in Gaps /\ bound - n < x
    BY <1>5, <1>6
  <2>2. <<bound - n, x>> \in Below
    BY <2>1, <1>3, <1>4
  <2> QED BY <1>4, <2>1, <2>2
<1> QED BY <1>5, <1>6

\* The latest time among the tracked files is one of them, and no file is later.
LEMMA LatestTime ==
  ASSUME CacheAssumption, NEW bound \in Nat, \A f \in Files : file[f] \in 0..bound
  PROVE  Latest \in 0..bound
<1> DEFINE T == {file[f] : f \in Tracked}
<1>1. T # {} /\ T \subseteq 0..bound
  BY DEF CacheAssumption, Tracked, Files
<1>2. \E m \in T : \A n \in T : n <= m
  <2> HIDE DEF T
  <2> QED BY <1>1, GreatestExists
<1>3. Latest \in T
  BY <1>2 DEF Latest
<1> QED BY <1>1, <1>3

CacheRec == [filled : BOOLEAN, prompt : [Files -> 0..MaxWrites], at : 0..MaxWrites, existed : SUBSET Files,
             skills : [Files -> 0..MaxWrites]]
BuildRec == [pc : {"rest", "wait", "baseline", "read"}, base : CacheRec, prompt : [Files -> 0..MaxWrites],
             left : SUBSET Files]
CacheTypes ==
    /\ file \in [Files -> 0..MaxWrites] /\ clock \in 0..MaxWrites /\ lock \in Turns \cup {NoTurn}
    /\ cached \in CacheRec /\ build \in [Turns -> BuildRec]
    /\ \A t \in Turns : build[t].pc \in {"baseline", "read"} <=> lock = t

\* Nothing is later than the last write.
Within(base, last) == base.at <= last /\ \A f \in Files : base.skills[f] <= last
TimesInv ==
    /\ \A f \in Files : file[f] <= clock
    /\ Within(cached, clock) /\ \A t \in Turns : Within(build[t].base, clock)

\* The prompt shows f as it is in files, or the baseline tells that f has changed, or f is gone.
ShowsOrTells(f, files, base, prompt) ==
    \/ files[f] = 0 \/ prompt[f] = files[f]
    \/ f \in Sources /\ (f \notin base.existed \/ files[f] > base.at)
    \/ f \in Skills /\ files[f] # base.skills[f]
\* So it is for the cached prompt, and for what a build has read so far.
ShownInv ==
    /\ cached.filled => \A f \in Tracked : ShowsOrTells(f, file, cached, cached.prompt)
    /\ \A t \in Turns : build[t].pc = "read" =>
           \A f \in Tracked \ build[t].left : ShowsOrTells(f, file, build[t].base, build[t].prompt)

CacheInv == CacheTypes /\ TimesInv /\ ShownInv

LEMMA CacheInvInit == CacheAssumption /\ CacheInit => CacheInv
<1> SUFFICES ASSUME CacheAssumption, CacheInit PROVE CacheInv
  OBVIOUS
<1>1. Nowhere \in [Files -> 0..MaxWrites] /\ NoCache \in CacheRec /\ Resting \in BuildRec
  BY DEF CacheAssumption, Nowhere, NoCache, Resting, CacheRec, BuildRec
<1>2. CacheTypes
  BY <1>1 DEF CacheAssumption, CacheInit, CacheTypes, Resting, NoTurn
<1>3. TimesInv
  BY DEF CacheInit, TimesInv, Within, Resting, NoCache, Nowhere
<1>4. ShownInv
  BY DEF CacheInit, ShownInv, NoCache, Resting
<1> QED BY <1>2, <1>3, <1>4 DEF CacheInv

\* A later write, or a removal, is told by any baseline of before.
LEMMA WriteTold ==
  ASSUME CacheAssumption, NEW files \in [Files -> 0..MaxWrites], NEW last \in 0..MaxWrites, last < MaxWrites,
         NEW g \in Files, NEW v \in {0, last + 1}, NEW base \in CacheRec, Within(base, last),
         NEW prompt \in [Files -> 0..MaxWrites], NEW f \in Tracked, ShowsOrTells(f, files, base, prompt)
  PROVE  ShowsOrTells(f, [files EXCEPT ![g] = v], base, prompt)
BY DEF CacheAssumption, ShowsOrTells, Within, CacheRec, Tracked, Files

LEMMA CacheInvStep == CacheAssumption /\ CacheInv /\ [CacheNext]_cacheVars => CacheInv'
<1> SUFFICES ASSUME CacheAssumption, CacheInv, [CacheNext]_cacheVars PROVE CacheInv'
  OBVIOUS
<1>0. /\ MaxWrites \in Nat /\ NoTurn \notin Turns /\ Tracked \subseteq Files
      /\ CacheTypes /\ TimesInv /\ ShownInv
  BY DEF CacheAssumption, NoTurn, Tracked, Files, CacheInv
<1>1. /\ file \in [Files -> 0..MaxWrites] /\ clock \in 0..MaxWrites /\ lock \in Turns \cup {NoTurn}
      /\ cached \in CacheRec /\ build \in [Turns -> BuildRec]
      /\ \A f \in Files : file[f] <= clock /\ file[f] \in 0..clock
      /\ \A t \in Turns : build[t].pc \in {"baseline", "read"} <=> lock = t
      /\ cached.prompt \in [Files -> 0..MaxWrites]
  BY <1>0 DEF CacheTypes, TimesInv, CacheRec
<1>2. /\ NoCache \in CacheRec /\ Resting \in BuildRec /\ Within(NoCache, clock) /\ Within(Resting.base, clock)
      /\ Resting.pc = "rest" /\ ~NoCache.filled
  BY <1>0, <1>1 DEF Nowhere, NoCache, Resting, CacheRec, BuildRec, Within
<1>3. \A t \in Turns : /\ build[t] \in BuildRec /\ build[t].base \in CacheRec
                       /\ build[t].prompt \in [Files -> 0..MaxWrites] /\ build[t].left \subseteq Files
                       /\ Within(build[t].base, clock)
  BY <1>0, <1>1 DEF BuildRec, TimesInv
<1>w. ASSUME NEW g \in Files, NEW v \in {0, clock + 1}, clock < MaxWrites, clock' = clock + 1,
             file' = [file EXCEPT ![g] = v], UNCHANGED <<cached, lock, build>>
      PROVE  CacheInv'
  <2>1. CacheTypes'
    BY <1>0, <1>1, <1>w DEF CacheTypes
  <2>2. TimesInv'
    <3>1. \A f \in Files : file'[f] <= clock'
      BY <1>0, <1>1, <1>w
    <3>2. \A base \in CacheRec : Within(base, clock) => Within(base, clock')
      BY <1>0, <1>1, <1>w DEF Within, CacheRec
    <3>3. Within(cached, clock)' /\ \A t \in Turns : Within(build[t].base, clock)'
      BY <1>0, <1>1, <1>3, <1>w, <3>2 DEF TimesInv
    <3> QED BY <3>1, <3>3 DEF TimesInv
  <2>3. ShownInv'
    <3>1. ASSUME cached.filled, NEW f \in Tracked PROVE ShowsOrTells(f, file', cached, cached.prompt)
      <4>1. ShowsOrTells(f, file, cached, cached.prompt) /\ Within(cached, clock)
        BY <1>0, <3>1 DEF ShownInv, TimesInv
      <4> QED BY <1>1, <1>w, <4>1, WriteTold
    <3>2. ASSUME NEW t \in Turns, build[t].pc = "read", NEW f \in Tracked \ build[t].left
          PROVE  ShowsOrTells(f, file', build[t].base, build[t].prompt)
      <4>1. ShowsOrTells(f, file, build[t].base, build[t].prompt)
        BY <1>0, <3>2 DEF ShownInv
      <4> QED BY <1>1, <1>3, <1>w, <4>1, WriteTold
    <3> QED BY <1>w, <3>1, <3>2 DEF ShownInv
  <2> QED BY <2>1, <2>2, <2>3 DEF CacheInv
<1>4. ASSUME NEW f \in Files, WriteFile(f) PROVE CacheInv'
  BY <1>4, <1>w DEF WriteFile
<1>5. ASSUME NEW f \in Files, RemoveFile(f) PROVE CacheInv'
  BY <1>5, <1>w DEF RemoveFile
\* a step of turn t after which its prompt shows what it should
<1>b. ASSUME NEW t \in Turns, NEW b \in BuildRec, build' = [build EXCEPT ![t] = b], UNCHANGED <<file, clock, cached>>,
             lock' \in Turns \cup {NoTurn}, b.pc \in {"baseline", "read"} <=> lock' = t,
             \A u \in Turns \ {t} : lock' = u <=> lock = u,
             Within(b.base, clock),
             b.pc = "read" => \A f \in Tracked \ b.left : ShowsOrTells(f, file, b.base, b.prompt)
      PROVE  CacheInv'
  <2>0. \A u \in Turns : build'[u] = IF u = t THEN b ELSE build[u]
    BY <1>1, <1>b
  <2>1. CacheTypes'
    BY <1>0, <1>1, <1>b, <2>0 DEF CacheTypes
  <2>2. TimesInv'
    BY <1>0, <1>b, <2>0 DEF TimesInv
  <2>3. ShownInv'
    BY <1>0, <1>b, <2>0 DEF ShownInv
  <2> QED BY <2>1, <2>2, <2>3 DEF CacheInv
<1>6. ASSUME NEW t \in Turns, Miss(t) PROVE CacheInv'
  <2> DEFINE b == [build[t] EXCEPT !.pc = "wait"]
  <2>1. b \in BuildRec /\ b.pc = "wait" /\ b.base = build[t].base
    BY <1>3 DEF BuildRec
  <2>2. build' = [build EXCEPT ![t] = b] /\ UNCHANGED <<file, clock, cached, lock>> /\ lock = NoTurn
    BY <1>6 DEF Miss
  <2> HIDE DEF b
  <2> QED BY <1>0, <1>3, <1>b, <2>1, <2>2
<1>7. ASSUME NEW t \in Turns, LookAgain(t) PROVE CacheInv'
  <2> DEFINE b == [build[t] EXCEPT !.pc = "baseline"]
  <2>1. b \in BuildRec /\ b.pc = "baseline" /\ b.base = build[t].base
    BY <1>3 DEF BuildRec
  <2>2. lock = NoTurn /\ UNCHANGED <<file, clock, cached>>
    BY <1>7 DEF LookAgain
  <2>3. CASE build' = [build EXCEPT ![t] = Resting] /\ UNCHANGED lock
    BY <1>0, <1>2, <1>b, <2>2, <2>3
  <2>4. CASE build' = [build EXCEPT ![t] = b] /\ lock' = t
    <3> HIDE DEF b
    <3> QED BY <1>0, <1>3, <1>b, <2>1, <2>2, <2>4
  <2> QED BY <1>7, <2>3, <2>4 DEF LookAgain
<1>8. ASSUME NEW t \in Turns, Baseline(t) PROVE CacheInv'
  <2> DEFINE base == [NoCache EXCEPT !.at = Latest, !.existed = {f \in Sources : file[f] # 0},
                                     !.skills = [f \in Files |-> IF f \in Skills THEN file[f] ELSE 0]]
             b == [build[t] EXCEPT !.pc = "read", !.left = Files, !.base = base]
  <2>1. Latest \in 0..clock
    BY <1>0, <1>1, LatestTime
  <2>2. base \in CacheRec /\ Within(base, clock)
    <3>1. [f \in Files |-> IF f \in Skills THEN file[f] ELSE 0] \in [Files -> 0..MaxWrites]
      BY <1>0, <1>1
    <3>2. {f \in Sources : file[f] # 0} \in SUBSET Files
      BY DEF Files, Tracked
    <3>3. base \in CacheRec
      <4> DEFINE skills == [f \in Files |-> IF f \in Skills THEN file[f] ELSE 0]
                 existed == {f \in Sources : file[f] # 0}
      <4>1. Latest \in 0..MaxWrites /\ skills \in [Files -> 0..MaxWrites] /\ existed \in SUBSET Files
        BY <1>0, <1>1, <2>1, <3>1, <3>2
      <4>2. base = [NoCache EXCEPT !.at = Latest, !.existed = existed, !.skills = skills]
        OBVIOUS
      <4> HIDE DEF skills, existed, base
      <4> QED BY <1>2, <4>1, <4>2 DEF CacheRec
    <3>4. base.at = Latest /\ base.skills = [f \in Files |-> IF f \in Skills THEN file[f] ELSE 0]
      BY DEF NoCache
    <3> QED BY <1>1, <2>1, <3>3, <3>4 DEF Within
  <2>3. b \in BuildRec /\ b.pc = "read" /\ b.base = base /\ b.left = Files
    <3> HIDE DEF base
    <3> QED BY <1>3, <2>2 DEF BuildRec
  <2>4. build' = [build EXCEPT ![t] = b] /\ UNCHANGED <<file, clock, cached, lock>> /\ build[t].pc = "baseline"
    BY <1>8 DEF Baseline
  <2> HIDE DEF b, base
  <2> QED BY <1>0, <1>1, <1>b, <2>2, <2>3, <2>4
<1>9. ASSUME NEW t \in Turns, NEW f \in Files, ReadFile(t, f) PROVE CacheInv'
  <2> DEFINE b == [build[t] EXCEPT !.left = @ \ {f}, !.prompt[f] = file[f]]
  <2>1. /\ b \in BuildRec /\ b.pc = build[t].pc /\ b.base = build[t].base /\ b.left = build[t].left \ {f}
        /\ b.prompt = [build[t].prompt EXCEPT ![f] = file[f]]
    BY <1>1, <1>3 DEF BuildRec
  <2>2. build' = [build EXCEPT ![t] = b] /\ UNCHANGED <<file, clock, cached, lock>> /\ build[t].pc = "read"
    BY <1>9 DEF ReadFile
  <2>3. ASSUME NEW g \in Tracked \ b.left PROVE ShowsOrTells(g, file, b.base, b.prompt)
    <3>1. CASE g = f
      BY <1>0, <1>3, <2>1, <3>1 DEF ShowsOrTells
    <3>2. CASE g # f
      <4>1. ShowsOrTells(g, file, build[t].base, build[t].prompt) /\ b.prompt[g] = build[t].prompt[g]
        BY <1>0, <1>3, <2>1, <2>2, <2>3, <3>2 DEF ShownInv
      <4> QED BY <2>1, <4>1 DEF ShowsOrTells
    <3> QED BY <3>1, <3>2
  <2> HIDE DEF b
  <2> QED BY <1>0, <1>1, <1>3, <1>b, <2>1, <2>2, <2>3
<1>10. ASSUME NEW t \in Turns, Store(t) PROVE CacheInv'
  <2> DEFINE c == [build[t].base EXCEPT !.filled = TRUE, !.prompt = build[t].prompt]
  <2>1. /\ c \in CacheRec /\ c.at = build[t].base.at /\ c.existed = build[t].base.existed
        /\ c.skills = build[t].base.skills /\ c.prompt = build[t].prompt
    BY <1>3 DEF CacheRec
  <2>2. /\ cached' = c /\ build' = [build EXCEPT ![t] = Resting] /\ lock' = NoTurn /\ UNCHANGED <<file, clock>>
        /\ build[t].pc = "read" /\ build[t].left = {}
    BY <1>10 DEF Store
  <2> HIDE DEF c
  <2>3. \A u \in Turns : build'[u] = IF u = t THEN Resting ELSE build[u]
    BY <1>1, <2>2
  <2>4. lock = t
    BY <1>1, <2>2
  <2>5. CacheTypes'
    BY <1>0, <1>1, <1>2, <2>1, <2>2, <2>3, <2>4 DEF CacheTypes
  <2>6. TimesInv'
    <3>1. Within(c, clock)
      BY <1>3, <2>1 DEF Within
    <3> QED BY <1>0, <1>2, <2>2, <2>3, <3>1 DEF TimesInv
  <2>7. ShownInv'
    <3>1. ASSUME NEW f \in Tracked PROVE ShowsOrTells(f, file, c, c.prompt)
      <4>1. ShowsOrTells(f, file, build[t].base, build[t].prompt)
        BY <1>0, <2>2 DEF ShownInv
      <4> QED BY <2>1, <4>1 DEF ShowsOrTells
    <3> QED BY <1>0, <1>2, <2>2, <2>3, <3>1 DEF ShownInv
  <2> QED BY <2>5, <2>6, <2>7 DEF CacheInv
<1>11. CASE InvalidateCache
  <2>1. cached' = NoCache /\ UNCHANGED <<file, clock, lock, build>>
    BY <1>11 DEF InvalidateCache
  <2>2. CacheTypes'
    BY <1>0, <1>1, <1>2, <2>1 DEF CacheTypes
  <2>3. TimesInv'
    BY <1>0, <1>2, <2>1 DEF TimesInv
  <2>4. ShownInv'
    BY <1>0, <1>2, <2>1 DEF ShownInv
  <2> QED BY <2>2, <2>3, <2>4 DEF CacheInv
<1>12. CASE UNCHANGED cacheVars
  BY <1>0, <1>12 DEF cacheVars, CacheInv, CacheTypes, TimesInv, ShownInv
<1>13. ASSUME NEW t \in Turns, Hit(t) PROVE CacheInv'
  BY <1>12, <1>13 DEF Hit
<1> QED BY <1>4, <1>5, <1>6, <1>7, <1>8, <1>9, <1>10, <1>11, <1>12, <1>13 DEF CacheNext

\* A prompt served from the cache shows every tracked file that exists as it is now, whatever
\* files are written while turns build the prompt (BuildSystemPromptWithCache).
THEOREM CacheFresh == ASSUME CacheAssumption PROVE CacheSpec => []CacheSound
<1>1. CacheInit => CacheInv
  BY CacheInvInit
<1>2. CacheInv /\ [CacheNext]_cacheVars => CacheInv'
  BY CacheInvStep
<1>3. CacheInv => CacheSound
  <2> SUFFICES ASSUME CacheInv PROVE CacheSound
    OBVIOUS
  <2>1. CacheTypeOK
    BY DEF CacheInv, CacheTypes, CacheTypeOK, CacheRec, BuildRec
  <2>2. ServedFresh
    BY DEF CacheInv, ShownInv, ShowsOrTells, ServedFresh, sourceFilesChanged, skillFilesChanged, fileChangedSince,
           Tracked
  <2> QED BY <2>1, <2>2 DEF CacheSound
<1> QED BY <1>1, <1>2, <1>3, PTL DEF CacheSpec

-----------------------------------------------------------------------------
(* The tool registry and the searches (AgentTools).                        *)

ToolRec  == [kind : {"none", "core", "hidden"}, ttl : 0..TTL]
RoundPcs == {"idle", "called", "hit", "snapshot", "build", "found", "answered"}
RoundRec == [pc : RoundPcs, n : Nat, offered : SUBSET Tools, found : SUBSET Tools, known : SUBSET Tools,
             snap : SUBSET Tools, at : Nat, alone : BOOLEAN, due : SUBSET Tools]
TaskPcs  == {"none", "started", "running", "canceled", "completed", "stopped", "failed"}
TaskRec  == [pc : TaskPcs, steps : 0..MaxSteps - 1, dead : BOOLEAN]
ToolTypes ==
    /\ tool \in [Tools -> ToolRec] /\ \A n \in Tools : tool[n].kind # "hidden" => tool[n].ttl = 0
    /\ version \in 0..MaxVersion /\ indexAt \in 0..version
    /\ index = NoIndex \/ index \subseteq Tools
    /\ round \in [Rounds -> RoundRec] /\ task \in [Subagents -> TaskRec]

\* A current index knows every hidden tool.
IndexInv == index # NoIndex /\ indexAt = version => Hidden \subseteq index

\* A turn at t in its round: what it looks for is hidden still, an index it builds or takes knows
\* that, what it was offered can be called, and what it promoted has not lost its time.
HiddenOf(tools) == {n \in Tools : tools[n].kind = "hidden"}
GoodRound(t, tools, at, cachedIndex, cachedAt) ==
    /\ t.known \subseteq HiddenOf(tools)
    /\ t.pc = "build" => /\ t.at <= at /\ (t.at = at => HiddenOf(tools) \subseteq t.snap)
                         /\ cachedIndex = NoIndex \/ cachedAt < t.at
                         /\ t.known \subseteq t.snap
    /\ t.pc = "hit" => cachedIndex = NoIndex \/ t.known \subseteq cachedIndex
    /\ t.pc = "found" => t.known \subseteq t.found
    /\ t.pc = "called" => /\ t.alone => \A n \in t.offered :
                                          \/ tools[n].kind = "core"
                                          \/ tools[n].kind = "hidden" /\ tools[n].ttl > 0
                          /\ TTL > 1 => t.due \subseteq t.offered
    /\ t.pc = "answered" => \A n \in t.due : tools[n].kind = "hidden" /\ tools[n].ttl = TTL
    /\ t.pc = "idle" => \A n \in t.due : tools[n].kind = "hidden" /\ tools[n].ttl >= TTL - 1
    /\ t.pc \in {"hit", "snapshot", "build", "found"} => t.due = {}
\* One builds at a time, from a snapshot that is good for those who wait to take the cached index.
BuilderInv ==
    \A q \in Rounds : round[q].pc = "build" =>
        \A r \in Rounds : /\ round[r].pc = "build" => r = q
                          /\ round[r].pc = "hit" => round[r].known \subseteq round[q].snap
SearchInv == ToolTypes /\ IndexInv /\ (\A r \in Rounds : GoodRound(round[r], tool, version, index, indexAt)) /\ BuilderInv

LEMMA SearchInvInit == ToolsAssumption /\ ToolsInit => SearchInv
<1> SUFFICES ASSUME ToolsAssumption, ToolsInit PROVE SearchInv
  OBVIOUS
<1>1. NotThere \in ToolRec /\ NoRound \in RoundRec /\ NoTask \in TaskRec
  <2>1. NotThere \in ToolRec
    BY DEF ToolsAssumption, NotThere, ToolRec
  <2>2. NoRound \in RoundRec
    BY DEF NoRound, RoundRec, RoundPcs
  <2>3. NoTask \in TaskRec
    BY DEF ToolsAssumption, NoTask, TaskRec, TaskPcs
  <2> QED BY <2>1, <2>2, <2>3
<1>2. ToolTypes
  BY <1>1 DEF ToolsAssumption, ToolsInit, ToolTypes, NotThere
<1>3. IndexInv
  BY DEF ToolsInit, IndexInv
<1>4. \A r \in Rounds : GoodRound(round[r], tool, version, index, indexAt)
  BY DEF ToolsInit, GoodRound, HiddenOf, Hidden, NoRound
<1>5. BuilderInv
  BY DEF ToolsInit, BuilderInv, NoRound
<1> QED BY <1>2, <1>3, <1>4, <1>5 DEF SearchInv

\* A turn that is disturbed is as good as before, whatever becomes of the tools' time to live.
LEMMA DisturbedGood ==
  ASSUME NEW t \in RoundRec, GoodRound(t, tool, version, index, indexAt), Hidden' = Hidden, UNCHANGED <<version, cache>>,
         NEW d, d = [t EXCEPT !.alone = FALSE, !.due = {}]
  PROVE  d \in RoundRec /\ GoodRound(d, tool', version', index', indexAt') /\ d.pc = t.pc /\ d.snap = t.snap /\ d.known = t.known
<1>1. /\ d.pc = t.pc /\ d.at = t.at /\ d.snap = t.snap /\ d.known = t.known /\ d.found = t.found
      /\ d.offered = t.offered /\ d.alone = FALSE /\ d.due = {}
  BY DEF RoundRec
<1>2. d \in RoundRec
  BY DEF RoundRec
<1> HIDE DEF RoundRec
<1>3. GoodRound(d, tool', version', index', indexAt')
  BY <1>1 DEF GoodRound, HiddenOf, Hidden, cache
<1> QED BY <1>1, <1>2, <1>3

\* So is one that meets a registration, once it looks for nothing that is not hidden any more.
LEMMA RegisteredGood ==
  ASSUME NEW t \in RoundRec, GoodRound(t, tool, version, index, indexAt), version \in Nat, version' = version + 1,
         index' = index, indexAt' = indexAt, NEW d \in RoundRec, d.pc = t.pc, d.at = t.at, d.snap = t.snap,
         d.found = t.found, d.alone = FALSE, d.due = {}, d.known \subseteq t.known, d.known \subseteq HiddenOf(tool')
  PROVE  GoodRound(d, tool', version', index', indexAt')
<1>1. t.at \in Nat
  BY DEF RoundRec
<1> QED BY <1>1 DEF GoodRound

LEMMA SearchInvStep == ToolsAssumption /\ SearchInv /\ [ToolsNext]_toolVars => SearchInv'
<1> SUFFICES ASSUME ToolsAssumption, SearchInv, [ToolsNext]_toolVars PROVE SearchInv'
  OBVIOUS
<1>0. /\ TTL \in Nat \ {0} /\ MaxVersion \in Nat /\ MaxSteps \in Nat \ {0} /\ version \in Nat /\ indexAt \in Nat
      /\ indexAt <= version /\ version <= MaxVersion
      /\ tool \in [Tools -> ToolRec] /\ (\A n \in Tools : tool[n].kind # "hidden" => tool[n].ttl = 0)
      /\ index = NoIndex \/ index \subseteq Tools
      /\ round \in [Rounds -> RoundRec] /\ task \in [Subagents -> TaskRec]
      /\ ToolTypes /\ IndexInv /\ BuilderInv
  BY DEF ToolsAssumption, SearchInv, ToolTypes
<1>1. \A r \in Rounds : round[r] \in RoundRec /\ GoodRound(round[r], tool, version, index, indexAt)
  BY <1>0 DEF SearchInv
<1>2. \A n \in Tools : tool[n] \in ToolRec /\ tool[n].ttl \in 0..TTL
  BY <1>0 DEF ToolRec
<1>3. Hidden \subseteq Tools
  BY DEF Hidden
\* a step of turn r alone
<1>r. ASSUME NEW r \in Rounds, NEW b \in RoundRec, round' = [round EXCEPT ![r] = b],
             UNCHANGED <<registry, cache, subagent>>, GoodRound(b, tool, version, index, indexAt),
             b.pc = "build" => \A q \in Rounds : /\ round[q].pc = "build" => q = r
                                                 /\ round[q].pc = "hit" => round[q].known \subseteq b.snap,
             b.pc = "hit" => \A q \in Rounds : round[q].pc # "build"
      PROVE  SearchInv'
  <2>1. \A q \in Rounds : round'[q] = IF q = r THEN b ELSE round[q]
    BY <1>0, <1>r
  <2>2. UNCHANGED <<tool, version, index, indexAt, task, calls>>
    BY <1>r DEF registry, cache, subagent
  <2>3. ToolTypes'
    BY <1>0, <1>r, <2>2 DEF ToolTypes
  <2>4. IndexInv'
    BY <1>0, <2>2 DEF IndexInv, Hidden
  <2>5. ASSUME NEW q \in Rounds PROVE GoodRound(round'[q], tool', version', index', indexAt')
    <3>1. GoodRound(IF q = r THEN b ELSE round[q], tool, version, index, indexAt)
      BY <1>1, <1>r
    <3> QED BY <2>1, <2>2, <3>1 DEF GoodRound, HiddenOf, Hidden, Get
  <2>6. BuilderInv'
    <3> SUFFICES ASSUME NEW q \in Rounds, round'[q].pc = "build", NEW p \in Rounds
                 PROVE  /\ round'[p].pc = "build" => p = q
                        /\ round'[p].pc = "hit" => round'[p].known \subseteq round'[q].snap
      BY DEF BuilderInv
    <3>1. CASE q = r
      <4>1. b.pc # "hit"
        BY <2>1, <3>1
      <4> QED BY <1>r, <2>1, <3>1, <4>1
    <3>2. CASE q # r
      <4>1. round[q].pc = "build" /\ b.pc # "hit" /\ b.pc # "build"
        BY <1>r, <2>1, <3>2
      <4> QED BY <1>0, <2>1, <3>2, <4>1 DEF BuilderInv
    <3> QED BY <3>1, <3>2
  <2> QED BY <2>3, <2>4, <2>5, <2>6 DEF SearchInv
\* a step of turn r on the tools' time to live, which disturbs the others
<1>d. ASSUME NEW r \in Rounds, NEW b \in RoundRec, round' = [Disturb(Rounds \ {r}) EXCEPT ![r] = b],
             UNCHANGED <<version, cache, subagent>>, tool' \in [Tools -> ToolRec],
             \A n \in Tools : tool'[n].kind = tool[n].kind /\ (tool'[n].kind # "hidden" => tool'[n].ttl = 0),
             b.pc \in {"idle", "answered"}, GoodRound(b, tool', version', index', indexAt')
      PROVE  SearchInv'
  <2>1. \A q \in Rounds : round'[q] = IF q = r THEN b ELSE [round[q] EXCEPT !.alone = FALSE, !.due = {}]
    BY <1>d DEF Disturb
  <2>2. Hidden' = Hidden /\ UNCHANGED <<index, indexAt, version, task>>
    BY <1>d DEF Hidden, cache, subagent
  <2>3. ASSUME NEW q \in Rounds, q # r
        PROVE  /\ round'[q] \in RoundRec /\ GoodRound(round'[q], tool', version', index', indexAt') /\ round'[q].pc = round[q].pc
               /\ round'[q].snap = round[q].snap /\ round'[q].known = round[q].known
    <3> DEFINE d == [round[q] EXCEPT !.alone = FALSE, !.due = {}]
    <3>1. round'[q] = d
      BY <2>1, <2>3
    <3>2. d \in RoundRec /\ GoodRound(d, tool', version', index', indexAt') /\ d.pc = round[q].pc /\ d.snap = round[q].snap /\ d.known = round[q].known
      BY <1>1, <1>d, <2>2, DisturbedGood
    <3> HIDE DEF d
    <3> QED BY <3>1, <3>2 DEF GoodRound, HiddenOf, Hidden
  <2>4. round'[r] = b /\ GoodRound(round'[r], tool', version', index', indexAt')
    <3>1. round'[r] = b
      BY <2>1
    <3> QED BY <1>d, <3>1 DEF GoodRound, HiddenOf, Hidden
  <2>5. ToolTypes'
    <3>1. \A q \in Rounds : round'[q] \in RoundRec
      BY <1>d, <2>3, <2>4
    <3>2. round' \in [Rounds -> RoundRec]
      BY <1>d, <3>1 DEF Disturb
    <3> QED BY <1>0, <1>d, <2>2, <3>2 DEF ToolTypes
  <2>6. IndexInv'
    BY <1>0, <2>2 DEF IndexInv
  <2>7. BuilderInv'
    <3> SUFFICES ASSUME NEW q \in Rounds, round'[q].pc = "build", NEW p \in Rounds
                 PROVE  /\ round'[p].pc = "build" => p = q
                        /\ round'[p].pc = "hit" => round'[p].known \subseteq round'[q].snap
      BY DEF BuilderInv
    <3>1. q # r /\ round[q].pc = "build" /\ round'[q].snap = round[q].snap
      BY <1>d, <2>3, <2>4
    <3>2. CASE p = r
      BY <1>d, <2>4, <3>2
    <3>3. CASE p # r
      BY <1>0, <2>3, <3>1, <3>3 DEF BuilderInv
    <3> QED BY <3>2, <3>3
  <2>8. \A q \in Rounds : GoodRound(round'[q], tool', version', index', indexAt')
    BY <2>3, <2>4
  <2> QED BY <2>5, <2>6, <2>7, <2>8 DEF SearchInv
<1>4. ASSUME NEW n \in Tools, NEW kind \in {"core", "hidden"}, Register(n, kind) PROVE SearchInv'
  <2>1. /\ version < MaxVersion /\ version' = version + 1 /\ UNCHANGED <<index, indexAt, task>> /\ UNCHANGED cache
        /\ tool' = [tool EXCEPT ![n] = [kind |-> kind, ttl |-> 0]] /\ round' = Registered(n, kind)
    BY <1>4 DEF Register, cache, subagent
  <2>2. \A q \in Rounds :
          round'[q] = [round[q] EXCEPT !.alone = FALSE, !.due = {},
                                       !.known = IF kind = "core" THEN round[q].known \ {n} ELSE round[q].known]
    BY <1>1, <2>1 DEF Registered, Disturb, RoundRec
  <2>3. ASSUME NEW q \in Rounds
        PROVE  /\ round'[q] \in RoundRec /\ GoodRound(round'[q], tool', version', index', indexAt') /\ round'[q].pc = round[q].pc
               /\ round'[q].snap = round[q].snap /\ round'[q].known \subseteq round[q].known
    <3> DEFINE left == IF kind = "core" THEN round[q].known \ {n} ELSE round[q].known
               d == [round[q] EXCEPT !.alone = FALSE, !.due = {}, !.known = left]
    <3>1. round'[q] = d
      BY <2>2
    <3>2. round[q] \in RoundRec /\ GoodRound(round[q], tool, version, index, indexAt)
      BY <1>1
    <3>3. left \subseteq round[q].known /\ left \subseteq HiddenOf(tool')
      <4>1. round[q].known \subseteq HiddenOf(tool)
        BY <3>2 DEF GoodRound
      <4> QED BY <1>0, <2>1, <4>1 DEF HiddenOf
    <3>4. version \in Nat /\ version' = version + 1 /\ index' = index /\ indexAt' = indexAt
      BY <1>0, <2>1
    <3>5. left \in SUBSET Tools
      BY <3>2 DEF RoundRec
    <3> HIDE DEF left
    <3>6. /\ d \in RoundRec /\ d.pc = round[q].pc /\ d.at = round[q].at /\ d.snap = round[q].snap
          /\ d.found = round[q].found /\ d.alone = FALSE /\ d.due = {} /\ d.known = left
      BY <3>2, <3>5 DEF RoundRec
    <3> HIDE DEF d
    <3>7. GoodRound(d, tool', version', index', indexAt')
      BY <3>2, <3>3, <3>4, <3>6, RegisteredGood
    <3> QED BY <3>1, <3>3, <3>6, <3>7
  <2>4. ToolTypes'
    <3>1. round' \in [Rounds -> RoundRec]
      BY <2>1, <2>3 DEF Registered
    <3>2. [kind |-> kind, ttl |-> 0] \in ToolRec
      BY <1>0 DEF ToolRec
    <3>3. tool' \in [Tools -> ToolRec] /\ \A m \in Tools : tool'[m].kind # "hidden" => tool'[m].ttl = 0
      BY <1>0, <2>1, <3>2
    <3> QED BY <1>0, <2>1, <3>1, <3>3 DEF ToolTypes
  <2>5. IndexInv'
    BY <1>0, <2>1 DEF IndexInv
  <2>6. BuilderInv'
    BY <1>0, <2>3 DEF BuilderInv
  <2> QED BY <2>3, <2>4, <2>5, <2>6 DEF SearchInv
<1>5. ASSUME NEW r \in Rounds, Offer(r) PROVE SearchInv'
  <2> DEFINE b == [NoRound EXCEPT !.pc = "called", !.n = round[r].n + 1, !.offered = ToProviderDefs,
                                  !.due = round[r].due]
  <2>1. round[r] \in RoundRec /\ GoodRound(round[r], tool, version, index, indexAt) /\ round[r].pc = "idle"
    BY <1>1, <1>5 DEF Offer
  <2>2. ToProviderDefs \subseteq Tools /\ \A n \in ToProviderDefs : Get(n)
    BY DEF ToProviderDefs
  <2>3. b \in RoundRec
    <3> DEFINE Defs == ToProviderDefs
    <3>1. Defs \in SUBSET Tools /\ round[r].n + 1 \in Nat /\ round[r].due \in SUBSET Tools
      BY <2>1, <2>2 DEF RoundRec
    <3>2. NoRound \in RoundRec /\ "called" \in RoundPcs
      BY DEF NoRound, RoundRec, RoundPcs
    <3>3. b = [NoRound EXCEPT !.pc = "called", !.n = round[r].n + 1, !.offered = Defs, !.due = round[r].due]
      OBVIOUS
    <3> HIDE DEF Defs, b
    <3> QED BY <3>1, <3>2, <3>3 DEF RoundRec
  <2>4. b.pc = "called" /\ b.known = {} /\ b.offered = ToProviderDefs /\ b.due = round[r].due
    BY DEF NoRound
  <2>5. TTL > 1 => round[r].due \subseteq ToProviderDefs
    <3>1. \A n \in round[r].due : n \in Tools /\ tool[n].kind = "hidden" /\ tool[n].ttl >= TTL - 1
      BY <2>1 DEF GoodRound, HiddenOf, Hidden, RoundRec
    <3> QED BY <1>0, <1>2, <3>1 DEF ToProviderDefs, Get
  <2>6. round' = [round EXCEPT ![r] = b] /\ UNCHANGED <<registry, cache, subagent>>
    BY <1>5 DEF Offer
  <2> HIDE DEF b
  <2>7. GoodRound(b, tool, version, index, indexAt)
    BY <2>2, <2>4, <2>5 DEF GoodRound, HiddenOf, Get
  <2> QED BY <1>r, <2>3, <2>4, <2>6, <2>7
<1>6. ASSUME NEW r \in Rounds, Search(r) PROVE SearchInv'
  <2> DEFINE at == IF index # NoIndex /\ indexAt = version THEN "hit" ELSE "snapshot"
             b == [round[r] EXCEPT !.known = Hidden, !.due = {}, !.pc = at]
  <2>1. round' = [round EXCEPT ![r] = b] /\ UNCHANGED <<registry, cache, subagent>>
    BY <1>6 DEF Search
  <2>2. b \in RoundRec /\ b.pc = at /\ b.known = Hidden /\ b.due = {}
    BY <1>1, <1>3 DEF RoundRec, RoundPcs
  <2> HIDE DEF b
  <2>3. GoodRound(b, tool, version, index, indexAt)
    BY <1>0, <2>2 DEF GoodRound, HiddenOf, Hidden, IndexInv
  <2>4. b.pc = "hit" => \A q \in Rounds : round[q].pc # "build"
    <3> SUFFICES ASSUME b.pc = "hit", NEW q \in Rounds, round[q].pc = "build" PROVE FALSE
      OBVIOUS
    <3>1. index # NoIndex /\ indexAt = version
      BY <2>2
    <3>2. round[q].at <= version /\ indexAt < round[q].at /\ round[q].at \in Nat
      BY <1>1, <3>1 DEF GoodRound, HiddenOf, Hidden, RoundRec
    <3> QED BY <1>0, <3>1, <3>2
  <2> QED BY <1>r, <2>1, <2>2, <2>3, <2>4
<1>7. ASSUME NEW r \in Rounds, Cached(r) PROVE SearchInv'
  <2> DEFINE b == [round[r] EXCEPT !.pc = IF index = NoIndex THEN "answered" ELSE "found",
                                   !.found = IF index = NoIndex THEN {} ELSE index]
  <2>1. round[r] \in RoundRec /\ GoodRound(round[r], tool, version, index, indexAt) /\ round[r].pc = "hit"
    BY <1>1, <1>7 DEF Cached
  <2>2. round' = [round EXCEPT ![r] = b] /\ UNCHANGED <<registry, cache, subagent>>
    BY <1>7 DEF Cached
  <2>3. /\ b \in RoundRec /\ b.pc = (IF index = NoIndex THEN "answered" ELSE "found")
        /\ b.known = round[r].known /\ b.found = (IF index = NoIndex THEN {} ELSE index) /\ b.due = round[r].due
    BY <1>0, <2>1 DEF RoundRec, RoundPcs
  <2> HIDE DEF b
  <2>4. GoodRound(b, tool, version, index, indexAt)
    BY <2>1, <2>3 DEF GoodRound, HiddenOf, Hidden
  <2> QED BY <1>r, <2>2, <2>3, <2>4
<1>8. ASSUME NEW r \in Rounds, Snapshot(r) PROVE SearchInv'
  <2>1. round[r] \in RoundRec /\ GoodRound(round[r], tool, version, index, indexAt) /\ round[r].pc = "snapshot" /\ \A q \in Rounds : round[q].pc # "build"
    BY <1>1, <1>8 DEF Snapshot
  <2>2. round[r].known \subseteq Hidden /\ round[r].due = {}
    BY <2>1 DEF GoodRound, HiddenOf, Hidden
  <2>3. CASE index # NoIndex /\ indexAt = version
    <3> DEFINE b == [round[r] EXCEPT !.pc = "found", !.found = index]
    <3>1. round' = [round EXCEPT ![r] = b] /\ UNCHANGED <<registry, cache, subagent>>
      BY <1>8, <2>3 DEF Snapshot
    <3>2. b \in RoundRec /\ b.pc = "found" /\ b.known = round[r].known /\ b.found = index /\ b.due = {}
      BY <1>0, <2>1, <2>2, <2>3 DEF RoundRec, RoundPcs
    <3> HIDE DEF b
    <3>3. GoodRound(b, tool, version, index, indexAt)
      BY <1>0, <2>2, <2>3, <3>2 DEF GoodRound, HiddenOf, Hidden, IndexInv
    <3> QED BY <1>r, <3>1, <3>2, <3>3
  <2>4. CASE ~(index # NoIndex /\ indexAt = version)
    <3> DEFINE b == [round[r] EXCEPT !.pc = "build", !.snap = Hidden, !.at = version]
    <3>1. round' = [round EXCEPT ![r] = b] /\ UNCHANGED <<registry, cache, subagent>>
      BY <1>8, <2>4 DEF Snapshot
    <3>2. /\ b \in RoundRec /\ b.pc = "build" /\ b.known = round[r].known /\ b.snap = Hidden /\ b.at = version
          /\ b.due = {}
      BY <1>0, <1>3, <2>1, <2>2 DEF RoundRec, RoundPcs
    <3> HIDE DEF b
    <3>3. index = NoIndex \/ indexAt < version
      BY <1>0, <2>4
    <3>4. GoodRound(b, tool, version, index, indexAt)
      BY <1>0, <2>2, <3>2, <3>3 DEF GoodRound, HiddenOf, Hidden
    <3>5. \A q \in Rounds : round[q].known \subseteq Hidden
      BY <1>1 DEF GoodRound, HiddenOf, Hidden
    <3> QED BY <1>r, <2>1, <3>1, <3>2, <3>4, <3>5
  <2> QED BY <2>3, <2>4
<1>9. ASSUME NEW r \in Rounds, Build(r) PROVE SearchInv'
  <2> DEFINE b == [round[r] EXCEPT !.pc = IF round[r].snap = {} THEN "answered" ELSE "found", !.found = round[r].snap]
  <2>1. round[r] \in RoundRec /\ GoodRound(round[r], tool, version, index, indexAt) /\ round[r].pc = "build"
    BY <1>1, <1>9 DEF Build
  <2>2. /\ round' = [round EXCEPT ![r] = b] /\ UNCHANGED <<tool, version, task>>
        /\ index' = (IF round[r].snap = {} THEN NoIndex ELSE round[r].snap) /\ indexAt' = round[r].at
    BY <1>9 DEF Build, registry, subagent
  <2>3. /\ b \in RoundRec /\ b.pc = (IF round[r].snap = {} THEN "answered" ELSE "found")
        /\ b.known = round[r].known /\ b.found = round[r].snap /\ b.due = round[r].due
    BY <2>1 DEF RoundRec, RoundPcs
  <2>4. /\ round[r].snap \subseteq Tools /\ round[r].at \in Nat /\ round[r].at <= version /\ round[r].due = {}
        /\ round[r].at = version => Hidden \subseteq round[r].snap
        /\ round[r].known \subseteq round[r].snap /\ round[r].known \subseteq Hidden
    BY <2>1 DEF RoundRec, GoodRound, HiddenOf, Hidden
  <2> HIDE DEF b
  <2>5. \A q \in Rounds : round'[q] = IF q = r THEN b ELSE round[q]
    BY <1>0, <2>2
  <2>6. ToolTypes'
    BY <1>0, <2>2, <2>3, <2>4 DEF ToolTypes
  <2>7. Hidden' = Hidden
    BY <2>2 DEF Hidden
  <2>8. IndexInv'
    BY <2>2, <2>4, <2>7 DEF IndexInv
  <2>9. \A q \in Rounds : round'[q].pc # "build"
    BY <1>0, <2>1, <2>3, <2>5 DEF BuilderInv
  <2>10. BuilderInv'
    BY <2>9 DEF BuilderInv
  <2>11. ASSUME NEW q \in Rounds PROVE GoodRound(round'[q], tool', version', index', indexAt')
    <3>1. CASE q = r
      <4>1. round'[q] = b
        BY <2>5, <3>1
      <4> QED BY <2>3, <2>4, <2>7, <4>1 DEF GoodRound, HiddenOf, Hidden
    <3>2. CASE q # r
      <4>1. round'[q] = round[q] /\ round[q].pc # "build"
        BY <2>5, <2>9, <3>2
      <4>2. round[q].pc = "hit" => round[q].known \subseteq round[r].snap
        BY <1>0, <2>1 DEF BuilderInv
      <4>3. GoodRound(round[q], tool, version, index, indexAt)
        BY <1>1
      <4> QED BY <2>2, <2>7, <4>1, <4>2, <4>3 DEF GoodRound, HiddenOf, Hidden, Get
    <3> QED BY <3>1, <3>2
  <2> QED BY <2>6, <2>8, <2>10, <2>11 DEF SearchInv
<1>10. ASSUME NEW r \in Rounds, Promote(r) PROVE SearchInv'
  <2>1. PICK ranked \in SUBSET round[r].found :
          LET up == ranked \cap Hidden IN
          /\ tool' = [n \in Tools |-> IF n \in up THEN [tool[n] EXCEPT !.ttl = TTL] ELSE tool[n]]
          /\ round' = [Disturb(Rounds \ {r}) EXCEPT ![r].pc = "answered", ![r].due = up]
    BY <1>10 DEF Promote
  <2> DEFINE up == ranked \cap Hidden
             b == [round[r] EXCEPT !.pc = "answered", !.due = up]
  <2>2. round[r] \in RoundRec /\ GoodRound(round[r], tool, version, index, indexAt) /\ UNCHANGED <<version, cache, subagent>>
    BY <1>1, <1>10 DEF Promote
  <2>3. Disturb(Rounds \ {r})[r] = round[r]
    BY DEF Disturb
  <2>4. round' = [Disturb(Rounds \ {r}) EXCEPT ![r] = b]
    BY <2>1, <2>3 DEF Disturb
  <2>5. b \in RoundRec /\ b.pc = "answered" /\ b.known = round[r].known /\ b.due = up
    BY <1>3, <2>2 DEF RoundRec, RoundPcs
  <2>6. /\ tool' \in [Tools -> ToolRec]
        /\ \A n \in Tools : tool'[n].kind = tool[n].kind /\ (tool'[n].kind # "hidden" => tool'[n].ttl = 0)
        /\ \A n \in up : tool'[n].kind = "hidden" /\ tool'[n].ttl = TTL
    <3>1. \A n \in Tools : /\ [tool[n] EXCEPT !.ttl = TTL] \in ToolRec
                           /\ [tool[n] EXCEPT !.ttl = TTL].kind = tool[n].kind
                           /\ [tool[n] EXCEPT !.ttl = TTL].ttl = TTL
      BY <1>0, <1>2 DEF ToolRec
    <3>2. \A n \in up : n \in Tools /\ tool[n].kind = "hidden"
      BY DEF Hidden
    <3>3. \A n \in Tools : tool'[n] = IF n \in up THEN [tool[n] EXCEPT !.ttl = TTL] ELSE tool[n]
      BY <2>1
    <3>4. tool' = [n \in Tools |-> IF n \in up THEN [tool[n] EXCEPT !.ttl = TTL] ELSE tool[n]]
      BY <2>1
    <3> HIDE DEF up
    <3>5. tool' \in [Tools -> ToolRec]
      BY <1>2, <3>1, <3>4
    <3> QED BY <1>0, <3>1, <3>2, <3>3, <3>5
  <2>7. b.known \subseteq Hidden'
    BY <2>2, <2>5, <2>6 DEF GoodRound, HiddenOf, Hidden
  <2> HIDE DEF b, up
  <2>8. GoodRound(b, tool', version', index', indexAt')
    BY <2>5, <2>6, <2>7 DEF GoodRound, HiddenOf, Hidden
  <2> QED BY <1>d, <2>2, <2>4, <2>5, <2>6, <2>8
<1>11. ASSUME NEW r \in Rounds, Use(r) PROVE SearchInv'
  <2> DEFINE b == [round[r] EXCEPT !.pc = "answered", !.due = {}]
  <2>1. round[r] \in RoundRec /\ GoodRound(round[r], tool, version, index, indexAt)
    BY <1>1
  <2>2. round' = [round EXCEPT ![r] = b] /\ UNCHANGED <<registry, cache, subagent>>
    BY <1>11 DEF Use
  <2>3. b \in RoundRec /\ b.pc = "answered" /\ b.known = round[r].known /\ b.due = {}
    BY <2>1 DEF RoundRec, RoundPcs
  <2> HIDE DEF b
  <2>4. GoodRound(b, tool, version, index, indexAt)
    BY <2>1, <2>3 DEF GoodRound, HiddenOf, Hidden
  <2> QED BY <1>r, <2>2, <2>3, <2>4
<1>12. ASSUME NEW r \in Rounds, TickTTL(r) PROVE SearchInv'
  <2> DEFINE due == IF round[r].alone THEN round[r].due ELSE {}
             b == [round[r] EXCEPT !.pc = "idle", !.due = due]
             ticked(n) == [tool[n] EXCEPT !.ttl = IF tool[n].kind = "hidden" /\ @ > 0 THEN @ - 1 ELSE @]
  <2>1. round[r] \in RoundRec /\ GoodRound(round[r], tool, version, index, indexAt) /\ round[r].pc = "answered"
    BY <1>1, <1>12 DEF TickTTL
  <2>2. /\ tool' = [n \in Tools |-> ticked(n)] /\ UNCHANGED <<version, cache, subagent>>
        /\ round' = [Disturb(Rounds \ {r}) EXCEPT ![r].pc = "idle", ![r].due = IF round[r].alone THEN @ ELSE {}]
    BY <1>12 DEF TickTTL
  <2>3. Disturb(Rounds \ {r})[r] = round[r]
    BY DEF Disturb
  <2>4. round' = [Disturb(Rounds \ {r}) EXCEPT ![r] = b]
    BY <2>1, <2>2, <2>3 DEF Disturb, RoundRec
  <2>5. b \in RoundRec /\ b.pc = "idle" /\ b.known = round[r].known /\ b.due = due /\ due \subseteq round[r].due
    BY <2>1 DEF RoundRec, RoundPcs
  <2>6. \A n \in Tools : /\ ticked(n) \in ToolRec /\ ticked(n).kind = tool[n].kind
                         /\ ticked(n).kind # "hidden" => ticked(n).ttl = 0
                         /\ tool[n].ttl = TTL => ticked(n).ttl >= TTL - 1
    BY <1>0, <1>2 DEF ToolRec
  <2>7. tool' \in [Tools -> ToolRec] /\ \A n \in Tools : tool'[n] = ticked(n)
    <3> HIDE DEF ticked
    <3> QED BY <2>2, <2>6
  <2>8. b.known \subseteq Hidden'
    <3> HIDE DEF ticked, b
    <3> QED BY <2>1, <2>5, <2>6, <2>7 DEF GoodRound, HiddenOf, Hidden
  <2>9. \A n \in due : tool'[n].kind = "hidden" /\ tool'[n].ttl >= TTL - 1
    <3>1. \A n \in round[r].due : n \in Tools /\ tool[n].kind = "hidden" /\ tool[n].ttl = TTL
      BY <2>1 DEF GoodRound, HiddenOf, Hidden, RoundRec
    <3> HIDE DEF ticked, b
    <3> QED BY <2>6, <2>7, <3>1
  <2> HIDE DEF b, due, ticked
  <2>10. GoodRound(b, tool', version', index', indexAt')
    BY <2>5, <2>8, <2>9 DEF GoodRound, HiddenOf, Hidden
  <2> QED BY <1>d, <2>2, <2>4, <2>5, <2>6, <2>7, <2>10
\* the subagents
<1>s. ASSUME UNCHANGED <<registry, cache, round>>, task' \in [Subagents -> TaskRec] PROVE SearchInv'
  <2>1. UNCHANGED <<tool, version, index, indexAt, round>>
    BY <1>s DEF registry, cache
  <2> QED BY <1>0, <1>1, <1>s, <2>1
          DEF SearchInv, ToolTypes, IndexInv, BuilderInv, GoodRound, HiddenOf, Hidden, Get
<1>13. ASSUME NEW k \in Subagents, Spawn(k) \/ CancelContext(k) \/ RunTask(k) \/ Report(k) PROVE SearchInv'
  <2>1. task[k] \in TaskRec
    BY <1>0
  <2>2. \A pc \in TaskPcs : [task[k] EXCEPT !.pc = pc] \in TaskRec
    BY <2>1 DEF TaskRec
  <2>3. [task[k] EXCEPT !.dead = TRUE] \in TaskRec
    BY <2>1 DEF TaskRec
  <2>4. task' = task \/ \E b \in TaskRec : task' = [task EXCEPT ![k] = b]
    BY <1>13, <2>2, <2>3 DEF Spawn, CancelContext, RunTask, Report, TaskPcs
  <2>5. task' \in [Subagents -> TaskRec]
    BY <1>0, <2>4
  <2> QED BY <1>13, <1>s, <2>5 DEF Spawn, CancelContext, RunTask, Report
<1>14. ASSUME NEW k \in Subagents, LoopStep(k) PROVE SearchInv'
  <2>1. task[k] \in TaskRec
    BY <1>0
  <2>2. task' \in [Subagents -> TaskRec]
    BY <1>0, <1>14, <2>1 DEF LoopStep, TaskRec, TaskPcs
  <2> QED BY <1>14, <1>s, <2>2 DEF LoopStep
<1>15. CASE UNCHANGED toolVars
  BY <1>0, <1>15, <1>s DEF toolVars, registry, cache
<1> QED BY <1>4, <1>5, <1>6, <1>7, <1>8, <1>9, <1>10, <1>11, <1>12, <1>13, <1>14, <1>15
        DEF ToolsNext, RegistryNext, SubagentNext, Searching, Working

\* A search works on an index that knows every hidden tool there was when it began and that is
\* hidden since, and a turn that nobody disturbs can call what it was offered, what it promoted
\* included, whatever registrations, searches and other turns run meanwhile (getOrBuildEngine,
\* PromoteTools, TickTTL).
THEOREM SearchKnows == ASSUME ToolsAssumption PROVE ToolsSpec => []SearchSound
<1>1. ToolsInit => SearchInv
  BY SearchInvInit
<1>2. SearchInv /\ [ToolsNext]_toolVars => SearchInv'
  BY SearchInvStep
<1>3. SearchInv => SearchSound
  <2> SUFFICES ASSUME SearchInv PROVE SearchSound
    OBVIOUS
  <2>1. ToolsTypeOK
    BY DEF ToolsAssumption, SearchInv, ToolTypes, ToolsTypeOK, ToolRec, TaskRec, TaskPcs
  <2>2. SearchKnowsAll
    BY DEF SearchInv, GoodRound, HiddenOf, Hidden, SearchKnowsAll
  <2>3. OfferedCallable
    BY DEF SearchInv, GoodRound, OfferedCallable, Get
  <2> QED BY <2>1, <2>2, <2>3 DEF SearchSound
<1> QED BY <1>1, <1>2, <1>3, PTL DEF ToolsSpec

-----------------------------------------------------------------------------
(* Logging in and out (Credentials).                                       *)

FlowRec == [provider : Names, method : {"browser", "device_code"}, status : {"pending", "expired", "success", "error"},
            overdue : BOOLEAN, stale : BOOLEAN]
\* A state leads to a pending flow, and a flow that succeeded has its credential in written.
FlowsGood(flows, open, written) ==
    /\ \A f \in DOMAIN flows : flows[f] \in FlowRec /\ (flows[f].status = "success" => f \in written)
    /\ \A f \in open : f \in DOMAIN flows /\ flows[f].status = "pending" /\ flows[f].method = "browser"

\* A worker that is past the file of credentials has written that of its flow.
IsJob(job) == "at" \in DOMAIN job /\ "flow" \in DOMAIN job
JobGood(job, written) ==
    IsJob(job) /\ (job.at \in {"config", "write", "done"} => job.flow = "" \/ job.flow \in written)
CredInv ==
    /\ FlowsGood(flow, states, saved)
    /\ DOMAIN worker = Workers /\ \A w \in Workers : JobGood(worker[w], saved)

\* What a look at the flows leaves is as good as before.
LEMMA CollectedGood ==
  ASSUME FlowsGood(flow, states, saved)
  PROVE  FlowsGood(Collected, StatesLeft, saved)
<1> DEFINE aged == [f \in DOMAIN flow |-> IF f \in Overdue THEN [flow[f] EXCEPT !.status = "expired", !.stale = FALSE]
                                          ELSE flow[f]]
<1>1. DOMAIN Collected = DOMAIN flow \ Stale /\ \A f \in DOMAIN Collected : Collected[f] = aged[f]
  BY DEF Collected, Drop
<1>2. \A f \in DOMAIN flow : aged[f] = IF f \in Overdue THEN [flow[f] EXCEPT !.status = "expired", !.stale = FALSE]
                                       ELSE flow[f]
  OBVIOUS
<1>3. \A f \in DOMAIN flow : flow[f] \in FlowRec
  BY DEF FlowsGood
<1>4. \A f \in DOMAIN flow : /\ aged[f] \in FlowRec /\ aged[f].method = flow[f].method
                             /\ aged[f].status = IF f \in Overdue THEN "expired" ELSE flow[f].status
  BY <1>2, <1>3 DEF FlowRec
<1> HIDE DEF aged
<1>5. ASSUME NEW f \in DOMAIN Collected
      PROVE  Collected[f] \in FlowRec /\ (Collected[f].status = "success" => f \in saved)
  BY <1>1, <1>4 DEF FlowsGood
<1>6. ASSUME NEW f \in StatesLeft
      PROVE  f \in DOMAIN Collected /\ Collected[f].status = "pending" /\ Collected[f].method = "browser"
  <2>1. f \in states /\ f \notin Overdue
    BY DEF StatesLeft
  <2>2. f \in DOMAIN flow /\ flow[f].status = "pending" /\ flow[f].method = "browser"
    BY <2>1 DEF FlowsGood
  <2>3. f \notin Stale
    BY <2>2 DEF Stale
  <2> QED BY <1>1, <1>4, <2>1, <2>2, <2>3
<1> QED BY <1>5, <1>6 DEF FlowsGood

\* So is what setOAuthFlowSuccess and setOAuthFlowError leave, a success being told once it is written.
LEMMA SettledGood ==
  ASSUME FlowsGood(flow, states, saved), NEW f, NEW status \in {"success", "error"}, status = "success" => f \in saved,
         Settled(f, status)
  PROVE  FlowsGood(flow', states', saved)
<1>1. CASE f \in DOMAIN flow
  <2>1. flow' = [flow EXCEPT ![f].status = status, ![f].stale = FALSE] /\ states' = states \ {f}
    BY <1>1 DEF Settled
  <2>2. \A g \in DOMAIN flow : flow[g] \in FlowRec
    BY DEF FlowsGood
  <2>3. DOMAIN flow' = DOMAIN flow
    BY <2>1
  <2>4. \A g \in DOMAIN flow : g # f => flow'[g] = flow[g]
    BY <2>1
  <2>5. flow'[f] = [flow[f] EXCEPT !.status = status, !.stale = FALSE]
    BY <1>1, <2>1
  <2>6. flow'[f] \in FlowRec /\ flow'[f].status = status
    BY <1>1, <2>2, <2>5 DEF FlowRec
  <2> QED BY <2>1, <2>3, <2>4, <2>6 DEF FlowsGood
<1>2. CASE f \notin DOMAIN flow
  BY <1>2 DEF Settled
<1> QED BY <1>1, <1>2

LEMMA CredInvInit == CredInit => CredInv
<1> SUFFICES ASSUME CredInit PROVE CredInv
  OBVIOUS
<1>1. FlowsGood(flow, states, saved)
  <2>1. flow = <<>> /\ states = {}
    BY DEF CredInit
  <2>2. flow \in Seq({}) /\ Len(flow) = 0
    BY <2>1
  <2>3. DOMAIN flow = {}
    BY <2>2
  <2> QED BY <2>1, <2>3 DEF FlowsGood
<1>2. IsJob(NoJob) /\ NoJob.at = "idle"
  BY DEF NoJob, IsJob
<1> QED BY <1>1, <1>2 DEF CredInit, CredInv, JobGood

LEMMA CredInvStep == CredInv /\ [CredNext]_credVars => CredInv'
<1> SUFFICES ASSUME CredInv, [CredNext]_credVars PROVE CredInv'
  OBVIOUS
<1>0. /\ FlowsGood(flow, states, saved) /\ DOMAIN worker = Workers
      /\ \A w \in Workers : JobGood(worker[w], saved) /\ IsJob(worker[w])
  BY DEF CredInv, JobGood
<1>1. IsJob(NoJob) /\ NoJob.at = "idle" /\ NoJob.flow = "" /\ \A written : JobGood(NoJob, written)
  BY DEF NoJob, IsJob, JobGood
\* a step on the flows alone, and one of worker w
<1>f. ASSUME FlowsGood(flow', states', saved), UNCHANGED <<worker, saved>> PROVE CredInv'
  BY <1>0, <1>f DEF CredInv
<1>w. ASSUME NEW w \in Workers, NEW job, Goes(w, job), JobGood(job, saved'), saved \subseteq saved',
             FlowsGood(flow', states', saved')
      PROVE  CredInv'
  <2>1. DOMAIN worker' = Workers /\ \A v \in Workers : worker'[v] = IF v = w THEN job ELSE worker[v]
    BY <1>0, <1>w DEF Goes
  <2>2. \A v \in Workers : JobGood(worker'[v], saved')
    BY <1>0, <1>w, <2>1 DEF JobGood
  <2> QED BY <1>w, <2>1, <2>2 DEF CredInv
<1>i. ASSUME NEW w \in Workers, FlowIdle(w), UNCHANGED <<flow, states, saved>> PROVE CredInv'
  BY <1>0, <1>1, <1>i, <1>w DEF FlowIdle
\* what is left of the job is kept, and it goes on at pc
<1>a. \A w \in Workers : \A pc : /\ IsJob([worker[w] EXCEPT !.at = pc]) /\ [worker[w] EXCEPT !.at = pc].at = pc
                             /\ [worker[w] EXCEPT !.at = pc].flow = worker[w].flow
  <2> SUFFICES ASSUME NEW w \in Workers, NEW pc
               PROVE  /\ IsJob([worker[w] EXCEPT !.at = pc]) /\ [worker[w] EXCEPT !.at = pc].at = pc
                      /\ [worker[w] EXCEPT !.at = pc].flow = worker[w].flow
    OBVIOUS
  <2>1. IsJob(worker[w])
    BY <1>0
  <2> QED BY <2>1 DEF IsJob
<1>b. ASSUME NEW w \in Workers, NEW pc, At(w, pc), UNCHANGED <<flow, states, saved>>,
             pc \in {"config", "write", "done"} => worker[w].flow = "" \/ worker[w].flow \in saved
      PROVE  CredInv'
  <2> DEFINE job == [worker[w] EXCEPT !.at = pc]
  <2>1. IsJob(job) /\ job.at = pc /\ job.flow = worker[w].flow
    BY <1>a
  <2>2. Goes(w, job) /\ UNCHANGED <<flow, states, saved>>
    BY <1>b DEF At
  <2> HIDE DEF job
  <2>3. JobGood(job, saved)
    BY <1>b, <2>1 DEF JobGood
  <2> QED BY <1>0, <1>w, <2>2, <2>3
<1>c. ASSUME NEW w \in Workers, Failed(w) PROVE CredInv'
  <2>1. FlowsGood(flow', states', saved)
    BY <1>0, <1>c, SettledGood DEF Failed
  <2> QED BY <1>1, <1>c, <1>w, <2>1 DEF Failed, FlowIdle
<1>2. ASSUME NEW w \in Workers, NEW p \in Names, LoginToken(w, p) PROVE CredInv'
  <2> DEFINE job == [NoJob EXCEPT !.job = "login", !.at = "load", !.name = p]
  <2>1. JobGood(job, saved)
    BY DEF NoJob, JobGood, IsJob
  <2> HIDE DEF job
  <2>2. Goes(w, job) /\ UNCHANGED <<flow, states, saved>>
    BY <1>2 DEF LoginToken, Starts, job
  <2> QED BY <1>0, <1>w, <2>1, <2>2
<1>3. ASSUME NEW f \in Flows, NEW p \in Names, NEW m \in {"browser", "device_code"}, OpenFlow(f, p, m) PROVE CredInv'
  <2> DEFINE new == [provider |-> p, method |-> m, status |-> "pending", overdue |-> FALSE, stale |-> FALSE]
  <2>1. FlowsGood(Collected, StatesLeft, saved)
    BY <1>0, CollectedGood
  <2>2. /\ flow' = With(Collected, f, new) /\ states' = StatesLeft \cup (IF m = "browser" THEN {f} ELSE {})
        /\ UNCHANGED <<worker, saved>> /\ f \notin DOMAIN flow
    BY <1>3 DEF OpenFlow
  <2>3. new \in FlowRec /\ new.status = "pending" /\ new.method = m
    BY DEF FlowRec
  <2>4. f \notin StatesLeft
    BY <1>0, <2>2 DEF StatesLeft, FlowsGood
  <2> HIDE DEF new
  <2>5. /\ DOMAIN flow' = DOMAIN Collected \cup {f}
        /\ \A g \in DOMAIN flow' : flow'[g] = IF g = f THEN new ELSE Collected[g]
    BY <2>2 DEF With
  <2>6. FlowsGood(flow', states', saved)
    BY <2>1, <2>2, <2>3, <2>4, <2>5 DEF FlowsGood
  <2> QED BY <1>f, <2>2, <2>6
<1>4. ASSUME NEW f \in Flows, Late(f) PROVE CredInv'
  <2>1. f \in DOMAIN flow /\ UNCHANGED <<states, worker, saved>>
    BY <1>4 DEF Late
  <2>2. flow[f] \in FlowRec
    BY <1>0, <2>1 DEF FlowsGood
  <2>3. \/ flow' = [flow EXCEPT ![f] = [flow[f] EXCEPT !.overdue = TRUE]]
        \/ flow' = [flow EXCEPT ![f] = [flow[f] EXCEPT !.stale = TRUE]]
    BY <1>4 DEF Late
  <2>4. \A x \in {[flow[f] EXCEPT !.overdue = TRUE], [flow[f] EXCEPT !.stale = TRUE]} :
          x \in FlowRec /\ x.status = flow[f].status /\ x.method = flow[f].method
    BY <2>2 DEF FlowRec
  <2>5. PICK x \in {[flow[f] EXCEPT !.overdue = TRUE], [flow[f] EXCEPT !.stale = TRUE]} : flow' = [flow EXCEPT ![f] = x]
    BY <2>3
  <2>6. x \in FlowRec /\ x.status = flow[f].status /\ x.method = flow[f].method
    BY <2>4
  <2>7. DOMAIN flow' = DOMAIN flow /\ \A g \in DOMAIN flow : flow'[g] = IF g = f THEN x ELSE flow[g]
    BY <2>5
  <2>8. FlowsGood(flow', states', saved)
    BY <1>0, <2>1, <2>6, <2>7 DEF FlowsGood
  <2> QED BY <1>f, <2>1, <2>8
<1>5. ASSUME NEW w \in Workers, NEW f \in Flows, NEW granted \in BOOLEAN, Ask(w, f, granted) PROVE CredInv'
  <2> DEFINE job == [NoJob EXCEPT !.job = "flow", !.at = IF granted THEN "exchange" ELSE "refused", !.flow = f,
                                  !.name = Collected[f].provider, !.cred = Credential("oauth")]
  <2>1. JobGood(job, saved)
    BY DEF NoJob, JobGood, IsJob
  <2> HIDE DEF job
  <2>2. Goes(w, job) /\ flow' = Collected /\ states' = StatesLeft /\ UNCHANGED saved
    BY <1>5 DEF Ask, Starts, job
  <2> QED BY <1>0, <1>w, <2>1, <2>2, CollectedGood
<1>6. CASE Look
  BY <1>0, <1>6, <1>f, CollectedGood DEF Look
<1>7. ASSUME NEW w \in Workers, Exchange(w) PROVE CredInv'
  BY <1>7, <1>b, <1>c DEF Exchange
<1>8. ASSUME NEW w \in Workers, PollDevice(w) PROVE CredInv'
  BY <1>8, <1>i DEF PollDevice
<1>9. ASSUME NEW w \in Workers, CodeRefused(w) PROVE CredInv'
  BY <1>9, <1>c DEF CodeRefused
<1>10. ASSUME NEW w \in Workers, NEW name, NEW how, NEW at \in {"browser", "device", "load"},
              LoginCommand(w, name, how, at)
       PROVE  CredInv'
  <2> DEFINE job == [NoJob EXCEPT !.job = "command", !.at = at, !.name = Provider(name), !.cred = Credential(how)]
  <2>1. JobGood(job, saved)
    BY DEF NoJob, JobGood, IsJob
  <2> HIDE DEF job
  <2>2. Goes(w, job) /\ UNCHANGED <<flow, states, saved>>
    BY <1>10 DEF LoginCommand, Starts, job
  <2> QED BY <1>0, <1>w, <2>1, <2>2
<1>11. ASSUME NEW w \in Workers,
              LoginOpenAI(w) \/ LoginGoogleAntigravity(w) \/ LoginAnthropicSetupToken(w) \/ LoginPasteToken(w)
       PROVE  CredInv'
  BY <1>10, <1>11 DEF LoginOpenAI, LoginGoogleAntigravity, LoginAnthropicSetupToken, LoginPasteToken
<1>12. ASSUME NEW w \in Workers, LoginBrowser(w) \/ LoginDeviceCode(w) \/ Refresh(w) PROVE CredInv'
  BY <1>12, <1>b, <1>i DEF LoginBrowser, LoginDeviceCode, Refresh
<1>13. ASSUME NEW w \in Workers, NEW n, LogoutCommand(w, n) \/ Logout(w, n) PROVE CredInv'
  <2>1. PICK name : /\ Starts(w, [NoJob EXCEPT !.job = "logout", !.at = "load", !.name = name])
                    /\ UNCHANGED <<flow, states, saved>>
    BY <1>13 DEF LogoutCommand, Logout
  <2>2. JobGood([NoJob EXCEPT !.job = "logout", !.at = "load", !.name = name], saved)
    BY DEF NoJob, JobGood, IsJob
  <2> QED BY <1>0, <1>w, <2>1, <2>2 DEF Starts
<1>14. ASSUME NEW w \in Workers, LogoutAll(w) PROVE CredInv'
  <2>1. JobGood([NoJob EXCEPT !.job = "logout all", !.at = "config"], saved)
    BY DEF NoJob, JobGood, IsJob
  <2> QED BY <1>0, <1>14, <1>w, <2>1 DEF LogoutAll, Starts
<1>15. ASSUME NEW p \in Names, Wanes(p) PROVE CredInv'
  BY <1>0, <1>15, <1>f DEF Wanes
<1>16. ASSUME NEW w \in Workers, NEW p \in Names, Token(w, p) PROVE CredInv'
  <2>1. JobGood([NoJob EXCEPT !.job = "refresh", !.at = "refresh", !.name = p, !.cred = Credential("oauth")], saved)
    BY DEF NoJob, JobGood, IsJob
  <2> QED BY <1>0, <1>16, <1>w, <2>1 DEF Token, Starts
<1>17. ASSUME NEW w \in Workers, LoadStore(w) PROVE CredInv'
  <2> DEFINE job == [worker[w] EXCEPT !.file = store, !.at = "save"]
  <2>1. IsJob(worker[w])
    BY <1>0
  <2>2. JobGood(job, saved)
    BY <2>1 DEF IsJob, JobGood
  <2> HIDE DEF job
  <2>3. Goes(w, job) /\ UNCHANGED <<flow, states, saved>>
    BY <1>17 DEF LoadStore, job
  <2> QED BY <1>0, <1>w, <2>2, <2>3
<1>18. ASSUME NEW w \in Workers, SaveStore(w) PROVE CredInv'
  <2>1. saved' = saved \cup ({worker[w].flow} \ {""}) /\ UNCHANGED <<flow, states>>
    BY <1>18 DEF SaveStore
  <2>2. FlowsGood(flow', states', saved')
    BY <1>0, <2>1 DEF FlowsGood
  <2>3. CASE FlowIdle(w)
    BY <1>1, <1>w, <2>1, <2>2, <2>3 DEF FlowIdle, JobGood
  <2>4. CASE At(w, "config")
    <3> DEFINE job == [worker[w] EXCEPT !.at = "config"]
    <3>1. IsJob(job) /\ job.flow = worker[w].flow
      BY <1>a
    <3>2. Goes(w, job)
      BY <2>4 DEF At
    <3> HIDE DEF job
    <3>3. JobGood(job, saved')
      BY <2>1, <3>1 DEF JobGood
    <3> QED BY <1>w, <2>1, <2>2, <3>2, <3>3
  <2> QED BY <1>18, <2>3, <2>4 DEF SaveStore
<1>19. ASSUME NEW w \in Workers, FileFails(w) PROVE CredInv'
  BY <1>19, <1>c DEF FileFails
<1>20. ASSUME NEW w \in Workers, LoadConfig(w) PROVE CredInv'
  <2> DEFINE job == [worker[w] EXCEPT !.cfg = config, !.at = "write"]
  <2>1. IsJob(worker[w]) /\ JobGood(worker[w], saved) /\ worker[w].at = "config"
    BY <1>0, <1>20 DEF LoadConfig
  <2>2. IsJob(job) /\ job.flow = worker[w].flow
    BY <2>1 DEF IsJob
  <2>3. Goes(w, job) /\ UNCHANGED <<flow, states, saved>>
    BY <1>20 DEF LoadConfig
  <2> HIDE DEF job
  <2>4. JobGood(job, saved)
    BY <2>1, <2>2 DEF JobGood
  <2> QED BY <1>0, <1>w, <2>3, <2>4
<1>21. ASSUME NEW w \in Workers, SaveConfig(w) PROVE CredInv'
  <2>1. At(w, "done") /\ UNCHANGED <<flow, states, saved>> /\ worker[w].at = "write" /\ JobGood(worker[w], saved)
    BY <1>0, <1>21 DEF SaveConfig
  <2> QED BY <1>b, <2>1 DEF JobGood
<1>22. ASSUME NEW w \in Workers, FinishFlow(w) PROVE CredInv'
  <2>1. worker[w].at = "done" /\ JobGood(worker[w], saved) /\ FlowIdle(w) /\ UNCHANGED saved
    BY <1>0, <1>22 DEF FinishFlow
  <2>2. CASE worker[w].flow = ""
    BY <1>22, <1>i, <2>1, <2>2 DEF FinishFlow
  <2>3. CASE worker[w].flow # ""
    <3>1. Settled(worker[w].flow, "success") /\ worker[w].flow \in saved
      BY <1>22, <2>1, <2>3 DEF FinishFlow, JobGood
    <3>2. FlowsGood(flow', states', saved)
      BY <1>0, <3>1, SettledGood
    <3> QED BY <1>1, <1>w, <2>1, <3>2 DEF FlowIdle
  <2> QED BY <2>2, <2>3
<1>23. CASE UNCHANGED credVars
  BY <1>0, <1>23, <1>f DEF credVars
<1> QED BY <1>2, <1>3, <1>4, <1>5, <1>6, <1>7, <1>8, <1>9, <1>11, <1>12, <1>13, <1>14, <1>15, <1>16, <1>17, <1>18,
           <1>19, <1>20, <1>21, <1>22, <1>23 DEF CredNext

\* A state of the identity provider leads to a flow that waits for it, and a flow is told to have
\* succeeded only when its credential was written, though polls, callbacks, commands and expiry
\* cross at every step of them and files fail (oauth.go).
THEOREM LoginSound == CredSpec => []CredSound
<1>1. CredInv => CredSound
  BY DEF CredInv, FlowsGood, CredSound, StatesPending, SuccessSaved
<1> QED BY <1>1, CredInvInit, CredInvStep, PTL DEF CredSpec

-----------------------------------------------------------------------------
(* The histories of the sessions (SessionBackends).                        *)

\* The messages of a history are numbers up to last, each greater than the one before.
Ordered(history, last) ==
    /\ history \in Seq(Nat) /\ \A i \in DOMAIN history : history[i] <= last
    /\ \A i, j \in DOMAIN history : i < j => history[i] < history[j]
\* Every history of a file, or of the memory, is such.
AllOrdered(histories, last) == DOMAIN histories = SessionKey /\ \A k \in SessionKey : Ordered(histories[k], last)
BackendsInv ==
    added \in Nat /\ AllOrdered(legacy, added) /\ AllOrdered(jsonl, added) /\ AllOrdered(memory, added)

LEMMA OrderedEmpty == \A last \in Nat : Ordered(<<>>, last) /\ Ordered(NoSession, last)
<1> SUFFICES ASSUME NEW last \in Nat PROVE Ordered(<<>>, last) /\ Ordered(NoSession, last)
  OBVIOUS
<1>1. Ordered(<<>>, last)
  BY DEF Ordered
<1>2. NoSession \in Seq(Nat) /\ Len(NoSession) = 1 /\ NoSession[1] = 0
  BY DEF NoSession
<1>3. DOMAIN NoSession = {1}
  BY <1>2
<1> HIDE DEF NoSession
<1>4. Ordered(NoSession, last)
  BY <1>2, <1>3 DEF Ordered
<1> QED BY <1>1, <1>4

LEMMA OrderedLonger ==
  ASSUME NEW last \in Nat, NEW history, Ordered(history, last)
  PROVE  Ordered(history, last + 1) /\ Ordered(Append(history, last + 1), last + 1)
<1>1. history \in Seq(Nat) /\ DOMAIN history = 1..Len(history) /\ Len(history) \in Nat
  BY DEF Ordered
<1>2. Ordered(history, last + 1)
  BY <1>1 DEF Ordered
<1> DEFINE longer == Append(history, last + 1)
<1>3. longer \in Seq(Nat) /\ Len(longer) = Len(history) + 1
  BY <1>1
<1>4. DOMAIN longer = 1..Len(history) + 1
  BY <1>1, <1>3
<1>5. \A i \in DOMAIN longer : longer[i] = IF i = Len(history) + 1 THEN last + 1 ELSE history[i]
  BY <1>1, <1>4
<1> HIDE DEF longer
<1>6. \A i \in DOMAIN history : history[i] \in Nat /\ history[i] <= last
  BY <1>1 DEF Ordered
<1>7. \A i \in DOMAIN longer : longer[i] <= last + 1
  BY <1>1, <1>4, <1>5, <1>6
<1>8. \A i, j \in DOMAIN longer : i < j => longer[i] < longer[j]
  <2>1. \A i, j \in DOMAIN history : i < j => history[i] < history[j]
    BY DEF Ordered
  <2> QED BY <1>1, <1>4, <1>5, <1>6, <2>1
<1>9. Ordered(longer, last + 1)
  BY <1>3, <1>7, <1>8 DEF Ordered
<1> QED BY <1>2, <1>9 DEF longer

LEMMA OrderedPart ==
  ASSUME NEW last \in Nat, NEW history, Ordered(history, last), NEW from \in 1..Len(history) + 1
  PROVE  Ordered(SubSeq(history, from, Len(history)), last)
<1>1. history \in Seq(Nat) /\ DOMAIN history = 1..Len(history) /\ Len(history) \in Nat
  BY DEF Ordered
<1> DEFINE part == SubSeq(history, from, Len(history))
<1>2. part \in Seq(Nat) /\ Len(part) = Len(history) - from + 1
  BY <1>1
<1>3. DOMAIN part = 1..Len(history) - from + 1 /\ \A i \in DOMAIN part : part[i] = history[from + i - 1]
  <2>1. Len(part) \in Nat /\ DOMAIN part = 1..Len(part)
    BY <1>2
  <2>2. from \in Nat /\ Len(history) \in Nat /\ DOMAIN part = 1..Len(history) - from + 1
    BY <1>1, <1>2, <2>1
  <2>3. \A i \in 1..Len(history) - from + 1 : part[i] = history[from + i - 1]
    BY <1>1, <2>2
  <2> HIDE DEF part
  <2> QED BY <2>2, <2>3
<1>4. \A i \in DOMAIN part : from + i - 1 \in DOMAIN history
  BY <1>1, <1>3
<1> HIDE DEF part
<1>5. \A i \in DOMAIN part : part[i] <= last
  BY <1>3, <1>4 DEF Ordered
<1>6. ASSUME NEW i \in DOMAIN part, NEW j \in DOMAIN part, i < j PROVE part[i] < part[j]
  <2>1. part[i] = history[from + i - 1] /\ part[j] = history[from + j - 1]
    BY <1>3
  <2>2. from + i - 1 \in DOMAIN history /\ from + j - 1 \in DOMAIN history
    BY <1>4
  <2>3. i \in Nat /\ j \in Nat /\ from \in Nat
    BY <1>1, <1>3
  <2>4. from + i - 1 < from + j - 1
    BY <1>6, <2>3
  <2> QED BY <2>1, <2>2, <2>4 DEF Ordered
<1>7. Ordered(part, last)
  BY <1>2, <1>5, <1>6 DEF Ordered
<1> QED BY <1>7 DEF part

\* A history that is replaced by an ordered one leaves all ordered.
LEMMA PutOrdered ==
  ASSUME NEW last, NEW histories, AllOrdered(histories, last), NEW k \in SessionKey, NEW history, Ordered(history, last)
  PROVE  AllOrdered(PutSession(histories, k, history), last)
<1> DEFINE put == PutSession(histories, k, history)
<1>1. DOMAIN put = SessionKey /\ \A j \in SessionKey : put[j] = IF j = k THEN history ELSE histories[j]
  BY DEF PutSession, AllOrdered
<1> HIDE DEF put
<1>2. AllOrdered(put, last)
  BY <1>1 DEF AllOrdered
<1> QED BY <1>2 DEF put

LEMMA BackendsInvInit == BackendsAssumption /\ BackendsInit => BackendsInv
<1> SUFFICES ASSUME BackendsAssumption, BackendsInit PROVE BackendsInv
  OBVIOUS
<1>1. added = 2
  BY DEF BackendsInit
<1>2. Ordered(<<1, 2>>, 2)
  <2> DEFINE two == <<1, 2>>
  <2>1. two \in Seq(Nat) /\ Len(two) = 2 /\ two[1] = 1 /\ two[2] = 2
    OBVIOUS
  <2>2. DOMAIN two = {1, 2}
    BY <2>1
  <2> HIDE DEF two
  <2>3. Ordered(two, 2)
    BY <2>1, <2>2 DEF Ordered
  <2> QED BY <2>3 DEF two
<1>3. Ordered(NoSession, 2)
  BY OrderedEmpty
<1>4. AllOrdered(legacy, 2)
  BY <1>2, <1>3 DEF BackendsInit, AllOrdered
<1>5. AllOrdered(jsonl, 2) /\ AllOrdered(memory, 2)
  BY <1>3 DEF BackendsInit, AllOrdered
<1> QED BY <1>1, <1>4, <1>5 DEF BackendsInv

LEMMA BackendsInvStep == BackendsAssumption /\ BackendsInv /\ [BackendsNext]_backendVars => BackendsInv'
<1> SUFFICES ASSUME BackendsAssumption, BackendsInv, [BackendsNext]_backendVars PROVE BackendsInv'
  OBVIOUS
<1>0. added \in Nat /\ AllOrdered(legacy, added) /\ AllOrdered(jsonl, added) /\ AllOrdered(memory, added)
  BY DEF BackendsInv
<1>1. \A k \in SessionKey : /\ Ordered(legacy[k], added) /\ Ordered(jsonl[k], added) /\ Ordered(memory[k], added)
                            /\ Ordered(Visible(k), added)
  <2>1. \A k \in SessionKey : Ordered(legacy[k], added) /\ Ordered(jsonl[k], added) /\ Ordered(memory[k], added)
    BY <1>0 DEF AllOrdered
  <2> QED BY <1>0, <2>1, OrderedEmpty DEF Visible
\* the old files are loaded
<1>l. ASSUME LoadSessions PROVE AllOrdered(memory', added)
  BY <1>0, <1>1, <1>l, OrderedEmpty DEF LoadSessions, AllOrdered
\* a key of the directory
<1>k. \A s : AtStep(s) => Key \in SessionKey
  <2>1. DOMAIN SessionKeys = 1..Len(SessionKeys)
    BY DEF BackendsAssumption
  <2>2. \A i \in DOMAIN SessionKeys : SessionKeys[i] \in SessionKey
    BY DEF SessionKey, ToSet
  <2> QED BY <2>1, <2>2 DEF AtStep, Key
<1>e. ASSUME UNCHANGED <<legacy, jsonl, memory, added>> PROVE BackendsInv'
  BY <1>0, <1>e DEF BackendsInv
<1>b. ASSUME NEW k \in SessionKey, NEW history, Becomes(k, history), UNCHANGED legacy, added' \in {added, added + 1},
             Ordered(history, added')
      PROVE  BackendsInv'
  <2>1. \A h : Ordered(h, added) => Ordered(h, added')
    BY <1>0, <1>b, OrderedLonger
  <2>2. AllOrdered(legacy, added') /\ AllOrdered(jsonl, added') /\ AllOrdered(memory, added')
    BY <1>0, <2>1 DEF AllOrdered
  <2>3. AllOrdered(PutSession(jsonl, k, history), added') /\ AllOrdered(PutSession(memory, k, history), added')
    BY <1>b, <2>2, PutOrdered
  <2> QED BY <1>0, <1>b, <2>2, <2>3 DEF Becomes, BackendsInv
<1>2. CASE Begin
  BY <1>0, <1>2, <1>l, <1>e DEF Begin, Kept, BackendsInv
<1>3. CASE MigrateHistory
  <2>1. UNCHANGED <<legacy, added>> /\ Key \in SessionKey
    BY <1>3, <1>k DEF MigrateHistory, Kept
  <2>2. AllOrdered(PutSession(jsonl, Key, legacy[Key]), added)
    BY <1>0, <1>1, <2>1, PutOrdered
  <2>3. CASE jsonl' = PutSession(jsonl, Key, legacy[Key]) /\ UNCHANGED memory
    BY <1>0, <2>1, <2>2, <2>3 DEF BackendsInv
  <2>4. CASE LoadSessions /\ UNCHANGED jsonl
    BY <1>0, <1>l, <2>1, <2>4 DEF BackendsInv
  <2> QED BY <1>3, <2>3, <2>4 DEF MigrateHistory
<1>4. CASE SkipEntry \/ MigrationDone
  BY <1>4, <1>e DEF SkipEntry, MigrationDone, Kept
<1>5. CASE MigrateSummary
  BY <1>0, <1>5, <1>l, <1>e DEF MigrateSummary, Kept, BackendsInv
<1>6. CASE MigrateRename
  <2>1. UNCHANGED <<jsonl, memory, added>> /\ Key \in SessionKey
    BY <1>6, <1>k DEF MigrateRename, Kept
  <2>2. AllOrdered(PutSession(legacy, Key, NoSession), added)
    BY <1>0, <2>1, PutOrdered, OrderedEmpty
  <2> QED BY <1>0, <1>6, <2>1, <2>2 DEF MigrateRename, BackendsInv
<1>7. CASE Stop
  <2>1. AllOrdered(memory', added)
    BY <1>0, <1>7, OrderedEmpty DEF Stop, AllOrdered
  <2> QED BY <1>0, <1>7, <2>1 DEF Stop, BackendsInv
<1>8. ASSUME NEW k \in SessionKey, AddMessage(k) PROVE BackendsInv'
  <2>1. added' = added + 1 /\ Becomes(k, Append(Visible(k), added')) /\ UNCHANGED legacy
    BY <1>8 DEF AddMessage
  <2>2. Ordered(Append(Visible(k), added'), added')
    BY <1>0, <1>1, <2>1, OrderedLonger
  <2> QED BY <1>b, <2>1, <2>2
<1>9. ASSUME NEW k \in SessionKey, SetHistory(k) PROVE BackendsInv'
  <2> DEFINE seen == Visible(k)
  <2>1. Becomes(k, Tail(seen)) /\ UNCHANGED <<legacy, added>> /\ Len(seen) > 1
    BY <1>9 DEF SetHistory, Keeps
  <2>2. Ordered(seen, added) /\ seen \in Seq(Nat)
    BY <1>1 DEF Ordered
  <2> HIDE DEF seen
  <2>3. Tail(seen) = SubSeq(seen, 2, Len(seen)) /\ 2 \in 1..Len(seen) + 1
    BY <2>1, <2>2
  <2>4. Ordered(Tail(seen), added)
    BY <1>0, <2>2, <2>3, OrderedPart
  <2> QED BY <1>b, <2>1, <2>4
<1>10. ASSUME NEW k \in SessionKey, NEW keep \in 0..1, TruncateHistory(k, keep) PROVE BackendsInv'
  <2> DEFINE seen == Visible(k)
             from == Len(seen) - keep + 1
  <2>1. Becomes(k, SubSeq(seen, from, Len(seen))) /\ UNCHANGED <<legacy, added>> /\ Len(seen) > keep
    BY <1>10 DEF TruncateHistory, Keeps
  <2>2. Ordered(seen, added) /\ seen \in Seq(Nat)
    BY <1>1 DEF Ordered
  <2> HIDE DEF seen
  <2>3. from \in 1..Len(seen) + 1
    BY <2>1, <2>2
  <2> HIDE DEF from
  <2>4. Ordered(SubSeq(seen, from, Len(seen)), added)
    BY <1>0, <2>2, <2>3, OrderedPart
  <2> QED BY <1>b, <2>1, <2>4
<1>11. ASSUME NEW k \in SessionKey, SaveSession(k) PROVE BackendsInv'
  <2>1. AllOrdered(PutSession(legacy, k, memory[k]), added)
    BY <1>0, <1>1, PutOrdered
  <2> QED BY <1>0, <1>11, <2>1 DEF SaveSession, BackendsInv
<1>12. CASE UNCHANGED backendVars
  BY <1>12, <1>e DEF backendVars
<1> QED BY <1>2, <1>3, <1>4, <1>5, <1>6, <1>7, <1>8, <1>9, <1>10, <1>11, <1>12 DEF BackendsNext

\* A history never has a message twice or before an older one, whatever step of a migration failed
\* or was not reached and whichever backend was used in between (MigrateFromJSON, SetHistory,
\* NewSessionManager).
THEOREM MigrationKeepsOrder == ASSUME BackendsAssumption PROVE BackendsSpec => []HistoryInOrder
<1>1. BackendsInit => BackendsInv
  BY BackendsInvInit
<1>2. BackendsInv /\ [BackendsNext]_backendVars => BackendsInv'
  BY BackendsInvStep
<1>3. BackendsInv => HistoryInOrder
  <2> SUFFICES ASSUME BackendsInv, NEW k \in SessionKey
               PROVE  \A i, j \in DOMAIN Visible(k) : i < j => Visible(k)[i] < Visible(k)[j]
    BY DEF HistoryInOrder
  <2>1. Ordered(Visible(k), added)
    BY OrderedEmpty DEF BackendsInv, AllOrdered, Visible
  <2> QED BY <2>1 DEF Ordered
<1> QED BY <1>1, <1>2, <1>3, PTL DEF BackendsSpec

-----------------------------------------------------------------------------
(* Who is spoken to unasked (Heartbeat).                                   *)

\* Every file, copy and heartbeat under way names a chat or nothing.
Told == {""} \cup Chats
TargetsInv ==
    /\ stateFile \in Told /\ oldStateFile \in Told /\ mem \in [Managers -> Told]
    /\ \A g \in DOMAIN beat : beat[g] \in Told

LEMMA TargetsInit == HeartbeatInit => TargetsInv
<1> SUFFICES ASSUME HeartbeatInit PROVE TargetsInv
  OBVIOUS
<1>b. beat = <<>>
  BY DEF HeartbeatInit
<1>1. beat \in Seq({}) /\ Len(beat) = 0
  BY <1>b
<1>2. DOMAIN beat = {}
  BY <1>1
<1> QED BY <1>2 DEF HeartbeatInit, TargetsInv, Told

LEMMA RecordTold ==
  ASSUME HeartbeatAssumption, TargetsInv, NEW c \in Chats \cup {Direct}, NEW saves \in BOOLEAN, RecordLastChannel(c, saves)
  PROVE  stateFile' \in Told /\ mem' \in [Managers -> Told]
BY DEF HeartbeatAssumption, TargetsInv, RecordLastChannel, Record, Internal, Direct, Told

LEMMA TargetsStep == HeartbeatAssumption /\ TargetsInv /\ [HeartbeatNext]_stateVars => TargetsInv'
<1> SUFFICES ASSUME HeartbeatAssumption, TargetsInv, [HeartbeatNext]_stateVars PROVE TargetsInv'
  OBVIOUS
<1>0. /\ stateFile \in Told /\ oldStateFile \in Told /\ mem \in [Managers -> Told] /\ mem["heartbeat"] \in Told
      /\ \A g \in DOMAIN beat : beat[g] \in Told
  BY DEF TargetsInv, Managers
<1>1. FromFile \in Told /\ \A saves \in BOOLEAN : Migrated(saves) \in Told
  BY <1>0 DEF FromFile, Migrated
<1>2. ASSUME NEW saves \in BOOLEAN, NEW c \in Chats \cup {Direct}, UserMessage(c, saves) PROVE TargetsInv'
  <2>1. stateFile' \in Told /\ mem' \in [Managers -> Told]
    BY <1>2, RecordTold DEF UserMessage
  <2> QED BY <1>0, <1>2, <2>1 DEF UserMessage, TargetsInv
<1>3. ASSUME NEW saves \in BOOLEAN, NEW g \in DOMAIN service, Handler(g, saves) PROVE TargetsInv'
  <2> DEFINE c == IF Target(beat[g]) = "" THEN Direct ELSE Target(beat[g])
  <2>1. g \in DOMAIN beat /\ RecordLastChannel(c, saves) /\ UNCHANGED oldStateFile
    BY <1>3 DEF Handler
  <2>2. c \in Chats \cup {Direct}
    BY <1>0, <2>1 DEF Target, Told
  <2>3. beat' = [x \in DOMAIN beat \ {g} |-> beat[x]]
    BY <1>3 DEF Handler
  <2>4. \A x \in DOMAIN beat' : beat'[x] \in Told
    BY <1>0, <2>3
  <2> HIDE DEF c
  <2>5. stateFile' \in Told /\ mem' \in [Managers -> Told]
    BY <2>1, <2>2, RecordTold
  <2> QED BY <1>0, <2>1, <2>4, <2>5 DEF TargetsInv
<1>4. ASSUME NEW g \in DOMAIN service, Tick(g) PROVE TargetsInv'
  <2>1. UNCHANGED <<stateFile, oldStateFile, mem>>
    BY <1>4 DEF Tick
  <2>2. \/ beat' = [x \in DOMAIN beat \cup {g} |-> IF x = g THEN mem["heartbeat"] ELSE beat[x]]
        \/ beat' = beat
    BY <1>4 DEF Tick
  <2>3. \A x \in DOMAIN beat' : beat'[x] \in Told
    BY <1>0, <2>2
  <2> QED BY <1>0, <2>1, <2>3 DEF TargetsInv
<1>5. ASSUME NEW saves \in BOOLEAN, Reload(saves) PROVE TargetsInv'
  <2>1. mem' = [mem EXCEPT !["heartbeat"] = FromFile, !["devices"] = FromFile]
    BY <1>5 DEF Reload
  <2>2. mem' \in [Managers -> Told]
    BY <1>0, <1>1, <2>1
  <2> QED BY <1>0, <1>1, <1>5, <2>2 DEF Reload, TargetsInv
<1>6. ASSUME NEW saves \in BOOLEAN, Restart(saves) PROVE TargetsInv'
  <2>1. beat' \in Seq({}) /\ Len(beat') = 0
    BY <1>6 DEF Restart
  <2>2. DOMAIN beat' = {}
    BY <2>1
  <2>3. mem' \in [Managers -> Told]
    BY <1>1, <1>6 DEF Restart
  <2> QED BY <1>0, <1>1, <1>6, <2>2, <2>3 DEF Restart, TargetsInv
<1>7. CASE EditTasks \/ DeviceEvent \/ UNCHANGED stateVars
  BY <1>0, <1>7 DEF EditTasks, DeviceEvent, stateVars, TargetsInv
<1> QED BY <1>2, <1>3, <1>4, <1>5, <1>6, <1>7 DEF HeartbeatNext

\* No file and no copy ever names the console, and a service that was stopped begins no heartbeat,
\* through any reloads, restarts, failed saves and heartbeats that are still under way
\* (RecordLastChannel, executeHeartbeat).
THEOREM HeartbeatTargets == ASSUME HeartbeatAssumption PROVE HeartbeatSpec => HeartbeatSound
<1> DEFINE Silent == \A g \in DOMAIN service \cap DOMAIN service' :
                         service[g] = "stopped" => (g \in DOMAIN beat' => g \in DOMAIN beat)
<1>1. HeartbeatInit => TargetsInv
  BY TargetsInit
<1>2. TargetsInv /\ [HeartbeatNext]_stateVars => TargetsInv'
  BY TargetsStep
<1>3. TargetsInv => NoInternalTarget
  BY DEF HeartbeatAssumption, TargetsInv, Told, NoInternalTarget, Internal, Direct
<1>4. [HeartbeatNext]_stateVars => [Silent]_stateVars
  <2> SUFFICES ASSUME HeartbeatNext, NEW g, service[g] = "stopped", g \in DOMAIN beat', g \notin DOMAIN beat
               PROVE  FALSE
    OBVIOUS
  <2>1. ASSUME NEW h \in DOMAIN service, Tick(h) PROVE FALSE
    <3>1. CASE Execute(h)
      <4>1. DOMAIN beat' = DOMAIN beat \cup {h} /\ service[h] = "on"
        BY <2>1, <3>1 DEF Tick, Execute
      <4> QED BY <4>1
    <3>2. CASE ~Execute(h)
      BY <2>1, <3>2 DEF Tick
    <3> QED BY <3>1, <3>2
  <2>2. ASSUME NEW saves \in BOOLEAN, NEW h \in DOMAIN service, Handler(h, saves) PROVE FALSE
    <3>1. DOMAIN beat' = DOMAIN beat \ {h}
      BY <2>2 DEF Handler
    <3> QED BY <3>1
  <2>3. ASSUME NEW saves \in BOOLEAN, Restart(saves) PROVE FALSE
    <3>1. beat' \in Seq({}) /\ Len(beat') = 0
      BY <2>3 DEF Restart
    <3>2. DOMAIN beat' = {}
      BY <3>1
    <3> QED BY <3>2
  <2>4. ASSUME UNCHANGED beat PROVE FALSE
    BY <2>4
  <2> QED BY <2>1, <2>2, <2>3, <2>4 DEF HeartbeatNext, UserMessage, Reload, EditTasks, DeviceEvent
<1>5. HeartbeatSpec => []NoInternalTarget
  BY <1>1, <1>2, <1>3, PTL DEF HeartbeatSpec
<1>6. HeartbeatSpec => [][Silent]_stateVars
  BY <1>4, PTL DEF HeartbeatSpec
<1> QED BY <1>5, <1>6 DEF HeartbeatSound, StoppedSilent

-----------------------------------------------------------------------------
(* The start of MCP (McpManager).                                          *)

\* Nothing is connected before the first who needs it, and nothing is on its way after the load;
\* what is open belongs to the manager, and is offered from then on.
McpInv ==
    /\ session \in [Servers -> {"none", "connecting", "refused", "open", "closed"}]
    /\ user \in [ToolUsers -> {"idle", "waiting", "ready", "refused"}]
    /\ \A s \in Servers : session[s] = "open" <=> s \in servers
    /\ once = "free" => \A s \in Servers : session[s] = "none"
    /\ once = "done" => \A s \in Servers : session[s] # "connecting" /\ (session[s] = "open" => s \in offered)
    /\ \A u \in ToolUsers : user[u] = "ready" /\ Enabled # {} => once = "done"

LEMMA McpInvInit == McpInit => McpInv
  BY DEF McpInit, McpInv

\* After the manager has closed what it has, nothing is open.
LEMMA ClosedAll ==
  ASSUME McpInv
  PROVE  /\ CloseAll \in [Servers -> {"none", "connecting", "refused", "open", "closed"}]
         /\ \A s \in Servers : CloseAll[s] # "open" /\ (CloseAll[s] = "connecting" => session[s] = "connecting")
  BY DEF McpInv, CloseAll

LEMMA McpInvStep == McpInv /\ [McpNext]_mcpVars => McpInv'
<1> SUFFICES ASSUME McpInv, [McpNext]_mcpVars PROVE McpInv'
  OBVIOUS
<1>0. Enabled' = Enabled
  BY DEF McpNext, Ensure, Ensured, ConnectServer, Loaded, CallTool, Enter, Return, NextCall, CloseLoop, Waited,
         CloseSessions, mcpVars, Enabled
<1>1. ASSUME NEW u \in ToolUsers, Ensure(u) PROVE McpInv'
  <2>1. user' = [user EXCEPT ![u] = IF Enabled = {} THEN "ready" ELSE "waiting"] /\ UNCHANGED <<servers, offered>>
    BY <1>1 DEF Ensure
  <2>2. CASE Enabled # {} /\ once = "free"
    <3>1. once' = "loading" /\ session' = [s \in Servers |-> IF s \in Enabled THEN "connecting" ELSE "none"]
      BY <1>1, <2>2 DEF Ensure
    <3> QED BY <1>0, <2>1, <2>2, <3>1 DEF McpInv
  <2>3. CASE ~(Enabled # {} /\ once = "free")
    <3>1. UNCHANGED <<once, session>>
      BY <1>1, <2>3 DEF Ensure
    <3> QED BY <1>0, <2>1, <3>1 DEF McpInv
  <2> QED BY <2>2, <2>3
<1>2. ASSUME NEW u \in ToolUsers, Ensured(u) PROVE McpInv'
  BY <1>0, <1>2 DEF Ensured, McpInv
<1>3. ASSUME NEW s \in Servers, ConnectServer(s) PROVE McpInv'
  BY <1>0, <1>3 DEF ConnectServer, McpInv
<1>4. CASE Loaded
  <2>1. /\ once' = "done" /\ offered' = servers /\ UNCHANGED user
        /\ \A s \in Servers : session[s] # "connecting"
        /\ (session' = session /\ servers' = servers) \/ (session' = CloseAll /\ servers' = {})
    BY <1>4 DEF Loaded
  <2> QED BY <1>0, <2>1, ClosedAll DEF McpInv
<1>5. ASSUME NEW c \in Callers, (\E s \in Servers : CallTool(c, s)) \/ Enter(c) \/ Return(c) \/ NextCall(c)
      PROVE  McpInv'
  <2>1. UNCHANGED <<once, user, session, servers, offered>>
    BY <1>5 DEF CallTool, Enter, Return, NextCall
  <2> QED BY <1>0, <2>1 DEF McpInv
<1>6. CASE CloseLoop \/ Waited \/ UNCHANGED mcpVars
  <2>1. UNCHANGED <<once, user, session, servers, offered>>
    BY <1>6 DEF CloseLoop, Waited, mcpVars
  <2> QED BY <1>0, <2>1 DEF McpInv
<1>7. CASE CloseSessions
  <2>1. session' = CloseAll /\ servers' = {} /\ UNCHANGED <<once, user, offered>>
    BY <1>7 DEF CloseSessions
  <2>2. once = "free" => \A s \in Servers : CloseAll[s] = "none"
    BY DEF McpInv, CloseAll
  <2> QED BY <1>0, <2>1, <2>2, ClosedAll DEF McpInv
<1> QED BY <1>1, <1>2, <1>3, <1>4, <1>5, <1>6, <1>7 DEF McpNext

\* Whoever goes on with MCP initialised, first or second, finds no server on its way and the tools
\* of each one that is open registered, also while the manager closes (ensureMCPInitialized,
\* LoadFromMCPConfig, Close).  This is the first part of McpSound.
THEOREM InitialisedIsLoaded == McpSpec => []ReadyMeansLoaded
<1>1. McpInv => ReadyMeansLoaded
  BY DEF McpInv, ReadyMeansLoaded
<1> QED BY <1>1, McpInvInit, McpInvStep, PTL DEF McpSpec

-----------------------------------------------------------------------------
(* The files of messages (MediaStore).                                     *)

MediaFiles == Downloads \cup Sendable
\* A download belongs to one entry at most, and one that a cleanup will delete to none.
MediaInv ==
    /\ \A r \in DOMAIN refs : refs[r] \in [path : MediaFiles, age : Nat]
    /\ \A r \in DOMAIN refs : refs[r].path \in Downloads => refs[r].path \in (used \cap disk) \ doomed
    /\ \A r, q \in DOMAIN refs : r # q /\ refs[r].path = refs[q].path => refs[r].path \notin Downloads
    /\ doomed \cap Downloads \subseteq used

LEMMA MediaInvInit == MediaInit => MediaInv
<1> SUFFICES ASSUME MediaInit PROVE MediaInv
  OBVIOUS
<1>1. refs = <<>> /\ doomed = {}
  BY DEF MediaInit
<1>2. DOMAIN refs = {}
  BY <1>1
<1> QED BY <1>1, <1>2 DEF MediaInv

\* A new entry of a path that no entry has.
LEMMA EntryAdded ==
  ASSUME MediaInv, NEW r \in Refs, NEW path \in MediaFiles, NEW s \in Scopes, Recorded(r, path, s),
         path \in Downloads => path \in (used' \cap disk') \ doomed /\ path \notin used,
         used \subseteq used', disk \subseteq disk', doomed' = doomed
  PROVE  MediaInv'
<1>1. /\ DOMAIN refs' = DOMAIN refs \cup {r}
      /\ \A q \in DOMAIN refs' : refs'[q] = IF q = r THEN [path |-> path, age |-> 0] ELSE refs[q]
  BY DEF Recorded, Set
<1>2. refs'[r].path = path /\ refs'[r] \in [path : MediaFiles, age : Nat]
  BY <1>1
<1>3. \A q \in DOMAIN refs' : q # r => q \in DOMAIN refs /\ refs'[q] = refs[q]
  BY <1>1
<1>4. \A q \in DOMAIN refs : refs[q].path = path => path \notin Downloads
  BY DEF MediaInv
<1> QED BY <1>2, <1>3, <1>4 DEF MediaInv

LEMMA MediaInvStep == ASSUME MediaAssumption, MediaInv, [MediaNext]_mediaVars PROVE MediaInv'
<1>1. ASSUME NEW r \in Refs, NEW s \in Scopes, NEW p \in Downloads, StoreInbound(r, p, s) PROVE MediaInv'
  BY <1>1, EntryAdded DEF StoreInbound, MediaFiles, MediaInv
<1>2. ASSUME NEW r \in Refs, NEW s \in Scopes, NEW p \in Sendable, SendFile(r, p, s) PROVE MediaInv'
  BY <1>2, EntryAdded, MediaAssumption DEF SendFile, StoreMedia, MediaFiles, MediaAssumption
<1>3. ASSUME NEW p \in Sendable, WriteAgain(p) PROVE MediaInv'
  BY <1>3 DEF WriteAgain, MediaInv
<1>4. CASE Age
  <2>1. /\ DOMAIN refs' = DOMAIN refs /\ UNCHANGED <<disk, doomed, used>>
        /\ \A r \in DOMAIN refs : refs'[r] = [refs[r] EXCEPT !.age = IF @ > MaxAge THEN @ ELSE @ + 1]
    BY <1>4 DEF Age
  <2>2. \A r \in DOMAIN refs : refs'[r].path = refs[r].path /\ refs'[r] \in [path : MediaFiles, age : Nat]
    BY <2>1 DEF MediaInv
  <2> QED BY <2>1, <2>2 DEF MediaInv
<1>5. CASE CleanExpired
  <2>1. /\ DOMAIN refs' \subseteq DOMAIN refs \ Expired /\ \A r \in DOMAIN refs' : refs'[r] = refs[r]
        /\ doomed' = doomed \cup {refs[r].path : r \in Expired} /\ UNCHANGED <<disk, used>>
    BY <1>5 DEF CleanExpired, KeepFile, Paths
  <2>2. Expired \subseteq DOMAIN refs
    BY DEF Expired
  <2>3. \A r \in DOMAIN refs' : refs'[r].path \in Downloads => refs'[r].path \notin doomed'
    BY <2>1, <2>2 DEF MediaInv
  <2>4. doomed' \cap Downloads \subseteq used'
    BY <2>1, <2>2 DEF MediaInv
  <2> QED BY <2>1, <2>3, <2>4 DEF MediaInv
<1>6. CASE ReloadStore
  <2>1. refs' = <<>> /\ UNCHANGED <<doomed, used>>
    BY <1>6 DEF ReloadStore
  <2>2. DOMAIN refs' = {}
    BY <2>1
  <2> QED BY <2>1, <2>2 DEF MediaInv
<1>7. ASSUME NEW p \in doomed, DeleteExpired(p) PROVE MediaInv'
  BY <1>7 DEF DeleteExpired, MediaInv
<1>8. ASSUME NEW r \in Refs, ResolveMediaRefs(r) PROVE MediaInv'
  BY <1>8 DEF ResolveMediaRefs, MediaInv
<1>9. ASSUME NEW x, NEW k, OpenMedia(x[1], x[2], k) PROVE MediaInv'
  BY <1>9 DEF OpenMedia, MediaInv
<1>10. CASE UNCHANGED mediaVars
  BY <1>10 DEF mediaVars, MediaInv
<1> QED BY <1>1, <1>2, <1>3, <1>4, <1>5, <1>6, <1>7, <1>8, <1>9, <1>10 DEF MediaNext

\* A ref of a download that the store resolves has its file, whatever is cleaned, deleted and
\* reloaded between the two phases of a cleanup (Store, CleanExpired).  This is the first part of
\* MediaSound.
THEOREM ResolvedHasFile == ASSUME MediaAssumption PROVE MediaSpec => []ResolvedExists
<1>1. MediaInv => ResolvedExists
  BY DEF MediaInv, ResolvedExists
<1>2. MediaInv /\ [MediaNext]_mediaVars => MediaInv'
  BY MediaInvStep
<1> QED BY <1>1, <1>2, MediaInvInit, PTL DEF MediaSpec

-----------------------------------------------------------------------------
(* The cooldowns of the providers (ProviderFallback).                      *)

EntryType == [errors : Nat, counts : [Reasons -> Nat], cooldownEnd : Nat, disabledUntil : Nat, last : Nat]
\* A provider that refused for billing and has not answered since is disabled for five hours from then.
BilledInv ==
    /\ now \in Nat /\ \A p \in DOMAIN entry : entry[p] \in EntryType
    /\ \A p \in DOMAIN billed : /\ billed[p] \in Nat /\ p \in DOMAIN entry
                                /\ entry[p].disabledUntil >= billed[p] + Hours(5)

\* The exponents that the cooldowns take, one by one.
LEMMA PowersOfTwo ==
  ASSUME NEW b, b = 0 \/ b = 1 \/ b = 2 \/ b = 3 \/ b = 4 \/ b = 5 \/ b = 6 \/ b = 7 \/ b = 8 \/ b = 9 \/ b = 10
  PROVE  2 ^ b \in Nat \ {0}
<1>1. b = 0 => 2 ^ b = 1
  OBVIOUS
<1>2. b = 1 => 2 ^ b = 2
  OBVIOUS
<1>3. b = 2 => 2 ^ b = 4
  OBVIOUS
<1>4. b = 3 => 2 ^ b = 8
  OBVIOUS
<1>5. b = 4 => 2 ^ b = 16
  OBVIOUS
<1>6. b = 5 => 2 ^ b = 32
  OBVIOUS
<1>7. b = 6 => 2 ^ b = 64
  OBVIOUS
<1>8. b = 7 => 2 ^ b = 128
  OBVIOUS
<1>9. b = 8 => 2 ^ b = 256
  OBVIOUS
<1>10. b = 9 => 2 ^ b = 512
  OBVIOUS
<1>11. b = 10 => 2 ^ b = 1024
  OBVIOUS
<1> QED BY <1>1, <1>2, <1>3, <1>4, <1>5, <1>6, <1>7, <1>8, <1>9, <1>10, <1>11

\* The powers of five the common cooldown uses.
LEMMA PowersOfFive ==
  ASSUME NEW m
  PROVE  /\ m = 0 => 5 ^ m = 1
         /\ m = 1 => 5 ^ m = 5
         /\ m = 2 => 5 ^ m = 25
         /\ m = 3 => 5 ^ m = 125
<1>1. m = 0 => 5 ^ m = 1
  OBVIOUS
<1>2. m = 1 => 5 ^ m = 5
  OBVIOUS
<1>3. m = 2 => 5 ^ m = 25
  OBVIOUS
<1>4. m = 3 => 5 ^ m = 125
  OBVIOUS
<1> QED BY <1>1, <1>2, <1>3, <1>4

\* A billing refusal disables for five hours at least, and a failure cools for a minute at least.
LEMMA CooldownBounds ==
  ASSUME NEW n \in Nat
  PROVE  /\ CalculateBillingCooldown(n) \in Nat /\ CalculateBillingCooldown(n) >= Hours(5)
         /\ CalculateStandardCooldown(n) \in Nat /\ CalculateStandardCooldown(n) >= Minutes(1)
<1> DEFINE b == Least(Most(1, n) - 1, 10)
           m == Least(Most(1, n) - 1, 3)
<1>1. b \in 0..10 /\ m \in 0..3
  BY DEF Least, Most
<1> HIDE DEF b, m
<1>2. 2 ^ b \in Nat \ {0}
  <2>1. \/ b = 0 \/ b = 1 \/ b = 2 \/ b = 3 \/ b = 4 \/ b = 5
        \/ b = 6 \/ b = 7 \/ b = 8 \/ b = 9 \/ b = 10
    BY <1>1
  <2> QED BY <2>1, PowersOfTwo
<1>3. 5 ^ m \in Nat \ {0}
  <2>1. \/ m = 0 \/ m = 1 \/ m = 2 \/ m = 3
    BY <1>1
  <2> QED BY <2>1, PowersOfFive
<1>4. /\ CalculateBillingCooldown(n) = Least(Hours(24), Hours(5) * 2 ^ b)
      /\ CalculateStandardCooldown(n) = Least(Hours(1), Minutes(1) * 5 ^ m)
  BY DEF CalculateBillingCooldown, CalculateStandardCooldown, b, m
<1>5. \A x \in Nat \ {0} : /\ Least(Hours(24), Hours(5) * x) \in Nat /\ Least(Hours(24), Hours(5) * x) >= Hours(5)
                           /\ Least(Hours(1), Minutes(1) * x) \in Nat /\ Least(Hours(1), Minutes(1) * x) >= Minutes(1)
  BY DEF Least, Hours, Minutes
<1> QED BY <1>2, <1>3, <1>4, <1>5

\* Counting a failure leaves both ends as they are.
LEMMA CountedEntry ==
  ASSUME BilledInv, NEW p, NEW reason \in Reasons
  PROVE  /\ Counted(p, reason) \in EntryType
         /\ Counted(p, reason).cooldownEnd = Entry(p).cooldownEnd
         /\ Counted(p, reason).disabledUntil = Entry(p).disabledUntil
<1>1. Entry(p) \in EntryType
  BY DEF BilledInv, Entry, Fresh, Unmarked, EntryType
<1> DEFINE e == Entry(p)
           old == e.last # 0 /\ now - e.last > FailureWindow
           errors == IF old THEN 0 ELSE e.errors
           counts == IF old THEN Unmarked ELSE e.counts
           counted == [counts EXCEPT ![reason] = @ + 1]
<1>2. errors \in Nat /\ counts \in [Reasons -> Nat]
  BY <1>1 DEF EntryType, Unmarked
<1>3. counted \in [Reasons -> Nat]
  BY <1>2
<1>4. Counted(p, reason) = [e EXCEPT !.errors = errors + 1, !.counts = counted, !.last = now]
  BY DEF Counted
<1> HIDE DEF e, counted, errors
<1>5. now \in Nat /\ e \in EntryType
  BY <1>1 DEF BilledInv, e
<1>6. e = Entry(p)
  BY DEF e
<1>7. errors + 1 \in Nat
  BY <1>2
<1>8. Counted(p, reason) \in EntryType
  BY <1>3, <1>4, <1>5, <1>7 DEF EntryType
<1>9. Counted(p, reason).cooldownEnd = Entry(p).cooldownEnd
  BY <1>4, <1>5, <1>6 DEF EntryType
<1>10. Counted(p, reason).disabledUntil = Entry(p).disabledUntil
  BY <1>4, <1>5, <1>6 DEF EntryType
<1> QED BY <1>8, <1>9, <1>10

\* What a failure writes into the entry of its provider.
LEMMA MarkedEntry ==
  ASSUME BilledInv, NEW p, NEW reason \in Reasons, MarkFailure(p, reason)
  PROVE  /\ DOMAIN entry' = DOMAIN entry \cup {p}
         /\ \A q \in DOMAIN entry' : entry'[q] \in EntryType
         /\ \A q \in DOMAIN entry : q # p => entry'[q] = entry[q]
         /\ reason = "billing" => entry'[p].disabledUntil >= now + Hours(5)
         /\ reason # "billing" /\ p \in DOMAIN entry => entry'[p].disabledUntil = entry[p].disabledUntil
<1> DEFINE e == Counted(p, reason)
           new == IF reason = "billing"
                  THEN [e EXCEPT !.disabledUntil = now + CalculateBillingCooldown(e.counts[reason])]
                  ELSE [e EXCEPT !.cooldownEnd = now + CalculateStandardCooldown(e.errors)]
<1>1. entry' = [q \in DOMAIN entry \cup {p} |-> IF q = p THEN new ELSE entry[q]]
  BY DEF MarkFailure, WithEntry
<1>2. e \in EntryType /\ (p \in DOMAIN entry => e.disabledUntil = entry[p].disabledUntil)
  BY CountedEntry DEF Entry
<1> HIDE DEF e
<1>3. now \in Nat /\ e.counts[reason] \in Nat /\ e.errors \in Nat
  BY <1>2 DEF BilledInv, EntryType
<1>4. CASE reason = "billing"
  <2> DEFINE x == CalculateBillingCooldown(e.counts[reason])
  <2>1. x \in Nat /\ x >= Hours(5) /\ new = [e EXCEPT !.disabledUntil = now + x]
    BY <1>3, <1>4, CooldownBounds
  <2> HIDE DEF x, new
  <2>2. new \in EntryType /\ new.disabledUntil = now + x
    BY <1>2, <1>3, <2>1 DEF EntryType
  <2>3. new.disabledUntil >= now + Hours(5)
    BY <1>3, <2>1, <2>2 DEF Hours
  <2> QED BY <1>1, <1>4, <2>2, <2>3 DEF BilledInv
<1>5. CASE reason # "billing"
  <2> DEFINE x == CalculateStandardCooldown(e.errors)
  <2>1. x \in Nat /\ new = [e EXCEPT !.cooldownEnd = now + x]
    BY <1>3, <1>5, CooldownBounds
  <2> HIDE DEF x, new
  <2>2. new \in EntryType /\ new.disabledUntil = e.disabledUntil
    BY <1>2, <1>3, <2>1 DEF EntryType
  <2> QED BY <1>1, <1>2, <1>5, <2>2 DEF BilledInv
<1> QED BY <1>4, <1>5

LEMMA ReasonsOnly == \A e : ClassifyError(e) # "" => ClassifyError(e) \in Reasons
  BY DEF ClassifyError, ClassifyByStatus, ClassifyByMessage, Reasons

LEMMA BilledInvStep == ASSUME ChainAssumption, BilledInv, [ChainNext]_chainVars PROVE BilledInv'
<1>1. ASSUME NEW c \in Calls, AnsweredBy(c) PROVE BilledInv'
  <2> DEFINE p == Candidate(c).provider
  <2>1. /\ now' = now /\ DOMAIN entry' = DOMAIN entry
        /\ \A q \in DOMAIN entry : entry'[q] = IF q = p THEN [Fresh EXCEPT !.last = entry[p].last] ELSE entry[q]
        /\ DOMAIN billed' = DOMAIN billed \ {p} /\ \A q \in DOMAIN billed' : billed'[q] = billed[q]
    BY <1>1 DEF AnsweredBy, MarkSuccess
  <2>2. \A q \in DOMAIN entry : entry'[q] \in EntryType
    BY <2>1 DEF BilledInv, EntryType, Fresh, Unmarked
  <2> HIDE DEF p
  <2>3. ASSUME NEW q \in DOMAIN billed'
        PROVE  billed'[q] \in Nat /\ q \in DOMAIN entry' /\ entry'[q].disabledUntil >= billed'[q] + Hours(5)
    <3>1. q \in DOMAIN billed /\ q # p /\ billed'[q] = billed[q]
      BY <2>1
    <3>2. q \in DOMAIN entry /\ billed[q] \in Nat /\ entry[q].disabledUntil >= billed[q] + Hours(5)
      BY <3>1 DEF BilledInv
    <3> QED BY <2>1, <3>1, <3>2
  <2>4. now' \in Nat
    BY <2>1 DEF BilledInv
  <2> QED BY <2>1, <2>2, <2>3, <2>4 DEF BilledInv
<1>2. ASSUME NEW c \in Calls, NEW e \in Errors, AttemptFailed(c, e) PROVE BilledInv'
  <2> DEFINE p == Candidate(c).provider
             reason == ClassifyError(e)
  <2>1. CASE UNCHANGED <<entry, billed>>
    <3>1. now' = now
      BY <1>2 DEF AttemptFailed
    <3> QED BY <2>1, <3>1 DEF BilledInv
  <2>2. CASE ~UNCHANGED <<entry, billed>>
    <3>1. /\ now' = now /\ reason # "" /\ MarkFailure(p, reason)
          /\ billed' = IF reason # "billing" THEN billed
                       ELSE [q \in DOMAIN billed \cup {p} |-> IF q = p THEN now ELSE billed[q]]
      BY <1>2, <2>2 DEF AttemptFailed
    <3>2. reason \in Reasons
      BY <3>1, ReasonsOnly
    <3> HIDE DEF p, reason
    <3>3. /\ DOMAIN entry' = DOMAIN entry \cup {p} /\ \A q \in DOMAIN entry' : entry'[q] \in EntryType
          /\ \A q \in DOMAIN entry : q # p => entry'[q] = entry[q]
          /\ reason = "billing" => entry'[p].disabledUntil >= now + Hours(5)
          /\ reason # "billing" /\ p \in DOMAIN entry => entry'[p].disabledUntil = entry[p].disabledUntil
      BY <3>1, <3>2, MarkedEntry
    <3>4. ASSUME NEW q \in DOMAIN billed'
          PROVE  billed'[q] \in Nat /\ q \in DOMAIN entry' /\ entry'[q].disabledUntil >= billed'[q] + Hours(5)
      <4>1. CASE q = p /\ reason = "billing"
        BY <3>1, <3>3, <4>1 DEF BilledInv
      <4>2. CASE ~(q = p /\ reason = "billing")
        <5>1. q \in DOMAIN billed /\ billed'[q] = billed[q]
          BY <3>1, <4>2
        <5>2. q \in DOMAIN entry /\ billed[q] \in Nat /\ entry[q].disabledUntil >= billed[q] + Hours(5)
          BY <5>1 DEF BilledInv
        <5>3. entry'[q].disabledUntil = entry[q].disabledUntil
          BY <3>3, <4>2, <5>2
        <5> QED BY <3>3, <5>1, <5>2, <5>3
      <4> QED BY <4>1, <4>2
    <3> QED BY <3>1, <3>3, <3>4 DEF BilledInv
  <2> QED BY <2>1, <2>2
<1>3. ASSUME NEW t \in Instants, Pass(t) PROVE BilledInv'
  BY <1>3 DEF Pass, BilledInv, ChainAssumption
<1>4. CASE UNCHANGED <<now, entry, billed>>
  BY <1>4 DEF BilledInv
<1>5. ASSUME NEW c \in Calls,
             (\E raws \in Configs : BeginCall(c, raws)) \/ Cancel(c) \/ Pick(c) \/ BackOff(c) \/ Retry(c) \/ NextTurn(c)
      PROVE  UNCHANGED <<now, entry, billed>>
  BY <1>5 DEF BeginCall, Cancel, Pick, BackOff, Retry, NextTurn
<1>6. CASE UNCHANGED chainVars
  BY <1>4, <1>6 DEF chainVars
<1> QED BY <1>1, <1>2, <1>3, <1>4, <1>5, <1>6 DEF ChainNext

\* The calls that there are, each with a place.
CallsKnown == DOMAIN call = Calls /\ \A c \in Calls : "at" \in DOMAIN call[c]

\* A step of the call c, which leaves the others where they are.
LEMMA TurnKnown ==
  ASSUME CallsKnown, NEW c \in Calls, NEW rest, "at" \in DOMAIN rest, Turn(c, rest)
  PROVE  CallsKnown' /\ call'[c] = rest /\ \A b \in Calls \ {c} : call'[b] = call[b]
BY DEF CallsKnown, Turn

\* What each step of a call makes of its place.
LEMMA StepPlaces ==
  ASSUME CallsKnown, NEW c \in Calls,
         \/ \E raws \in Configs : BeginCall(c, raws)
         \/ Cancel(c) \/ AnsweredBy(c) \/ BackOff(c) \/ Retry(c) \/ NextTurn(c)
         \/ \E e \in Errors : AttemptFailed(c, e)
  PROVE  /\ CallsKnown' /\ \A b \in Calls \ {c} : call'[b] = call[b]
         /\ call[c].at = "pick" => call'[c].at # "run"
<1>0. "at" \in DOMAIN call[c] /\ "at" \in DOMAIN NoCall
  BY DEF CallsKnown, NoCall
<1>1. ASSUME NEW how, CallEnds(c, how) PROVE CallsKnown' /\ \A b \in Calls \ {c} : call'[b] = call[b]
  BY <1>0, <1>1, TurnKnown DEF CallEnds
<1>2. ASSUME NEW outcome, MoveOn(c, outcome) PROVE CallsKnown' /\ \A b \in Calls \ {c} : call'[b] = call[b]
  BY <1>0, <1>2, TurnKnown DEF MoveOn
<1>3. CASE \E raws \in Configs : BeginCall(c, raws)
  <2>1. PICK k : "at" \in DOMAIN k /\ Turn(c, k) /\ call[c].at = "idle"
    BY <1>0, <1>3 DEF BeginCall
  <2> QED BY <2>1, TurnKnown
<1>4. CASE Cancel(c)
  <2>1. Turn(c, [call[c] EXCEPT !.cancelled = TRUE])
    BY <1>4 DEF Cancel
  <2>2. [call[c] EXCEPT !.cancelled = TRUE].at = call[c].at /\ "at" \in DOMAIN [call[c] EXCEPT !.cancelled = TRUE]
    BY <1>0
  <2>3. call'[c].at = call[c].at
    BY <2>1, <2>2, TurnKnown
  <2> QED BY <2>1, <2>2, <2>3, TurnKnown
<1>5. CASE AnsweredBy(c)
  BY <1>1, <1>5 DEF AnsweredBy
<1>6. CASE BackOff(c)
  BY <1>0, <1>6, TurnKnown DEF BackOff
<1>7. CASE Retry(c)
  BY <1>0, <1>7, TurnKnown DEF Retry
<1>8. CASE NextTurn(c)
  BY <1>0, <1>8, TurnKnown DEF NextTurn
<1>9. ASSUME NEW e \in Errors, AttemptFailed(c, e) PROVE CallsKnown' /\ \A b \in Calls \ {c} : call'[b] = call[b]
  BY <1>1, <1>2, <1>9 DEF AttemptFailed
<1>10. \A e \in Errors : AttemptFailed(c, e) => call[c].at = "run"
  BY DEF AttemptFailed
<1> QED BY <1>3, <1>4, <1>5, <1>6, <1>7, <1>8, <1>9, <1>10 DEF AnsweredBy, BackOff, Retry, NextTurn

\* Who picks a candidate and runs it has seen that its provider is available.
LEMMA PickPlaces ==
  ASSUME CallsKnown, NEW c \in Calls, Pick(c)
  PROVE  /\ CallsKnown' /\ \A b \in Calls \ {c} : call'[b] = call[b]
         /\ call'[c].at = "run" => IsAvailable(Candidate(c).provider)
<1>0. "at" \in DOMAIN call[c]
  BY DEF CallsKnown
<1>1. ASSUME NEW how, CallEnds(c, how)
      PROVE  CallsKnown' /\ call'[c].at = how /\ \A b \in Calls \ {c} : call'[b] = call[b]
  BY <1>0, <1>1, TurnKnown DEF CallEnds
<1>2. ASSUME NEW outcome, MoveOn(c, outcome)
      PROVE  CallsKnown' /\ call'[c].at = "pick" /\ \A b \in Calls \ {c} : call'[b] = call[b]
  <2> DEFINE k == [call[c] EXCEPT !.i = @ + 1, !.tried = Append(@, outcome), !.at = "pick"]
  <2>1. "at" \in DOMAIN k /\ k.at = "pick"
    BY <1>0
  <2>2. Turn(c, k)
    BY <1>2 DEF MoveOn
  <2> HIDE DEF k
  <2> QED BY <2>1, <2>2, TurnKnown
<1>3. CASE IsAvailable(Candidate(c).provider)
  BY <1>1, <1>2, <1>3 DEF Pick
<1>4. CASE ~IsAvailable(Candidate(c).provider)
  <2>1. CallEnds(c, "exhausted") \/ CallEnds(c, "canceled") \/ MoveOn(c, "skipped")
    BY <1>4 DEF Pick
  <2> QED BY <1>1, <1>2, <2>1
<1> QED BY <1>3, <1>4

\* A provider that refused for billing is left alone for five hours at least, by every call and
\* whatever else it fails with meanwhile, until a call that was on its way is answered (MarkFailure,
\* IsAvailable).  This is the second part of ChainSound.
THEOREM BillingIsRespected == ASSUME ChainAssumption PROVE ChainSpec => BillingHolds
<1>1. ChainInit => BilledInv /\ CallsKnown
  <2> SUFFICES ASSUME ChainInit PROVE BilledInv /\ CallsKnown
    OBVIOUS
  <2>1. now = 1 /\ DOMAIN entry = {} /\ DOMAIN billed = {}
    BY DEF ChainInit
  <2>2. CallsKnown
    BY DEF ChainInit, CallsKnown, NoCall
  <2> QED BY <2>1, <2>2 DEF BilledInv
<1>2. BilledInv /\ [ChainNext]_chainVars => BilledInv'
  BY BilledInvStep
<1>3. CallsKnown /\ [ChainNext]_chainVars => CallsKnown'
  <2> SUFFICES ASSUME CallsKnown, [ChainNext]_chainVars PROVE CallsKnown'
    OBVIOUS
  <2>1. CASE UNCHANGED call
    BY <2>1 DEF CallsKnown
  <2>2. ASSUME NEW t \in Instants, Pass(t) PROVE UNCHANGED call
    BY <2>2 DEF Pass
  <2> QED BY <2>1, <2>2, StepPlaces, PickPlaces DEF ChainNext, chainVars
<1> DEFINE Left(c) == (call[c].at = "pick" /\ call'[c].at = "run" /\ Candidate(c).provider \in DOMAIN billed)
                        => now - billed[Candidate(c).provider] >= Hours(5)
<1>4. BilledInv /\ CallsKnown /\ [ChainNext]_chainVars => [\A c \in Calls : Left(c)]_chainVars
  <2> SUFFICES ASSUME BilledInv, CallsKnown, ChainNext, NEW c \in Calls, call[c].at = "pick", call'[c].at = "run",
                      Candidate(c).provider \in DOMAIN billed
               PROVE  now - billed[Candidate(c).provider] >= Hours(5)
    OBVIOUS
  <2>1. IsAvailable(Candidate(c).provider)
    <3>1. ASSUME NEW t \in Instants, Pass(t) PROVE FALSE
      BY <3>1 DEF Pass
    <3>2. PICK b \in Calls : Pick(b) \/ \/ \E raws \in Configs : BeginCall(b, raws)
                                        \/ Cancel(b) \/ AnsweredBy(b) \/ BackOff(b) \/ Retry(b) \/ NextTurn(b)
                                        \/ \E e \in Errors : AttemptFailed(b, e)
      BY <3>1 DEF ChainNext
    <3>3. b = c
      BY <3>2, StepPlaces, PickPlaces
    <3> QED BY <3>2, <3>3, StepPlaces, PickPlaces
  <2> DEFINE p == Candidate(c).provider
  <2>2. p \in DOMAIN billed /\ IsAvailable(p)
    BY <2>1
  <2> HIDE DEF p
  <2>3. billed[p] \in Nat /\ p \in DOMAIN entry /\ entry[p].disabledUntil >= billed[p] + Hours(5)
    BY <2>2 DEF BilledInv
  <2>4. entry[p] \in EntryType /\ now \in Nat
    BY <2>3 DEF BilledInv
  <2>5. entry[p].disabledUntil <= now /\ entry[p].disabledUntil \in Nat
    BY <2>2, <2>3, <2>4 DEF IsAvailable, EntryType
  <2>6. now - billed[p] >= Hours(5)
    BY <2>3, <2>4, <2>5 DEF Hours
  <2> QED BY <2>6 DEF p
<1> QED BY <1>1, <1>2, <1>3, <1>4, PTL DEF ChainSpec, BillingHolds, Left

\* One more failure of a reason is one more failure.
LEMMA TotalCounted ==
  ASSUME NEW counts \in [Reasons -> Nat], NEW reason \in Reasons
  PROVE  Total([counts EXCEPT ![reason] = @ + 1]) = Total(counts) + 1
<1> DEFINE more == [counts EXCEPT ![reason] = @ + 1]
<1>1. \A r \in Reasons : counts[r] \in Nat /\ more[r] = IF r = reason THEN counts[r] + 1 ELSE counts[r]
  OBVIOUS
<1> HIDE DEF more
<1>2. /\ counts["auth"] \in Nat /\ counts["rate_limit"] \in Nat /\ counts["billing"] \in Nat
      /\ counts["timeout"] \in Nat /\ counts["format"] \in Nat
  BY <1>1 DEF Reasons
<1>3. /\ more["auth"] = IF reason = "auth" THEN counts["auth"] + 1 ELSE counts["auth"]
      /\ more["rate_limit"] = IF reason = "rate_limit" THEN counts["rate_limit"] + 1 ELSE counts["rate_limit"]
      /\ more["billing"] = IF reason = "billing" THEN counts["billing"] + 1 ELSE counts["billing"]
      /\ more["timeout"] = IF reason = "timeout" THEN counts["timeout"] + 1 ELSE counts["timeout"]
      /\ more["format"] = IF reason = "format" THEN counts["format"] + 1 ELSE counts["format"]
  BY <1>1 DEF Reasons
<1>4. reason = "auth" \/ reason = "rate_limit" \/ reason = "billing" \/ reason = "timeout" \/ reason = "format"
  BY DEF Reasons
<1>5. Total(more) = Total(counts) + 1
  BY <1>2, <1>3, <1>4 DEF Total
<1> QED BY <1>5 DEF more

LEMMA TotalUnmarked == Total(Unmarked) = 0
  BY DEF Total, Unmarked, Reasons

\* Counting a failure, and dropping the counts of a day ago before, keeps the two counts together.
LEMMA CountedAgrees ==
  ASSUME BilledInv, CountsAgree, NEW p, NEW reason \in Reasons
  PROVE  Counted(p, reason).errors = Total(Counted(p, reason).counts)
<1> DEFINE e == Entry(p)
           old == e.last # 0 /\ now - e.last > FailureWindow
           errors == IF old THEN 0 ELSE e.errors
           counts == IF old THEN Unmarked ELSE e.counts
           counted == [counts EXCEPT ![reason] = @ + 1]
<1>1. e \in EntryType
  BY DEF BilledInv, Entry, Fresh, Unmarked, EntryType
<1>2. e.errors = Total(e.counts)
  <2>1. CASE p \in DOMAIN entry
    BY <2>1 DEF Entry, CountsAgree
  <2>2. CASE p \notin DOMAIN entry
    BY <2>2, TotalUnmarked DEF Entry, Fresh
  <2> QED BY <2>1, <2>2
<1> HIDE DEF e
<1>3. errors = Total(counts) /\ counts \in [Reasons -> Nat]
  BY <1>1, <1>2, TotalUnmarked DEF EntryType, Unmarked
<1>4. Counted(p, reason) = [e EXCEPT !.errors = errors + 1, !.counts = counted, !.last = now]
  BY DEF Counted, e
<1> HIDE DEF errors, counts
<1>5. Total(counted) = errors + 1
  BY <1>3, TotalCounted
<1> HIDE DEF counted
<1>6. Counted(p, reason).errors = errors + 1 /\ Counted(p, reason).counts = counted
  BY <1>1, <1>4 DEF EntryType
<1> QED BY <1>5, <1>6

LEMMA CountsStep == ASSUME BilledInv, CountsAgree, [ChainNext]_chainVars PROVE CountsAgree'
<1>1. ASSUME NEW c \in Calls, AnsweredBy(c) PROVE CountsAgree'
  <2>1. PICK p : entry' = IF p \in DOMAIN entry THEN [entry EXCEPT ![p] = [Fresh EXCEPT !.last = entry[p].last]] ELSE entry
    BY <1>1 DEF AnsweredBy, MarkSuccess
  <2>2. [Fresh EXCEPT !.last = entry[p].last].errors = Total([Fresh EXCEPT !.last = entry[p].last].counts)
    BY TotalUnmarked DEF Fresh
  <2> QED BY <2>1, <2>2 DEF CountsAgree
<1>2. ASSUME NEW c \in Calls, NEW error \in Errors, AttemptFailed(c, error), entry' # entry PROVE CountsAgree'
  <2>1. PICK p, reason : reason # "" /\ reason = ClassifyError(error) /\ MarkFailure(p, reason)
    BY <1>2 DEF AttemptFailed
  <2>2. reason \in Reasons
    BY <2>1, ReasonsOnly
  <2> DEFINE e == Counted(p, reason)
             disabled == now + CalculateBillingCooldown(e.counts[reason])
             cooled == now + CalculateStandardCooldown(e.errors)
             new == IF reason = "billing" THEN [e EXCEPT !.disabledUntil = disabled]
                    ELSE [e EXCEPT !.cooldownEnd = cooled]
  <2>3. entry' = [q \in DOMAIN entry \cup {p} |-> IF q = p THEN new ELSE entry[q]]
    BY <2>1 DEF MarkFailure, WithEntry
  <2>4. e \in EntryType /\ e.errors = Total(e.counts)
    BY <2>2, CountedEntry, CountedAgrees
  <2> HIDE DEF e, disabled, cooled
  <2>5. new.errors = e.errors /\ new.counts = e.counts
    BY <2>4 DEF EntryType
  <2> HIDE DEF new
  <2> QED BY <2>3, <2>4, <2>5 DEF CountsAgree
<1>3. CASE entry' = entry
  BY <1>3 DEF CountsAgree
<1>4. ASSUME NEW c \in Calls,
             (\E raws \in Configs : BeginCall(c, raws)) \/ Cancel(c) \/ Pick(c) \/ BackOff(c) \/ Retry(c) \/ NextTurn(c)
      PROVE  entry' = entry
  BY <1>4 DEF BeginCall, Cancel, Pick, BackOff, Retry, NextTurn
<1>5. ASSUME NEW t \in Instants, Pass(t) PROVE entry' = entry
  BY <1>5 DEF Pass
<1> QED BY <1>1, <1>2, <1>3, <1>4, <1>5 DEF ChainNext, chainVars

\* The errors a cooldown grows with are the failures of each reason since the provider last answered,
\* after any order of failures, answers and days (MarkFailure, MarkSuccess), and a refusal for billing
\* keeps every call away for five hours.
THEOREM CooldownsCount == ASSUME ChainAssumption PROVE ChainSpec => ChainSound
<1>1. ChainInit => BilledInv /\ CountsAgree
  <2> SUFFICES ASSUME ChainInit PROVE BilledInv /\ CountsAgree
    OBVIOUS
  <2>1. now = 1 /\ DOMAIN entry = {} /\ DOMAIN billed = {}
    BY DEF ChainInit
  <2> QED BY <2>1 DEF BilledInv, CountsAgree
<1>2. BilledInv /\ [ChainNext]_chainVars => BilledInv'
  BY BilledInvStep
<1>3. BilledInv /\ CountsAgree /\ [ChainNext]_chainVars => CountsAgree'
  BY CountsStep
<1> QED BY <1>1, <1>2, <1>3, BillingIsRespected, PTL DEF ChainSpec, ChainSound

-----------------------------------------------------------------------------
(* The gateway process and the launcher (GatewayControl).                  *)

RestartSteps == {"stop", "wait", "killed", "begin"}
Restarting(r) == req[r].at \in RestartSteps
ReqRec(pids)  == [at : {"idle", "healthy", "sick"} \cup RestartSteps, prev : {0} \cup pids]

\* Processes are numbered as they are started; one that is told of is gone.
ProcTypes ==
    /\ \E n \in Nat : DOMAIN proc = 1..n /\ DOMAIN reaper = 1..n /\ DOMAIN prober = 1..n
    /\ \A p \in Pids : proc[p] \in {"runs", "ended", "gone"} /\ (reaper[p] = "tells" => proc[p] = "gone")
    /\ cmd \in {0} \cup Pids
    /\ req \in [PageRequests -> ReqRec(Pids)]
\* The one restart that is under way replaces the process that the launcher knows, or knew until it
\* ended, and begins a new one when that is gone.
RestartInv ==
    /\ \A r \in PageRequests : Restarting(r) => cmd \in {0, req[r].prev}
    /\ \A r \in PageRequests : req[r].at = "begin" => ~CmdAlive(req[r].prev)
    /\ \A r, q \in PageRequests : Restarting(r) /\ Restarting(q) => r = q
ControlInv == ProcTypes /\ RestartInv /\ RunningKnown

LEMMA ControlInvInit == ControlInit => ControlInv
<1> SUFFICES ASSUME ControlInit PROVE ControlInv
  OBVIOUS
<1>1. /\ DOMAIN proc = 1..0 /\ DOMAIN reaper = 1..0 /\ DOMAIN prober = 1..0
      /\ Pids = {} /\ cmd = 0
  BY DEF ControlInit, Pids
<1>2. req \in [PageRequests -> ReqRec(Pids)] /\ \A r \in PageRequests : req[r].at = "idle"
  BY DEF ControlInit, ReqRec
<1>3. ProcTypes
  <2>1. 0 \in Nat
    OBVIOUS
  <2> QED BY <1>1, <1>2, <2>1 DEF ProcTypes
<1> QED BY <1>1, <1>2, <1>3 DEF ControlInv, RestartInv, RunningKnown, Restarting, RestartSteps

\* A new process has the next number.
LEMMA StartedFacts ==
  ASSUME ProcTypes, NEW status, Started(status)
  PROVE  \E n \in Nat :
            /\ Pids = 1..n /\ Pids' = 1..(n + 1) /\ cmd' = n + 1 /\ proc'[n + 1] = "runs"
            /\ DOMAIN reaper' = 1..(n + 1) /\ DOMAIN prober' = 1..(n + 1) /\ reaper'[n + 1] = "waits"
            /\ \A p \in Pids : proc'[p] = proc[p] /\ reaper'[p] = reaper[p]
<1>1. PICK n \in Nat : DOMAIN proc = 1..n /\ DOMAIN reaper = 1..n /\ DOMAIN prober = 1..n
  BY DEF ProcTypes
<1>2. Cardinality(1..n) = n
  BY FS_Interval
<1>3. (1..n) \cup {n + 1} = 1..(n + 1)
  OBVIOUS
<1>4. \A f, v : DOMAIN f = 1..n =>
         Extended(f, v) = [p \in 1..(n + 1) |-> IF p \in 1..n THEN f[p] ELSE v]
  BY <1>2, <1>3 DEF Extended
<1>5. /\ proc' = [p \in 1..(n + 1) |-> IF p \in 1..n THEN proc[p] ELSE "runs"]
      /\ reaper' = [p \in 1..(n + 1) |-> IF p \in 1..n THEN reaper[p] ELSE "waits"]
      /\ prober' = [p \in 1..(n + 1) |-> IF p \in 1..n THEN prober[p] ELSE "sleeps"]
      /\ cmd' = n + 1
  BY <1>1, <1>2, <1>4 DEF Started, Pids
<1> QED BY <1>1, <1>5 DEF Pids

\* Where no process runs and no restart goes on, a new process is the one the launcher knows.
LEMMA StartedKnown ==
  ASSUME ControlInv, NEW status, Started(status), \A p \in Pids : proc[p] # "runs",
         req' \in [PageRequests -> ReqRec(Pids)],
         \A r \in PageRequests : req'[r].at \notin RestartSteps
  PROVE  ControlInv'
<1>1. PICK n \in Nat :
        /\ Pids = 1..n /\ Pids' = 1..(n + 1) /\ cmd' = n + 1 /\ proc'[n + 1] = "runs"
        /\ DOMAIN reaper' = 1..(n + 1) /\ DOMAIN prober' = 1..(n + 1) /\ reaper'[n + 1] = "waits"
        /\ \A p \in Pids : proc'[p] = proc[p] /\ reaper'[p] = reaper[p]
  BY StartedFacts DEF ControlInv
<1>2. ASSUME NEW p \in Pids'
      PROVE  /\ proc'[p] \in {"runs", "ended", "gone"} /\ (reaper'[p] = "tells" => proc'[p] = "gone")
             /\ proc'[p] = "runs" => p = cmd'
  <2>1. CASE p = n + 1
    BY <1>1, <2>1
  <2>2. CASE p # n + 1
    <3>1. p \in Pids
      BY <1>1, <2>2
    <3> QED BY <1>1, <3>1 DEF ControlInv, ProcTypes
  <2> QED BY <2>1, <2>2
<1>3. Pids \subseteq Pids'
  BY <1>1
<1>4. ProcTypes'
  <2>1. req' \in [PageRequests -> ReqRec(Pids')]
    BY <1>3 DEF ReqRec
  <2>2. DOMAIN proc' = 1..(n + 1) /\ n + 1 \in Nat /\ cmd' \in Pids'
    BY <1>1 DEF Pids
  <2> QED BY <1>1, <1>2, <2>1, <2>2 DEF ProcTypes
<1>5. RestartInv'
  BY DEF RestartInv, Restarting, RestartSteps
<1>6. RunningKnown'
  BY <1>2 DEF RunningKnown
<1> QED BY <1>4, <1>5, <1>6 DEF ControlInv

\* A start that does not come about leaves no process that the launcher forgets.
LEMMA ForgottenKnown ==
  ASSUME ControlInv, \A p \in Pids : proc[p] # "runs", cmd' = 0, UNCHANGED <<proc, reaper, prober>>,
         req' \in [PageRequests -> ReqRec(Pids)], \A r \in PageRequests : req'[r].at \notin RestartSteps
  PROVE  ControlInv'
<1>1. Pids' = Pids
  BY DEF Pids
<1>2. ProcTypes'
  BY <1>1 DEF ControlInv, ProcTypes
<1>3. RunningKnown'
  BY <1>1 DEF RunningKnown
<1>4. RestartInv'
  BY DEF RestartInv, Restarting, RestartSteps
<1> QED BY <1>2, <1>3, <1>4 DEF ControlInv

\* Where the process that the launcher knows is gone, or no process is known, none runs.
LEMMA NoneRuns ==
  ASSUME ControlInv, ~CmdAlive(cmd)
  PROVE  \A p \in Pids : proc[p] # "runs"
<1>1. 0 \notin Pids
  BY DEF ControlInv, ProcTypes, Pids
<1> QED BY <1>1 DEF ControlInv, RunningKnown, CmdAlive

\* While nothing is started, stopped or ended, a request moves.
LEMMA RequestMoves ==
  ASSUME ControlInv, UNCHANGED <<proc, cmd, reaper>>, DOMAIN prober' = DOMAIN prober,
         NEW r \in PageRequests, NEW pc \in {"idle", "healthy", "sick"} \cup RestartSteps,
         req' = [req EXCEPT ![r].at = pc], pc \in RestartSteps => Restarting(r),
         pc = "begin" => ~CmdAlive(req[r].prev)
  PROVE  ControlInv'
<1>1. Pids' = Pids /\ \A p : CmdAlive(p)' = CmdAlive(p)
  BY DEF Pids, CmdAlive
<1>2. /\ req' \in [PageRequests -> ReqRec(Pids)]
      /\ req'[r].at = pc /\ \A q \in PageRequests : req'[q].prev = req[q].prev /\ (q # r => req'[q] = req[q])
  BY DEF ControlInv, ProcTypes, ReqRec
<1>3. ProcTypes'
  BY <1>1, <1>2 DEF ControlInv, ProcTypes
<1>4. RestartInv'
  <2>1. \A q \in PageRequests : Restarting(q)' => Restarting(q)
    BY <1>2 DEF Restarting
  <2>2. ASSUME NEW q \in PageRequests, req'[q].at = "begin"
        PROVE  ~(req'[q].prev # 0 /\ proc'[req'[q].prev] # "gone")
    <3>1. ~CmdAlive(req[q].prev)
      BY <1>2, <2>2 DEF ControlInv, RestartInv
    <3> QED BY <1>2, <3>1 DEF CmdAlive
  <2>3. \A q \in PageRequests : Restarting(q)' => cmd' \in {0, req'[q].prev}
    BY <1>2, <2>1 DEF ControlInv, RestartInv
  <2>4. \A q, p \in PageRequests : Restarting(q)' /\ Restarting(p)' => q = p
    BY <2>1 DEF ControlInv, RestartInv
  <2> QED BY <2>2, <2>3, <2>4 DEF RestartInv, CmdAlive
<1>5. RunningKnown'
  BY <1>1 DEF ControlInv, RunningKnown
<1> QED BY <1>3, <1>4, <1>5 DEF ControlInv

\* A process ends, is waited for, and is told of.
LEMMA ProcessEnds ==
  ASSUME ControlInv, NEW p \in Pids, ProcEnds(p) \/ Reaped(p) \/ TellExit(p)
  PROVE  ControlInv'
<1> DEFINE is == [q \in Pids |-> proc'[q]]
<1>1. /\ Pids' = Pids /\ DOMAIN reaper' = DOMAIN reaper /\ prober' = prober /\ req' = req
      /\ \A q \in Pids : /\ proc'[q] \in {"runs", "ended", "gone"} /\ (reaper'[q] = "tells" => proc'[q] = "gone")
                         /\ proc'[q] = "runs" => proc[q] = "runs"
                         /\ proc[q] = "gone" => proc'[q] = "gone"
  BY DEF ControlInv, ProcTypes, ProcEnds, Reaped, TellExit, Pids
<1>2. cmd' = cmd \/ (cmd' = 0 /\ cmd = p /\ proc[p] = "gone")
  BY DEF ControlInv, ProcTypes, ProcEnds, Reaped, TellExit
<1>3. ProcTypes'
  BY <1>1, <1>2 DEF ControlInv, ProcTypes, Pids
<1>4. RestartInv'
  <2>1. \A r \in PageRequests : Restarting(r)' <=> Restarting(r)
    BY <1>1 DEF Restarting
  <2>2. ASSUME NEW r \in PageRequests, req[r].at = "begin"
        PROVE  ~(req[r].prev # 0 /\ proc'[req[r].prev] # "gone")
    <3>1. req[r].prev = 0 \/ (req[r].prev \in Pids /\ proc[req[r].prev] = "gone")
      BY <2>2 DEF ControlInv, RestartInv, ProcTypes, ReqRec, CmdAlive
    <3> QED BY <1>1, <3>1
  <2>3. \A r \in PageRequests : Restarting(r) => cmd' \in {0, req[r].prev}
    BY <1>2 DEF ControlInv, RestartInv
  <2>4. \A q, r \in PageRequests : Restarting(q) /\ Restarting(r) => q = r
    BY DEF ControlInv, RestartInv
  <2> QED BY <1>1, <2>1, <2>2, <2>3, <2>4 DEF RestartInv, CmdAlive
<1>5. RunningKnown'
  BY <1>1, <1>2 DEF ControlInv, RunningKnown
<1> QED BY <1>3, <1>4, <1>5 DEF ControlInv

LEMMA ControlInvStep == ASSUME OneAtATime = TRUE, ControlInv, [ControlNext]_controlVars PROVE ControlInv'
<1>0. /\ Quiet => \A r \in PageRequests : req[r].at \notin RestartSteps
      /\ req \in [PageRequests -> ReqRec(Pids)]
  BY DEF Quiet, RestartSteps, ControlInv, ProcTypes
<1>1. ASSUME NEW m \in DefaultModels, HandleStart(m) PROVE ControlInv'
  <2>1. Quiet /\ ~CmdAlive(cmd) /\ req' = req /\ (Started("starting") \/ StartRefused)
    BY <1>1 DEF HandleStart
  <2>2. \A p \in Pids : proc[p] # "runs"
    BY <2>1, NoneRuns
  <2>3. CASE Started("starting")
    BY <1>0, <2>1, <2>2, <2>3, StartedKnown
  <2>4. CASE StartRefused
    BY <1>0, <2>1, <2>2, <2>4, ForgottenKnown DEF StartRefused
  <2> QED BY <2>1, <2>3, <2>4
<1>2. ASSUME NEW m \in DefaultModels, AutoStart(m) PROVE ControlInv'
  <2>1. Quiet /\ req' = req
    BY <1>2 DEF AutoStart
  <2>2. CASE CmdAlive(cmd)
    <3>1. UNCHANGED <<proc, cmd, reaper, prober, req>>
      BY <1>2, <2>2 DEF AutoStart
    <3> QED BY <3>1 DEF ControlInv, ProcTypes, RestartInv, RunningKnown, Restarting, CmdAlive, Pids
  <2>3. CASE ~CmdAlive(cmd)
    <3>1. \A p \in Pids : proc[p] # "runs"
      BY <2>3, NoneRuns
    <3>2. Started("starting") \/ (cmd' = 0 /\ UNCHANGED <<proc, reaper, prober>>)
      BY <1>2, <2>3 DEF AutoStart
    <3> QED BY <1>0, <2>1, <3>1, <3>2, StartedKnown, ForgottenKnown
  <2> QED BY <2>2, <2>3
<1>3. ASSUME NEW r \in PageRequests, NEW m \in DefaultModels, HandleRestart(r, m) PROVE ControlInv'
  <2>1. Quiet /\ req' = [req EXCEPT ![r] = [at |-> "stop", prev |-> cmd]] /\ UNCHANGED <<proc, cmd, reaper, prober>>
    BY <1>3 DEF HandleRestart
  <2>2. /\ req'[r] = [at |-> "stop", prev |-> cmd] /\ DOMAIN req' = PageRequests
        /\ \A q \in PageRequests : q # r => req'[q] = req[q]
    BY <1>0, <2>1
  <2>3. \A q \in PageRequests : Restarting(q)' => q = r
    BY <1>0, <2>1, <2>2 DEF Restarting
  <2>4. Pids' = Pids
    BY <2>1 DEF Pids
  <2>5. ProcTypes'
    <3>1. req' \in [PageRequests -> ReqRec(Pids)]
      BY <1>0, <2>1 DEF ControlInv, ProcTypes, ReqRec, RestartSteps
    <3> QED BY <2>1, <2>4, <3>1 DEF ControlInv, ProcTypes
  <2>6. RestartInv'
    <3>1. \A q \in PageRequests : req'[q].at # "begin"
      BY <2>2, <2>3 DEF Restarting, RestartSteps
    <3> QED BY <2>1, <2>2, <2>3, <3>1 DEF RestartInv
  <2>7. RunningKnown'
    BY <2>1, <2>4 DEF ControlInv, RunningKnown
  <2> QED BY <2>5, <2>6, <2>7 DEF ControlInv
<1>4. ASSUME NEW r \in PageRequests, StopPrevious(r) \/ ExitSeen(r) \/ GraceOver(r) PROVE ControlInv'
  <2>1. /\ UNCHANGED <<proc, cmd, reaper, prober>> /\ req[r].at \in {"stop", "wait", "killed"}
        /\ \E pc \in {"wait", "begin", "killed"} :
              req' = [req EXCEPT ![r].at = pc] /\ (pc = "begin" => ~CmdAlive(req[r].prev))
    BY <1>4 DEF StopPrevious, ExitSeen, GraceOver, Proceeds
  <2>2. Restarting(r)
    BY <2>1 DEF Restarting, RestartSteps
  <2> QED BY <2>1, <2>2, RequestMoves DEF RestartSteps
<1>5. ASSUME NEW r \in PageRequests, NotStopped(r) \/ HandleStatus(r) \/ StatusTells(r) PROVE ControlInv'
  <2>1. /\ UNCHANGED <<proc, cmd, reaper, prober>>
        /\ \E pc \in {"idle", "healthy", "sick"} : req' = [req EXCEPT ![r].at = pc]
    BY <1>5 DEF NotStopped, HandleStatus, StatusTells, Proceeds
  <2> QED BY <2>1, RequestMoves DEF RestartSteps
<1>6. ASSUME NEW r \in PageRequests, BeginAnew(r) PROVE ControlInv'
  <2>1. /\ req[r].at = "begin" /\ req' = [req EXCEPT ![r].at = "idle"]
        /\ Started("restarting") \/ (cmd' = 0 /\ UNCHANGED <<proc, reaper, prober>>)
    BY <1>6 DEF BeginAnew, Proceeds
  <2>2. ~CmdAlive(req[r].prev) /\ cmd \in {0, req[r].prev}
    BY <2>1 DEF ControlInv, RestartInv, Restarting, RestartSteps
  <2>3. ~CmdAlive(cmd)
    BY <2>2 DEF CmdAlive
  <2>4. req' \in [PageRequests -> ReqRec(Pids)]
    BY <1>0, <2>1 DEF ReqRec
  <2>5. \A q \in PageRequests : req'[q].at \notin RestartSteps
    BY <1>0, <2>1 DEF ControlInv, RestartInv, Restarting, RestartSteps
  <2>6. \A p \in Pids : proc[p] # "runs"
    BY <2>3, NoneRuns
  <2> QED BY <2>1, <2>4, <2>5, <2>6, StartedKnown, ForgottenKnown
<1>7. ASSUME NEW p \in Pids, Probe(p) \/ ProbeTells(p) PROVE ControlInv'
  <2>1. UNCHANGED <<proc, cmd, reaper, req>> /\ DOMAIN prober' = DOMAIN prober
    BY <1>7 DEF Probe, ProbeTells
  <2> QED BY <2>1 DEF ControlInv, ProcTypes, RestartInv, RunningKnown, Restarting, CmdAlive, Pids
<1>8. CASE HandleStop \/ LatePasses \/ UNCHANGED controlVars
  <2>1. UNCHANGED <<proc, cmd, reaper, prober, req>>
    BY <1>8 DEF HandleStop, LatePasses, controlVars
  <2> QED BY <2>1 DEF ControlInv, ProcTypes, RestartInv, RunningKnown, Restarting, CmdAlive, Pids
<1> QED BY <1>1, <1>2, <1>3, <1>4, <1>5, <1>6, <1>7, <1>8, ProcessEnds DEF ControlNext

\* As long as no start or restart comes during a restart, at most one gateway runs, and the launcher
\* knows it, also when a process ends by itself, is killed late or comes up although it is not ready
\* (handleGatewayStart, handleGatewayRestart, the reapers and probers).  This is the first part of
\* ControlSound.
THEOREM GatewayIsKnown == ASSUME OneAtATime = TRUE PROVE ControlSpec => [](OneGateway /\ RunningKnown)
<1>1. ControlInv => OneGateway /\ RunningKnown
  <2> SUFFICES ASSUME ControlInv PROVE OneGateway /\ RunningKnown
    OBVIOUS
  <2> DEFINE Run == {p \in Pids : proc[p] = "runs"}
  <2>1. Run = {} \/ Run = {cmd}
    BY DEF ControlInv, RunningKnown
  <2>2. Cardinality({}) = 0 /\ Cardinality({cmd}) = 1
    BY FS_EmptySet, FS_Singleton
  <2>3. Cardinality(Run) <= 1
    BY <2>1, <2>2
  <2> QED BY <2>3 DEF OneGateway, ControlInv
<1>2. ControlInv /\ [ControlNext]_controlVars => ControlInv'
  BY ControlInvStep
<1> QED BY <1>1, <1>2, ControlInvInit, PTL DEF ControlSpec
=============================================================================

----------------------------- MODULE EdgeProofs -----------------------------
(***************************************************************************)
(* Proofs about what reaches the user and the model: the calls that an     *)
(* adapter makes for one outgoing message with the manager's retry around  *)
(* them, the log of the gateway as its page shows it, the sessions         *)
(* messages go to, and the prompts made of a stored history.               *)
(***************************************************************************)
EXTENDS ChannelSend, LogView, Routing, AgentPrompt, FiniteSetTheorems, SequenceTheorems, WellFoundedInduction, TLAPS
-----------------------------------------------------------------------------
(* The plans of the adapters (ChannelSend): every part that is there is in *)
(* a call, and no part in two.                                             *)

There(parts)   == {i \in DOMAIN parts : parts[i] = "there"}
Rank(parts, i) == Cardinality({j \in 1..i : parts[j] = "there"})

\* A set of numbers that is not empty has a least one.
LEMMA LeastExists ==
  ASSUME NEW T \in SUBSET Nat, T # {}
  PROVE  \E m \in T : \A n \in T : m <= n
<1> DEFINE Below == {ss \in Nat \X Nat : ss[1] < ss[2]}
<1>1. Below = OpToRel(<, Nat)
  BY DEF OpToRel
<1>2. IsWellFoundedOn(Below, Nat)
  BY <1>1, NatLessThanWellFounded
<1>3. PICK m \in T : \A n \in T : ~(<<n, m>> \in Below)
  <2> HIDE DEF Below
  <2> QED BY <1>2, WFMin
<1>4. ASSUME NEW n \in T PROVE m <= n
  <2>1. n \in Nat /\ m \in Nat /\ ~(<<n, m>> \in Below)
    BY <1>3
  <2> QED BY <2>1
<1> QED BY <1>4

\* The rank goes up by one at a part that is there, and only there.
LEMMA RankStep ==
  ASSUME NEW n \in Nat, NEW parts \in [1..n -> PartState], NEW i \in 1..n
  PROVE  /\ Rank(parts, 0) = 0 /\ Rank(parts, i) \in Nat /\ Rank(parts, i - 1) \in Nat
         /\ Rank(parts, i) = IF parts[i] = "there" THEN Rank(parts, i - 1) + 1 ELSE Rank(parts, i - 1)
<1> DEFINE S(k) == {j \in 1..k : parts[j] = "there"}
<1>1. i \in Nat /\ i - 1 \in Nat /\ i - 1 \in Int /\ i \in Int /\ 1 \in Int
  OBVIOUS
<1>2. IsFiniteSet(1..i - 1) /\ IsFiniteSet(1..i)
  BY <1>1, FS_Interval
<1>3. S(i - 1) \in SUBSET (1..i - 1) /\ S(i) \in SUBSET (1..i)
  OBVIOUS
<1>4. IsFiniteSet(S(i - 1)) /\ IsFiniteSet(S(i))
  <2> HIDE DEF S
  <2> QED BY <1>2, <1>3, FS_Subset
<1>5. Cardinality(S(i - 1)) \in Nat /\ Cardinality(S(i)) \in Nat
  <2> HIDE DEF S
  <2> QED BY <1>4, FS_CardinalityType
<1>6. i \notin S(i - 1) /\ S(i) = IF parts[i] = "there" THEN S(i - 1) \cup {i} ELSE S(i - 1)
  BY <1>1
<1>7. Cardinality(S(i - 1) \cup {i}) = Cardinality(S(i - 1)) + 1
  <2>1. i \notin S(i - 1)
    BY <1>6
  <2> HIDE DEF S
  <2> QED BY <1>4, <2>1, FS_AddElement
<1>8. S(0) = {} /\ Cardinality({}) = 0
  BY FS_EmptySet
<1>9. Rank(parts, 0) = Cardinality(S(0)) /\ Rank(parts, i) = Cardinality(S(i)) /\ Rank(parts, i - 1) = Cardinality(S(i - 1))
  BY DEF Rank
<1> HIDE DEF S
<1> QED BY <1>5, <1>6, <1>7, <1>8, <1>9

\* A part that is there has a greater rank than the parts before it, and none has more than all.
LEMMA RankGrows ==
  ASSUME NEW n \in Nat, NEW parts \in [1..n -> PartState]
  PROVE  /\ \A i, j \in 1..n : i < j /\ parts[j] = "there" => Rank(parts, i) < Rank(parts, j)
         /\ \A i \in There(parts) : Rank(parts, i) \in 1..Cardinality(There(parts))
         /\ Cardinality(There(parts)) \in Nat
         /\ Rank(parts, n) = Cardinality(There(parts))
<1> DEFINE S(k) == {j \in 1..k : parts[j] = "there"}
<1>1. There(parts) = S(n) /\ \A k : Rank(parts, k) = Cardinality(S(k))
  BY DEF There, Rank
<1>2. \A k \in 1..n : S(k) \in SUBSET S(n) /\ (parts[k] = "there" => k \in S(k) /\ S(k) # {})
  OBVIOUS
<1>3. \A k \in Nat : IsFiniteSet(S(k))
  <2> SUFFICES ASSUME NEW k \in Nat PROVE IsFiniteSet(S(k))
    OBVIOUS
  <2>1. IsFiniteSet(1..k)
    BY FS_Interval
  <2>2. S(k) \in SUBSET (1..k)
    OBVIOUS
  <2> HIDE DEF S
  <2> QED BY <2>1, <2>2, FS_Subset
<1>4. \A i, j \in 1..n : i < j /\ parts[j] = "there" => S(i) \in SUBSET S(j) /\ S(i) # S(j)
  <2> SUFFICES ASSUME NEW i \in 1..n, NEW j \in 1..n, i < j, parts[j] = "there"
               PROVE  S(i) \in SUBSET S(j) /\ S(i) # S(j)
    OBVIOUS
  <2>1. j \in S(j) /\ j \notin S(i)
    OBVIOUS
  <2>2. S(i) \in SUBSET S(j)
    OBVIOUS
  <2> HIDE DEF S
  <2> QED BY <2>1, <2>2
<1>5. \A k \in 1..n : k \in Nat
  OBVIOUS
<1>6. \A k \in Nat : Cardinality(S(k)) \in Nat
  <2> HIDE DEF S
  <2> QED BY <1>3, FS_CardinalityType
<1>7. \A i \in There(parts) : i \in 1..n /\ parts[i] = "there"
  BY DEF There
<1> HIDE DEF S
<1>8. ASSUME NEW i \in 1..n, NEW j \in 1..n, i < j, parts[j] = "there"
      PROVE  Rank(parts, i) < Rank(parts, j)
  <2>1. /\ Cardinality(S(i)) <= Cardinality(S(j)) /\ Cardinality(S(i)) # Cardinality(S(j))
        /\ Cardinality(S(i)) \in Nat /\ Cardinality(S(j)) \in Nat
    BY <1>3, <1>4, <1>5, <1>6, <1>8, FS_Subset
  <2> QED BY <1>1, <2>1
<1>9. ASSUME NEW i \in There(parts) PROVE Rank(parts, i) \in 1..Cardinality(There(parts))
  <2>1. Cardinality(S(i)) <= Cardinality(S(n)) /\ Cardinality(S(i)) \in Nat /\ Cardinality(S(n)) \in Nat
    BY <1>2, <1>3, <1>5, <1>6, <1>7, FS_Subset
  <2>2. Cardinality(S(i)) # 0
    BY <1>2, <1>3, <1>5, <1>7, FS_EmptySet
  <2> QED BY <1>1, <2>1, <2>2
<1> QED BY <1>1, <1>6, <1>8, <1>9

\* Each has one call for each part that is there and no other.
LEMMA EachCalls ==
  ASSUME NEW n \in Nat, NEW parts \in [1..n -> PartState]
  PROVE  /\ Each(parts) = [k \in 1..Cardinality(There(parts)) |->
                             {CHOOSE i \in 1..n : parts[i] = "there" /\ Rank(parts, i) = k}]
         /\ \A k \in 1..Cardinality(There(parts)) :
               \E i \in 1..n : parts[i] = "there" /\ Rank(parts, i) = k /\ Each(parts)[k] = {i}
<1>1. Each(parts) = [k \in 1..Cardinality(There(parts)) |->
                       {CHOOSE i \in 1..n : parts[i] = "there" /\ Rank(parts, i) = k}]
  BY DEF Each, There, Rank
<1>2. ASSUME NEW k \in 1..Cardinality(There(parts))
      PROVE  \E i \in 1..n : parts[i] = "there" /\ Rank(parts, i) = k
  <2> DEFINE T == {i \in 1..n : Rank(parts, i) >= k}
  <2>1. Cardinality(There(parts)) \in Nat /\ Rank(parts, n) = Cardinality(There(parts)) /\ k \in Nat /\ k >= 1
    BY RankGrows
  <2>2. n # 0
    <3> SUFFICES ASSUME n = 0 PROVE FALSE
      OBVIOUS
    <3>1. There(parts) = {} /\ Cardinality({}) = 0
      BY FS_EmptySet DEF There
    <3> QED BY <2>1, <3>1
  <2>3. n \in T
    BY <2>1, <2>2
  <2>4. T \in SUBSET Nat /\ T # {}
    BY <2>3
  <2>5. PICK i \in T : \A j \in T : i <= j
    <3> HIDE DEF T
    <3> QED BY <2>4, LeastExists
  <2>6. i \in 1..n /\ Rank(parts, i) >= k
    BY <2>5
  <2>7. /\ Rank(parts, 0) = 0 /\ Rank(parts, i) \in Nat /\ Rank(parts, i - 1) \in Nat
        /\ Rank(parts, i) = IF parts[i] = "there" THEN Rank(parts, i - 1) + 1 ELSE Rank(parts, i - 1)
    BY <2>6, RankStep
  <2>8. Rank(parts, i - 1) < k
    <3>1. CASE i = 1
      <4>1. i - 1 = 0
        BY <3>1
      <4> QED BY <2>1, <2>7, <4>1
    <3>2. CASE i # 1
      <4>1. i - 1 \in 1..n /\ ~(i <= i - 1)
        BY <2>6, <3>2
      <4>2. i - 1 \notin T
        BY <2>5, <4>1
      <4> QED BY <2>1, <2>7, <4>1, <4>2
    <3> QED BY <3>1, <3>2
  <2> QED BY <2>1, <2>6, <2>7, <2>8
<1>3. ASSUME NEW k \in 1..Cardinality(There(parts))
      PROVE  \E i \in 1..n : parts[i] = "there" /\ Rank(parts, i) = k /\ Each(parts)[k] = {i}
  <2> DEFINE c == CHOOSE i \in 1..n : parts[i] = "there" /\ Rank(parts, i) = k
  <2>1. c \in 1..n /\ parts[c] = "there" /\ Rank(parts, c) = k
    BY <1>2
  <2>2. Each(parts)[k] = {c}
    BY <1>1
  <2> HIDE DEF c
  <2> QED BY <2>1, <2>2
<1> QED BY <1>1, <1>3

\* The calls of a plan: each has parts of the message, no part is in two, and each part that is there is
\* in one.
CallsSound(parts, units) ==
    /\ Len(units) \in Nat
    /\ \A k \in 1..Len(units) : units[k] \subseteq DOMAIN parts
    /\ \A j, k \in 1..Len(units) : j # k => units[j] \cap units[k] = {}
    /\ \A i \in There(parts) : \E k \in 1..Len(units) : i \in units[k]

LEMMA EachCovers ==
  ASSUME NEW n \in Nat, NEW parts \in [1..n -> PartState]
  PROVE  CallsSound(parts, Each(parts))
<1> DEFINE units == Each(parts)  c == Cardinality(There(parts))
<1>1. c \in Nat /\ \A i \in There(parts) : Rank(parts, i) \in 1..c
  BY RankGrows
<1>2. \A i, j \in 1..n : i < j /\ parts[j] = "there" => Rank(parts, i) < Rank(parts, j)
  BY RankGrows
<1>3. \A k \in 1..c : \E i \in 1..n : parts[i] = "there" /\ Rank(parts, i) = k /\ units[k] = {i}
  BY EachCalls
<1>4. Len(units) = c
  <2>1. units = [k \in 1..c |-> {CHOOSE i \in 1..n : parts[i] = "there" /\ Rank(parts, i) = k}]
    BY EachCalls
  <2> HIDE DEF units, c
  <2> QED BY <1>1, <2>1
<1>5. \A i \in There(parts) : i \in 1..n /\ parts[i] = "there"
  BY DEF There
<1> HIDE DEF units, c
<1>6. ASSUME NEW j \in 1..c, NEW k \in 1..c, j # k PROVE units[j] \cap units[k] = {}
  BY <1>3, <1>6
<1>7. ASSUME NEW i \in There(parts) PROVE \E k \in 1..c : i \in units[k]
  <2>1. Rank(parts, i) \in 1..c /\ i \in 1..n /\ parts[i] = "there"
    BY <1>1, <1>5
  <2>2. PICK j \in 1..n : parts[j] = "there" /\ Rank(parts, j) = Rank(parts, i) /\ units[Rank(parts, i)] = {j}
    BY <1>3, <2>1
  <2>3. ~(i < j) /\ ~(j < i)
    <3>1. i < j => Rank(parts, i) < Rank(parts, j)
      BY <1>2, <2>1, <2>2
    <3>2. j < i => Rank(parts, j) < Rank(parts, i)
      BY <1>2, <2>1, <2>2
    <3>3. Rank(parts, i) \in Int
      BY <1>1, <2>1
    <3> QED BY <2>2, <3>1, <3>2, <3>3
  <2>4. i = j
    BY <2>1, <2>2, <2>3
  <2> QED BY <2>1, <2>2, <2>4
<1>8. ASSUME NEW k \in 1..c PROVE units[k] \subseteq DOMAIN parts
  <2>1. DOMAIN parts = 1..n
    OBVIOUS
  <2> QED BY <1>3, <2>1
<1> QED BY <1>1, <1>4, <1>6, <1>7, <1>8 DEF CallsSound, units

LEMMA OthersCover ==
  ASSUME NEW n \in Nat, NEW parts \in [1..n -> PartState]
  PROVE  /\ CallsSound(parts, Whole(parts)) /\ CallsSound(parts, Together(parts))
         /\ CallsSound(parts, [i \in DOMAIN parts |-> {i}])
<1>1. DOMAIN parts = 1..n /\ There(parts) \subseteq 1..n
  BY DEF There
<1>2. CallsSound(parts, Whole(parts))
  <2>1. Whole(parts) = <<1..n>> /\ Len(<<1..n>>) = 1 /\ <<1..n>>[1] = 1..n
    BY <1>1 DEF Whole
  <2> QED BY <1>1, <2>1 DEF CallsSound
<1>3. CallsSound(parts, Together(parts))
  <2>1. Together(parts) = IF There(parts) = {} THEN <<>> ELSE <<There(parts)>>
    BY DEF Together, There
  <2>2. CASE There(parts) = {}
    <3>1. Len(<<>>) = 0 /\ 1..0 = {}
      OBVIOUS
    <3> QED BY <2>1, <2>2, <3>1 DEF CallsSound
  <2>3. CASE There(parts) # {}
    <3>1. Len(<<There(parts)>>) = 1 /\ <<There(parts)>>[1] = There(parts)
      OBVIOUS
    <3> QED BY <1>1, <2>1, <2>3, <3>1 DEF CallsSound
  <2> QED BY <2>2, <2>3
<1>4. CallsSound(parts, [i \in DOMAIN parts |-> {i}])
  <2> DEFINE u == [i \in 1..n |-> {i}]
  <2>1. Len(u) = n /\ \A k \in 1..n : u[k] = {k}
    OBVIOUS
  <2>2. u = [i \in DOMAIN parts |-> {i}]
    BY <1>1
  <2> HIDE DEF u
  <2>3. CallsSound(parts, u)
    BY <1>1, <2>1 DEF CallsSound
  <2> QED BY <2>2, <2>3
<1> QED BY <1>2, <1>3, <1>4
-----------------------------------------------------------------------------
(* One message on its way (ChannelSend).                                   *)

Units   == Mine.units
\* The calls with part p that may still arrive.
Past(p) == {k \in late : p \in Units[k[2]]}
\* How often part p is seen or will be, and how often the plan has asked for it and got no error.
Seen(p) == shown[p] + Cardinality(Past(p))
Due(p)  == redone[p] + (IF p \in Before THEN 1 ELSE 0)

MessageType ==
    \E n \in Nat : n <= Parts /\ message.parts \in [1..n -> PartState]
CountTypes ==
    /\ shown \in [Indices -> Nat] /\ cut \in [Indices -> Nat] /\ redone \in [Indices -> Nat]
    /\ IsFiniteSet(late) /\ \A k \in late : k[2] \in 1..Len(Units)
SendTypes ==
    /\ MessageType /\ CountTypes
    /\ at \in 1..Len(Units) + 1
    /\ outcome = "nil" => at > Len(Units)
\* A part is seen once for the attempt that runs, and once more for each call that was cut off and for
\* each attempt that failed after it.
CountInv == \A p \in Indices : Seen(p) <= cut[p] + Due(p)
\* The parts of the calls before the next one have been seen.
SeenInv == message.by # "irc" => \A k \in 1..Len(Units) : k < at => \A p \in Units[k] : shown[p] > 0
SendInv == SendTypes /\ CountInv /\ SeenInv

\* The plan of every adapter has sound calls, and only IRC's ignores errors.
LEMMA MineSound ==
  MessageType =>
    /\ CallsSound(message.parts, Units)
    /\ DOMAIN message.parts \subseteq Indices
    /\ "ignored" \in Mine.classes => message.by = "irc"
    /\ "nil" \notin Mine.classes
<1> SUFFICES ASSUME NEW n \in Nat, n <= Parts, message.parts \in [1..n -> PartState]
             PROVE  /\ CallsSound(message.parts, Units)
                    /\ DOMAIN message.parts \subseteq Indices
                    /\ "ignored" \in Mine.classes => message.by = "irc"
                    /\ "nil" \notin Mine.classes
  BY DEF MessageType
<1> DEFINE parts == message.parts
<1>1. /\ CallsSound(parts, Each(parts)) /\ CallsSound(parts, Whole(parts)) /\ CallsSound(parts, Together(parts))
      /\ CallsSound(parts, [i \in DOMAIN parts |-> {i}])
  BY EachCovers, OthersCover
<1>2. Units \in {Each(parts), Whole(parts), Together(parts), [i \in DOMAIN parts |-> {i}]}
  BY DEF Units, Mine, PlanOf, Plan, TelegramSend, TelegramSendMedia, DiscordSend, DiscordSendMedia, SlackSend,
         SlackSendMedia, LineSend, LineSendMedia, QQSend, QQSendMedia, IRCSend, DingTalkSend, FeishuSend,
         FeishuSendMedia, OneBotSend, OneBotSendMedia, WhatsAppSend, NativeSend, MatrixSend, MatrixSendMedia,
         WeComBotSend, WeComAppSend, WeComAppSendMedia, MaixCamSend
<1>3. /\ "ignored" \in Mine.classes => message.by = "irc"
      /\ "nil" \notin Mine.classes
  BY DEF Mine, PlanOf, Plan, TelegramSend, TelegramSendMedia, DiscordSend, DiscordSendMedia, SlackSend,
         SlackSendMedia, LineSend, LineSendMedia, QQSend, QQSendMedia, IRCSend, DingTalkSend, FeishuSend,
         FeishuSendMedia, OneBotSend, OneBotSendMedia, WhatsAppSend, NativeSend, MatrixSend, MatrixSendMedia,
         WeComBotSend, WeComAppSend, WeComAppSendMedia, MaixCamSend, Temporary, Unclassified, Classified
<1>4. DOMAIN parts \subseteq Indices
  <2>1. DOMAIN parts = 1..n
    OBVIOUS
  <2>2. Parts \in Nat
    BY SendAssumption
  <2> QED BY <2>1, <2>2 DEF Indices
<1> HIDE DEF parts
<1>5. CallsSound(parts, Units)
  BY <1>1, <1>2, Zenon
<1> QED BY <1>3, <1>4, <1>5 DEF parts

\* The calls of a message do not change on its way; what LINE's token decides is how often each is tried.
LEMMA UnitsKept == message' = message => Units' = Units
BY DEF Units, Mine, PlanOf, Plan, TelegramSend, TelegramSendMedia, DiscordSend, DiscordSendMedia, SlackSend,
       SlackSendMedia, LineSend, LineSendMedia, QQSend, QQSendMedia, IRCSend, DingTalkSend, FeishuSend,
       FeishuSendMedia, OneBotSend, OneBotSendMedia, WhatsAppSend, NativeSend, MatrixSend, MatrixSendMedia,
       WeComBotSend, WeComAppSend, WeComAppSendMedia, MaixCamSend

\* The call that comes next has parts of the message that no call before it had.
LEMMA UnitFacts ==
  ASSUME SendTypes, Calling
  PROVE  /\ Unit = Units[at] /\ at \in 1..Len(Units) /\ Unit \subseteq Indices
         /\ Unit \cap Before = {}
         /\ Before = UNION {Units[k] : k \in 1..at - 1}
<1>1. CallsSound(message.parts, Units) /\ DOMAIN message.parts \subseteq Indices
  BY MineSound DEF SendTypes
<1>2. /\ Unit = Units[at] /\ Before = UNION {Units[k] : k \in 1..at - 1} /\ at <= Len(Units)
      /\ Len(Units) \in Nat
  BY <1>1 DEF Unit, Before, Units, Calling, CallsSound
<1>3. at \in 1..Len(Units)
  BY <1>2 DEF SendTypes
<1>4. Unit \subseteq Indices
  BY <1>1, <1>2, <1>3 DEF CallsSound
<1>5. \A k \in 1..at - 1 : Units[k] \cap Unit = {}
  <2> SUFFICES ASSUME NEW k \in 1..at - 1 PROVE Units[k] \cap Unit = {}
    OBVIOUS
  <2>1. k \in 1..Len(Units) /\ k # at
    BY <1>2, <1>3
  <2> QED BY <1>1, <1>2, <1>3, <2>1 DEF CallsSound
<1> QED BY <1>2, <1>3, <1>4, <1>5

\* How the parts of the calls so far change with the next call.
LEMMA BeforeMoves ==
  ASSUME SendTypes, Calling, message' = message
  PROVE  /\ at' = at + 1 => Before' = Before \cup Unit
         /\ at' = at => Before' = Before
         /\ at' = 1 => Before' = {}
<1>1. Units' = Units
  BY UnitsKept
<1>2. /\ Before = UNION {Units[k] : k \in 1..at - 1} /\ Unit = Units[at] /\ at \in Nat /\ at >= 1
  <2>1. at \in 1..Len(Units) /\ Before = UNION {Units[k] : k \in 1..at - 1} /\ Unit = Units[at]
    BY UnitFacts
  <2> QED BY <2>1
<1>3. Before' = UNION {Units[k] : k \in 1..at' - 1}
  BY <1>1 DEF Before, Units
<1>4. ASSUME at' = at + 1 PROVE Before' = Before \cup Unit
  <2>1. 1..at' - 1 = (1..at - 1) \cup {at}
    BY <1>2, <1>4
  <2> QED BY <1>2, <1>3, <2>1
<1>5. ASSUME at' = 1 PROVE Before' = {}
  <2>1. 1..at' - 1 = {}
    BY <1>5
  <2> QED BY <1>3, <2>1
<1> QED BY <1>2, <1>3, <1>4, <1>5

LEMMA MoreCounts ==
  ASSUME NEW count \in [Indices -> Nat], NEW ps
  PROVE  /\ More(count, ps) \in [Indices -> Nat]
         /\ \A p \in Indices : More(count, ps)[p] = IF p \in ps THEN count[p] + 1 ELSE count[p]
BY DEF More

\* What may still arrive is finite, and can be counted.
LEMMA PastFinite ==
  ASSUME SendTypes, NEW p
  PROVE  IsFiniteSet(Past(p)) /\ Cardinality(Past(p)) \in Nat
<1>1. IsFiniteSet(late) /\ Past(p) \in SUBSET late
  BY DEF SendTypes, CountTypes, Past
<1>2. IsFiniteSet(Past(p))
  BY <1>1, FS_Subset
<1> QED BY <1>2, FS_CardinalityType

\* A call that is cut off is seen at once, or late, or not at all: once at most.
LEMMA CallBooked ==
  ASSUME SendTypes, Calling, message' = message, NEW reached \in BOOLEAN,
         IF reached
         THEN /\ cut' = More(cut, Unit)
              /\ \/ shown' = More(shown, Unit) /\ UNCHANGED late
                 \/ message.by \in Untimed /\ late' = late \cup {<<attempt, at>>} /\ UNCHANGED shown
         ELSE UNCHANGED <<cut, shown, late>>
  PROVE  /\ shown' \in [Indices -> Nat] /\ cut' \in [Indices -> Nat]
         /\ IsFiniteSet(late') /\ \A k \in late' : k[2] \in 1..Len(Units)
         /\ \A p \in Indices : /\ shown'[p] >= shown[p]
                               /\ Seen(p)' \in Nat
                               /\ Seen(p)' + cut[p] <= Seen(p) + cut'[p]
<1>1. /\ shown \in [Indices -> Nat] /\ cut \in [Indices -> Nat] /\ IsFiniteSet(late)
      /\ \A k \in late : k[2] \in 1..Len(Units)
  BY DEF SendTypes, CountTypes
<1>2. Units' = Units /\ at \in 1..Len(Units) /\ Unit = Units[at]
  BY UnitsKept, UnitFacts
<1>3. \A p : Past(p)' = {k \in late' : p \in Units[k[2]]}
  BY <1>2 DEF Past
<1>4. \A p : Cardinality(Past(p)) \in Nat /\ IsFiniteSet(Past(p))
  BY PastFinite
<1>5. CASE reached /\ shown' = More(shown, Unit) /\ UNCHANGED late
  <2>1. cut' = More(cut, Unit) /\ shown' = More(shown, Unit) /\ late' = late
    BY <1>5
  <2>2. \A p : Past(p)' = Past(p)
    BY <1>3, <2>1 DEF Past
  <2>3. /\ shown' \in [Indices -> Nat] /\ cut' \in [Indices -> Nat]
        /\ \A p \in Indices : /\ shown'[p] = IF p \in Unit THEN shown[p] + 1 ELSE shown[p]
                              /\ cut'[p] = IF p \in Unit THEN cut[p] + 1 ELSE cut[p]
    BY <1>1, <2>1, MoreCounts
  <2>4. ASSUME NEW p \in Indices
        PROVE  shown'[p] >= shown[p] /\ Seen(p)' \in Nat /\ Seen(p)' + cut[p] <= Seen(p) + cut'[p]
    <3>1. shown[p] \in Nat /\ cut[p] \in Nat /\ Cardinality(Past(p)) \in Nat
      BY <1>1, <1>4
    <3>2. Seen(p)' = shown'[p] + Cardinality(Past(p)) /\ Seen(p) = shown[p] + Cardinality(Past(p))
      BY <2>2 DEF Seen
    <3> QED BY <2>3, <3>1, <3>2
  <2> QED BY <1>1, <2>1, <2>3, <2>4
<1>6. CASE reached /\ late' = late \cup {<<attempt, at>>} /\ UNCHANGED shown
  <2>1. cut' = More(cut, Unit) /\ shown' = shown /\ late' = late \cup {<<attempt, at>>}
    BY <1>6
  <2>2. \A p : Past(p)' = IF p \in Unit THEN Past(p) \cup {<<attempt, at>>} ELSE Past(p)
    BY <1>2, <1>3, <2>1 DEF Past
  <2>3. /\ cut' \in [Indices -> Nat]
        /\ \A p \in Indices : cut'[p] = IF p \in Unit THEN cut[p] + 1 ELSE cut[p]
    BY <1>1, <2>1, MoreCounts
  <2>4. ASSUME NEW p \in Indices
        PROVE  shown'[p] >= shown[p] /\ Seen(p)' \in Nat /\ Seen(p)' + cut[p] <= Seen(p) + cut'[p]
    <3>1. shown[p] \in Nat /\ cut[p] \in Nat /\ Cardinality(Past(p)) \in Nat
      BY <1>1, <1>4
    <3>2. Cardinality(Past(p) \cup {<<attempt, at>>}) <= Cardinality(Past(p)) + 1
          /\ Cardinality(Past(p) \cup {<<attempt, at>>}) \in Nat
      <4> DEFINE S == Past(p)  k == <<attempt, at>>
      <4>1. IsFiniteSet(S) /\ Cardinality(S) \in Nat
        BY <1>4
      <4> HIDE DEF S, k
      <4>2. Cardinality(S \cup {k}) = IF k \in S THEN Cardinality(S) ELSE Cardinality(S) + 1
        BY <4>1, FS_AddElement
      <4>3. Cardinality(S \cup {k}) <= Cardinality(S) + 1 /\ Cardinality(S \cup {k}) \in Nat
        BY <4>1, <4>2
      <4> QED BY <4>3 DEF S, k
    <3>3. Seen(p)' = shown[p] + Cardinality(Past(p)') /\ Seen(p) = shown[p] + Cardinality(Past(p))
      BY <2>1 DEF Seen
    <3>4. CASE p \in Unit
      <4>1. Past(p)' = Past(p) \cup {<<attempt, at>>} /\ cut'[p] = cut[p] + 1
        BY <2>2, <2>3, <3>4
      <4> QED BY <2>1, <3>1, <3>2, <3>3, <4>1
    <3>5. CASE p \notin Unit
      <4>1. Past(p)' = Past(p) /\ cut'[p] = cut[p]
        BY <2>2, <2>3, <3>5
      <4> QED BY <2>1, <3>1, <3>3, <4>1
    <3> QED BY <3>4, <3>5
  <2>5. IsFiniteSet(late')
    BY <1>1, <2>1, FS_AddElement, Zenon
  <2>6. \A k \in late' : k[2] \in 1..Len(Units)
    <3>1. <<attempt, at>>[2] = at
      OBVIOUS
    <3> QED BY <1>1, <1>2, <2>1, <3>1
  <2> QED BY <1>1, <2>1, <2>3, <2>4, <2>5, <2>6
<1>7. CASE ~reached
  <2>1. cut' = cut /\ shown' = shown /\ late' = late
    BY <1>7
  <2>2. \A p : Past(p)' = Past(p)
    BY <1>3, <2>1 DEF Past
  <2>3. ASSUME NEW p \in Indices
        PROVE  shown'[p] >= shown[p] /\ Seen(p)' \in Nat /\ Seen(p)' + cut[p] <= Seen(p) + cut'[p]
    <3>1. shown[p] \in Nat /\ cut[p] \in Nat /\ Cardinality(Past(p)) \in Nat
      BY <1>1, <1>4
    <3>2. Seen(p)' = Seen(p) /\ Seen(p) = shown[p] + Cardinality(Past(p))
      BY <2>1, <2>2 DEF Seen
    <3> QED BY <2>1, <3>1, <3>2
  <2> QED BY <1>1, <2>1, <2>3
<1> QED BY <1>5, <1>6, <1>7

\* What the plan has asked for is not less after the next call or after an error that starts it again.
LEMMA MoveBooked ==
  ASSUME SendTypes, Calling, message' = message,
         \/ redone' = redone /\ at' \in {at, at + 1}
         \/ redone' = More(redone, Before) /\ at' \in {1, at}
  PROVE  /\ redone' \in [Indices -> Nat]
         /\ \A p \in Indices : Due(p) \in Nat /\ Due(p)' \in Nat /\ Due(p) <= Due(p)'
<1>1. redone \in [Indices -> Nat]
  BY DEF SendTypes, CountTypes
<1>2. /\ at' = at + 1 => Before' = Before \cup Unit
      /\ at' = at => Before' = Before
      /\ at' = 1 => Before' = {}
  BY BeforeMoves
<1>3. CASE redone' = redone /\ at' \in {at, at + 1}
  <2>1. Before \subseteq Before'
    BY <1>2, <1>3
  <2> QED BY <1>1, <1>3, <2>1 DEF Due
<1>4. CASE redone' = More(redone, Before) /\ at' \in {1, at}
  <2>1. /\ redone' \in [Indices -> Nat]
        /\ \A p \in Indices : redone'[p] = IF p \in Before THEN redone[p] + 1 ELSE redone[p]
    BY <1>1, <1>4, MoreCounts
  <2> QED BY <1>1, <2>1 DEF Due
<1> QED BY <1>3, <1>4

\* A call that arrives late is no longer expected: it is seen instead.
LEMMA LateCounts ==
  ASSUME SendTypes, NEW k \in late, ArrivesLate(k)
  PROVE  /\ shown' \in [Indices -> Nat]
         /\ \A p \in Indices : shown'[p] >= shown[p] /\ Seen(p)' = Seen(p)
<1>1. /\ late' = late \ {k} /\ shown' = More(shown, Units[k[2]]) /\ message' = message
  BY DEF ArrivesLate, Units
<1>2. Units' = Units
  BY <1>1, UnitsKept
<1>3. shown \in [Indices -> Nat]
  BY DEF SendTypes, CountTypes
<1>4. /\ shown' \in [Indices -> Nat]
      /\ \A p \in Indices : shown'[p] = IF p \in Units[k[2]] THEN shown[p] + 1 ELSE shown[p]
  BY <1>1, <1>3, MoreCounts
<1>5. \A p : Past(p)' = Past(p) \ {k}
  BY <1>1, <1>2 DEF Past
<1>6. ASSUME NEW p \in Indices PROVE shown'[p] >= shown[p] /\ Seen(p)' = Seen(p)
  <2> DEFINE S == Past(p)
  <2>1. IsFiniteSet(S) /\ Cardinality(S) \in Nat /\ (k \in S <=> p \in Units[k[2]])
    BY PastFinite DEF Past
  <2>2. Seen(p) = shown[p] + Cardinality(S) /\ Seen(p)' = shown'[p] + Cardinality(S \ {k})
    BY <1>5 DEF Seen
  <2> HIDE DEF S
  <2>3. Cardinality(S \ {k}) = IF k \in S THEN Cardinality(S) - 1 ELSE Cardinality(S)
    BY <2>1, FS_RemoveElement
  <2> QED BY <1>3, <1>4, <2>1, <2>2, <2>3
<1> QED BY <1>4, <1>6

LEMMA SendInvInit == SendInit => SendInv
<1> SUFFICES ASSUME SendInit PROVE SendInv
  OBVIOUS
<1>1. Parts \in Nat \ {0}
  BY SendAssumption
<1>2. /\ at = 1 /\ late = {} /\ outcome = "sending"
      /\ shown = [i \in Indices |-> 0] /\ cut = [i \in Indices |-> 0] /\ redone = [i \in Indices |-> 0]
  BY DEF SendInit
<1>3. MessageType
  <2> DEFINE few(a) == IF a \in InPieces THEN Parts ELSE 1
  <2>1. \/ \E a \in TextSenders : message.parts = [i \in 1..few(a) |-> "there"]
        \/ message.parts \in [Indices -> PartState]
    <3>1. \/ \E a \in TextSenders : message = [by |-> a, lane |-> "text", parts |-> [i \in 1..few(a) |-> "there"]]
          \/ \E a \in MediaSenders, q \in [Indices -> PartState] : message = [by |-> a, lane |-> "media", parts |-> q]
      <4> DEFINE Written == {[by |-> a, lane |-> "text", parts |-> [i \in 1..few(a) |-> "there"]] : a \in TextSenders}
                 Media == {[by |-> a, lane |-> "media", parts |-> q] : a \in MediaSenders, q \in [Indices -> PartState]}
      <4>1. message \in Written \cup Media
        BY DEF SendInit
      <4>2. message \in Written \/ message \in Media
        BY <4>1
      <4> HIDE DEF few
      <4> QED BY <4>2
    <3>2. CASE \E a \in TextSenders : message = [by |-> a, lane |-> "text", parts |-> [i \in 1..few(a) |-> "there"]]
      <4>1. PICK a \in TextSenders : message = [by |-> a, lane |-> "text", parts |-> [i \in 1..few(a) |-> "there"]]
        BY <3>2
      <4> DEFINE q == [i \in 1..few(a) |-> "there"]
      <4>2. message = [by |-> a, lane |-> "text", parts |-> q]
        BY <4>1
      <4> HIDE DEF q
      <4>3. message.parts = q
        BY <4>2
      <4> QED BY <4>3 DEF q
    <3>3. CASE \E a \in MediaSenders, q \in [Indices -> PartState] : message = [by |-> a, lane |-> "media", parts |-> q]
      BY <3>3
    <3> QED BY <3>1, <3>2, <3>3
  <2>2. \A a : few(a) \in Nat /\ few(a) <= Parts
    BY <1>1
  <2>3. CASE message.parts \in [Indices -> PartState]
    BY <1>1, <2>3 DEF MessageType, Indices
  <2>4. CASE \E a \in TextSenders : message.parts = [i \in 1..few(a) |-> "there"]
    <3>1. PICK a \in TextSenders : message.parts = [i \in 1..few(a) |-> "there"]
      BY <2>4
    <3> HIDE DEF few
    <3>2. message.parts \in [1..few(a) -> PartState]
      BY <3>1 DEF PartState
    <3> QED BY <2>2, <3>2 DEF MessageType
  <2> QED BY <2>1, <2>3, <2>4
<1>4. Len(Units) \in Nat
  BY <1>3, MineSound DEF CallsSound
<1>5. CountTypes
  BY <1>2, FS_EmptySet DEF CountTypes
<1>6. SendTypes
  BY <1>2, <1>3, <1>4, <1>5 DEF SendTypes
<1>7. CountInv
  <2> SUFFICES ASSUME NEW p \in Indices PROVE Seen(p) <= cut[p] + Due(p)
    BY DEF CountInv
  <2>1. Past(p) = {} /\ Cardinality({}) = 0
    BY <1>2, FS_EmptySet DEF Past
  <2>2. Seen(p) = 0
    BY <1>2, <2>1 DEF Seen
  <2>3. Before = {}
    BY <1>2 DEF Before
  <2>4. Due(p) = 0 /\ cut[p] = 0
    BY <1>2, <2>3 DEF Due
  <2> QED BY <2>2, <2>4
<1>8. SeenInv
  <2>1. \A k \in 1..Len(Units) : ~(k < at)
    BY <1>2, <1>4
  <2> QED BY <2>1 DEF SeenInv
<1> QED BY <1>6, <1>7, <1>8 DEF SendInv

LEMMA SendInvStep == SendInv /\ [SendNext]_sendVars => SendInv'
<1> SUFFICES ASSUME SendInv, [SendNext]_sendVars PROVE SendInv'
  OBVIOUS
<1>0. SendTypes /\ CountInv /\ SeenInv
  BY DEF SendInv
<1>1. /\ MessageType /\ at \in 1..Len(Units) + 1 /\ Len(Units) \in Nat
      /\ shown \in [Indices -> Nat] /\ cut \in [Indices -> Nat] /\ redone \in [Indices -> Nat]
      /\ IsFiniteSet(late) /\ \A k \in late : k[2] \in 1..Len(Units)
  BY <1>0, MineSound DEF SendTypes, CountTypes, CallsSound
<1>2. CallsSound(message.parts, Units) /\ DOMAIN message.parts \subseteq Indices
  BY <1>1, MineSound
<1>3. \A p \in Indices : Seen(p) \in Nat
  <2> SUFFICES ASSUME NEW p \in Indices PROVE Seen(p) \in Nat
    OBVIOUS
  <2>1. Cardinality(Past(p)) \in Nat /\ shown[p] \in Nat
    BY <1>0, <1>1, PastFinite
  <2> QED BY <2>1 DEF Seen
<1>4. \A p \in Indices : Due(p) \in Nat
  BY <1>1 DEF Due
<1>5. message' = message => MessageType' /\ Units' = Units
  BY <1>1, UnitsKept DEF MessageType
<1>6. \A k \in 1..Len(Units) : \A p \in Units[k] : p \in Indices
  BY <1>2 DEF CallsSound
\* Parts that have been seen stay so.
<1>7. ASSUME message' = message, at' \in 1..at, \A p \in Indices : shown'[p] >= shown[p],
             shown' \in [Indices -> Nat]
      PROVE  SeenInv'
  <2> SUFFICES ASSUME message.by # "irc", NEW k \in 1..Len(Units), k < at', NEW p \in Units[k] PROVE shown'[p] > 0
    BY <1>5, <1>7 DEF SeenInv
  <2>1. k < at
    <3>1. at \in Nat /\ at' \in Nat /\ at' <= at
      BY <1>1, <1>7
    <3> QED BY <1>1, <3>1
  <2>2. p \in Indices /\ shown[p] > 0
    BY <1>0, <1>6, <2>1 DEF SeenInv
  <2>3. shown[p] \in Nat /\ shown'[p] \in Nat /\ shown'[p] >= shown[p]
    BY <1>1, <1>7, <2>2
  <2> QED BY <2>2, <2>3
<1>8. CASE Accepted
  <2>1. /\ Calling /\ shown' = More(shown, Unit) /\ at' = at + 1 /\ message' = message /\ cut' = cut
        /\ redone' = redone /\ late' = late /\ outcome' = outcome
    BY <1>8 DEF Accepted
  <2>2. at \in 1..Len(Units) /\ Unit = Units[at] /\ Unit \cap Before = {} /\ Units' = Units /\ outcome = "sending"
    BY <1>0, <1>5, <2>1, UnitFacts DEF Calling
  <2>3. /\ shown' \in [Indices -> Nat]
        /\ \A p \in Indices : shown'[p] = IF p \in Unit THEN shown[p] + 1 ELSE shown[p]
    BY <1>1, <2>1, MoreCounts
  <2>4. Before' = Before \cup Unit
    BY <1>0, <2>1, BeforeMoves
  <2>5. SendTypes'
    BY <1>1, <1>5, <2>1, <2>2, <2>3 DEF SendTypes, CountTypes
  <2>6. CountInv'
    <3> SUFFICES ASSUME NEW p \in Indices PROVE Seen(p)' <= cut'[p] + Due(p)'
      BY DEF CountInv
    <3>1. Past(p)' = Past(p) /\ Cardinality(Past(p)) \in Nat
      BY <1>0, <2>1, <2>2, PastFinite DEF Past
    <3>2. Seen(p)' = shown'[p] + Cardinality(Past(p)) /\ Seen(p) = shown[p] + Cardinality(Past(p))
      BY <3>1 DEF Seen
    <3>3. /\ Due(p) = redone[p] + (IF p \in Before THEN 1 ELSE 0)
          /\ Due(p)' = redone[p] + (IF p \in Before \/ p \in Unit THEN 1 ELSE 0)
      BY <2>1, <2>4 DEF Due
    <3>4. p \in Unit => p \notin Before
      BY <2>2
    <3>5. Seen(p) <= cut[p] + Due(p) /\ shown[p] \in Nat /\ cut[p] \in Nat /\ redone[p] \in Nat
      BY <1>0, <1>1 DEF CountInv
    <3>6. CASE p \in Unit
      BY <2>1, <2>3, <3>1, <3>2, <3>3, <3>4, <3>5, <3>6
    <3>7. CASE p \notin Unit
      BY <2>1, <2>3, <3>1, <3>2, <3>3, <3>5, <3>7
    <3> QED BY <3>6, <3>7
  <2>7. SeenInv'
    <3> SUFFICES ASSUME message.by # "irc", NEW k \in 1..Len(Units), k < at', NEW p \in Units[k] PROVE shown'[p] > 0
      BY <2>1, <2>2 DEF SeenInv
    <3>1. k < at \/ k = at
      BY <1>1, <2>1, <2>2
    <3>2. p \in Indices
      BY <1>6, <3>1
    <3>3. CASE k = at
      <4>1. p \in Unit /\ shown[p] \in Nat
        BY <1>1, <2>2, <3>2, <3>3
      <4>2. shown'[p] = shown[p] + 1
        BY <2>3, <3>2, <4>1
      <4> QED BY <4>1, <4>2
    <3>4. CASE k < at
      <4>1. shown[p] > 0
        BY <1>0, <3>4 DEF SeenInv
      <4>2. shown[p] \in Nat /\ shown'[p] \in {shown[p], shown[p] + 1}
        BY <1>1, <2>3, <3>2
      <4> QED BY <4>1, <4>2
    <3> QED BY <3>1, <3>3, <3>4
  <2> QED BY <2>5, <2>6, <2>7 DEF SendInv
<1>9. ASSUME NEW reached \in BOOLEAN, NotAccepted(reached) PROVE SendInv'
  <2>1. Calling /\ message' = message
    BY <1>9 DEF NotAccepted
  <2>2. IF reached
        THEN /\ cut' = More(cut, Unit)
             /\ \/ shown' = More(shown, Unit) /\ UNCHANGED late
                \/ message.by \in Untimed /\ late' = late \cup {<<attempt, at>>} /\ UNCHANGED shown
        ELSE UNCHANGED <<cut, shown, late>>
    BY <1>9 DEF NotAccepted
  <2>3. /\ \/ redone' = redone /\ at' = at /\ outcome' = outcome
           \/ redone' = redone /\ at' = at + 1 /\ outcome' = outcome /\ "ignored" \in Mine.classes
           \/ redone' = More(redone, Before) /\ at' \in {1, at} /\ outcome' # "nil"
    <3>1. "nil" \notin Mine.classes /\ outcome = "sending"
      BY <1>1, <2>1, MineSound DEF Calling
    <3>2. \/ redone' = redone /\ at' = at /\ outcome' = outcome
          \/ redone' = redone /\ at' = at + 1 /\ outcome' = outcome /\ "ignored" \in Mine.classes
          \/ \E c \in Mine.classes \ {"ignored"} : AfterError(c)
      BY <1>9 DEF NotAccepted
    <3>3. ASSUME NEW c \in Mine.classes \ {"ignored"}, AfterError(c)
          PROVE  redone' = More(redone, Before) /\ at' \in {1, at} /\ outcome' # "nil"
      BY <3>1, <3>3 DEF AfterError
    <3> QED BY <3>2, <3>3
  <2>4. /\ shown' \in [Indices -> Nat] /\ cut' \in [Indices -> Nat]
        /\ IsFiniteSet(late') /\ \A k \in late' : k[2] \in 1..Len(Units)
        /\ \A p \in Indices : /\ shown'[p] >= shown[p]
                              /\ Seen(p)' \in Nat
                              /\ Seen(p)' + cut[p] <= Seen(p) + cut'[p]
    BY <1>0, <2>1, <2>2, CallBooked
  <2>5. /\ redone' \in [Indices -> Nat]
        /\ \A p \in Indices : Due(p) \in Nat /\ Due(p)' \in Nat /\ Due(p) <= Due(p)'
    <3>1. \/ redone' = redone /\ at' \in {at, at + 1}
          \/ redone' = More(redone, Before) /\ at' \in {1, at}
      BY <2>3
    <3> QED BY <1>0, <2>1, <3>1, MoveBooked
  <2>6. Units' = Units /\ MessageType' /\ at \in 1..Len(Units) /\ outcome = "sending"
    BY <1>0, <1>5, <2>1, UnitFacts DEF Calling
  <2>7. at' \in 1..Len(Units) + 1
    BY <1>1, <2>3, <2>6
  <2>8. outcome' # "nil"
    BY <2>3, <2>6
  <2>9. SendTypes'
    BY <2>4, <2>5, <2>6, <2>7, <2>8 DEF SendTypes, CountTypes
  <2>10. CountInv'
    <3> SUFFICES ASSUME NEW p \in Indices PROVE Seen(p)' <= cut'[p] + Due(p)'
      BY DEF CountInv
    <3>1. /\ Seen(p) \in Nat /\ Seen(p)' \in Nat /\ Due(p) \in Nat /\ Due(p)' \in Nat
          /\ cut[p] \in Nat /\ cut'[p] \in Nat
      BY <1>1, <1>3, <2>4, <2>5
    <3>2. /\ Seen(p) <= cut[p] + Due(p) /\ Seen(p)' + cut[p] <= Seen(p) + cut'[p]
          /\ Due(p) <= Due(p)'
      BY <1>0, <2>4, <2>5 DEF CountInv
    <3> QED BY <3>1, <3>2
  <2>11. SeenInv'
    <3>1. CASE "ignored" \in Mine.classes
      <4>1. message'.by = "irc"
        BY <1>1, <2>1, <3>1, MineSound
      <4> QED BY <4>1 DEF SeenInv
    <3>2. CASE "ignored" \notin Mine.classes
      <4>1. at' \in 1..at
        BY <2>3, <2>6, <3>2
      <4> QED BY <1>7, <2>1, <2>4, <4>1
    <3> QED BY <3>1, <3>2
  <2> QED BY <2>9, <2>10, <2>11 DEF SendInv
<1>10. ASSUME NEW k \in late, ArrivesLate(k) PROVE SendInv'
  <2>1. /\ message' = message /\ late' = late \ {k} /\ at' = at /\ cut' = cut /\ redone' = redone
        /\ outcome' = outcome
    BY <1>10 DEF ArrivesLate
  <2>2. /\ shown' \in [Indices -> Nat]
        /\ \A p \in Indices : shown'[p] >= shown[p] /\ Seen(p)' = Seen(p)
    BY <1>0, <1>10, LateCounts
  <2>3. IsFiniteSet(late')
    BY <1>1, <2>1, FS_RemoveElement, Zenon
  <2>4. SendTypes'
    BY <1>0, <1>1, <1>5, <2>1, <2>2, <2>3 DEF SendTypes, CountTypes
  <2>5. \A p : Due(p)' = Due(p)
    BY <1>5, <2>1 DEF Due, Before, Units
  <2>6. CountInv'
    BY <1>0, <2>1, <2>2, <2>5 DEF CountInv
  <2>7. SeenInv'
    <3>1. at' \in 1..at
      BY <1>1, <2>1
    <3> QED BY <1>7, <2>1, <2>2, <3>1
  <2> QED BY <2>4, <2>6, <2>7 DEF SendInv
<1>11. CASE Returns \/ UNCHANGED sendVars
  <2>1. /\ message' = message /\ late' = late /\ at' = at /\ cut' = cut /\ redone' = redone /\ shown' = shown
        /\ outcome' = outcome \/ at > Len(Units)
    BY <1>11 DEF Returns, sendVars, Units
  <2>2. Units' = Units
    BY <1>5, <2>1
  <2>3. SendTypes'
    BY <1>0, <1>1, <1>5, <2>1 DEF SendTypes, CountTypes
  <2>4. \A p : Due(p)' = Due(p) /\ Seen(p)' = Seen(p)
    BY <2>1, <2>2 DEF Due, Before, Seen, Past, Units
  <2>5. CountInv'
    BY <1>0, <2>1, <2>4 DEF CountInv
  <2>6. SeenInv'
    <3>1. at' \in 1..at /\ \A p \in Indices : shown[p] >= shown[p]
      BY <1>1, <2>1
    <3> QED BY <1>1, <1>7, <2>1, <3>1
  <2> QED BY <2>3, <2>5, <2>6 DEF SendInv
<1>12. /\ Refused => NotAccepted(FALSE)
       /\ CutOff => NotAccepted(TRUE)
  BY DEF Refused, CutOff
<1> QED BY <1>8, <1>9, <1>10, <1>11, <1>12 DEF SendNext

\* When the manager takes a message for sent, the chat has seen every part that was there, and a part is
\* seen again only for a call that was cut off or an attempt that failed after it (the Send and SendMedia
\* of the adapters, sendWithRetry in manager.go), whichever calls fail, are cut off or arrive late.
THEOREM SentMeansShown == ASSUME SendAssumption PROVE SendSpec => []DeliverySound
<1>1. SendInv => DeliverySound
  <2> SUFFICES ASSUME SendInv PROVE NilMeansShown /\ RepeatsExplained
    BY DEF DeliverySound
  <2>1. SendTypes /\ CountInv /\ SeenInv
    BY DEF SendInv
  <2>2. MessageType /\ shown \in [Indices -> Nat] /\ cut \in [Indices -> Nat] /\ redone \in [Indices -> Nat]
    BY <2>1 DEF SendTypes, CountTypes
  <2>3. CallsSound(message.parts, Units)
    BY <2>2, MineSound
  <2>4. NilMeansShown
    <3> SUFFICES ASSUME outcome = "nil", message.by # "irc", NEW p \in DOMAIN message.parts,
                        message.parts[p] = "there"
                 PROVE  shown[p] > 0
      BY DEF NilMeansShown
    <3>1. p \in There(message.parts)
      BY DEF There
    <3>2. PICK k \in 1..Len(Units) : p \in Units[k]
      BY <2>3, <3>1 DEF CallsSound
    <3>3. at \in 1..Len(Units) + 1 /\ at > Len(Units) /\ Len(Units) \in Nat
      BY <2>1, <2>3 DEF SendTypes, CallsSound
    <3>4. k < at
      BY <3>3
    <3> QED BY <2>1, <3>2, <3>4 DEF SeenInv
  <2>5. RepeatsExplained
    <3> SUFFICES ASSUME NEW p \in Indices PROVE shown[p] <= 1 + cut[p] + redone[p]
      BY DEF RepeatsExplained
    <3>1. Seen(p) <= cut[p] + Due(p) /\ shown[p] \in Nat /\ cut[p] \in Nat /\ redone[p] \in Nat
      BY <2>1, <2>2 DEF CountInv
    <3>2. Cardinality(Past(p)) \in Nat
      BY <2>1, PastFinite
    <3>3. Seen(p) = shown[p] + Cardinality(Past(p)) /\ Due(p) = redone[p] + (IF p \in Before THEN 1 ELSE 0)
      BY DEF Seen, Due
    <3> QED BY <3>1, <3>2, <3>3
  <2> QED BY <2>4, <2>5
<1> QED BY <1>1, SendInvInit, SendInvStep, PTL DEF SendSpec
-----------------------------------------------------------------------------
(* The log page: the ring, the page and the request between the two.       *)

\* The place of line l of a run in the ring.
Place(l) == ((l - 1) % Capacity) + 1
\* The numbers of the lines that the ring has.
Held == (total - Len(ring)) + 1..total

Answered(lines, last) == \A i \in 1..Len(lines) : lines[i][2] = (last - Len(lines)) + i

\* The ring has the last lines of the run, as many as fit, each at its place.
RingInv ==
    /\ total \in Nat /\ runID \in Nat /\ ring \in Seq(Nat \X Nat)
    /\ Len(ring) = (IF total < Capacity THEN total ELSE Capacity)
    /\ \A l \in Held : ring[Place(l)] = <<runID, l>>
\* The page shows lines of the run that it knows, the last of them before its offset.
PageInv ==
    /\ page.lines \in Seq(Nat \X Nat) /\ page.offset \in Nat /\ page.token \in Nat
    /\ page.run \in Int /\ page.run <= runID
    /\ \A i \in 1..Len(page.lines) : page.lines[i][1] = page.run
    /\ page.lines # <<>> => page.lines[Len(page.lines)][2] = page.offset
\* An answer is a piece of the log without gaps.
AnswerInv ==
    /\ asked.next \in {"none", "run", "lines", "answer"}
    /\ asked.lines \in Seq(Nat \X Nat) /\ Len(asked.lines) <= Capacity
    /\ asked.total \in Nat /\ asked.got \in Int /\ asked.got <= runID /\ asked.offset \in Nat
    /\ asked.next # "answer" => asked.lines = <<>>
    /\ \A i \in 1..Len(asked.lines) : asked.lines[i][1] = asked.got
    /\ Answered(asked.lines, asked.total)
\* A request that the page will not drop asks for what comes after the page's lines, unless the run is
\* another one by now.
AskInv ==
    /\ asked.next # "none" => asked.token \in Nat /\ asked.token <= page.token /\ asked.run \in Int
    /\ asked.next # "none" /\ asked.token = page.token =>
         /\ asked.run = page.run
         /\ asked.next = "run" => asked.offset = page.offset
         /\ asked.next = "lines" => asked.offset = page.offset \/ asked.run < runID
         /\ asked.next = "answer" /\ asked.got = asked.run /\ asked.lines # <<>> =>
               LET before == asked.total - Len(asked.lines)
               IN  before = page.offset \/ (before > page.offset /\ Len(asked.lines) = Capacity)
RequestInv == AnswerInv /\ AskInv
LogInv == RingInv /\ PageInv /\ RequestInv /\ ShownInOrder

\* Two lines that the ring has at once have different places.
LEMMA PlacesApart ==
  ASSUME LogAssumption, NEW k \in Nat \ {0}, NEW l \in Nat \ {0}, k < l, l < k + Capacity
  PROVE  Place(k) \in 1..Capacity /\ Place(l) \in 1..Capacity /\ Place(k) # Place(l)
<1> DEFINE a == k - 1  b == l - 1  q == (b \div Capacity) - (a \div Capacity)
<1>1. Capacity \in Nat \ {0} /\ a \in Nat /\ b \in Nat /\ a < b /\ b < a + Capacity
  BY DEF LogAssumption
<1>2. /\ a = Capacity * (a \div Capacity) + (a % Capacity) /\ a % Capacity \in 0..Capacity - 1
      /\ b = Capacity * (b \div Capacity) + (b % Capacity) /\ b % Capacity \in 0..Capacity - 1
      /\ a \div Capacity \in Int /\ b \div Capacity \in Int
  BY <1>1
<1>3. Place(k) = (a % Capacity) + 1 /\ Place(l) = (b % Capacity) + 1
  BY DEF Place
<1>4. a % Capacity # b % Capacity
  <2> SUFFICES ASSUME a % Capacity = b % Capacity PROVE FALSE
    OBVIOUS
  <2>1. q \in Int /\ b - a = Capacity * q
    BY <1>1, <1>2
  <2> HIDE DEF a, b, q
  <2>2. 0 < Capacity * q /\ Capacity * q < Capacity
    BY <1>1, <2>1
  <2>3. q <= 0 => Capacity * q <= 0
    BY <1>1, <2>1
  <2>4. q >= 1 => Capacity * q >= Capacity
    BY <1>1, <2>1
  <2> QED BY <1>1, <2>1, <2>2, <2>3, <2>4
<1>5. a % Capacity \in 0..Capacity - 1 /\ b % Capacity \in 0..Capacity - 1
  BY <1>2
<1> HIDE DEF a, b
<1> QED BY <1>1, <1>3, <1>4, <1>5

\* The place of a line that came when the ring was not full yet is its number.
LEMMA PlaceAlone ==
  ASSUME LogAssumption, NEW l \in 1..Capacity
  PROVE  Place(l) = l
<1>1. Capacity \in Nat \ {0} /\ l - 1 \in 0..Capacity - 1
  BY DEF LogAssumption
<1>2. (l - 1) % Capacity = l - 1
  BY <1>1
<1> QED BY <1>1, <1>2 DEF Place

LEMMA LogInvInit == LogAssumption /\ LogInit => LogInv
<1> SUFFICES ASSUME LogAssumption, LogInit PROVE LogInv
  OBVIOUS
<1>1. <<>> \in Seq(Nat \X Nat) /\ Len(<<>>) = 0 /\ 1..0 = {} /\ (0 - 0) + 1..0 = {} /\ 1..0 - 1 = {}
  OBVIOUS
<1>2. Capacity \in Nat /\ 0 < Capacity
  BY DEF LogAssumption
<1>3. RingInv
  BY <1>1, <1>2 DEF LogInit, RingInv, Held
<1>4. page.lines = <<>> /\ page.offset = 0 /\ page.run = -1 /\ page.token = 0 /\ runID = 0
  BY DEF LogInit
<1>5. PageInv
  BY <1>1, <1>4 DEF PageInv
<1>6. /\ asked.next = "none" /\ asked.lines = <<>> /\ asked.total = 0 /\ asked.got = 0
      /\ asked.offset = 0
  BY DEF LogInit, NoRequest
<1>7. AnswerInv
  BY <1>1, <1>2, <1>4, <1>6 DEF AnswerInv, Answered
<1>8. AskInv
  BY <1>6 DEF AskInv
<1>9. ShownInOrder
  BY <1>1, <1>4 DEF ShownInOrder
<1> QED BY <1>3, <1>5, <1>7, <1>8, <1>9 DEF LogInv, RequestInv

\* The minimum of two numbers.
LEMMA MinOfTwo ==
  ASSUME NEW a \in Nat, NEW b \in Nat
  PROVE  Min({a, b}) = IF a <= b THEN a ELSE b
<1> DEFINE m == IF a <= b THEN a ELSE b
<1>1. m \in {a, b} /\ \A y \in {a, b} : m <= y
  OBVIOUS
<1>2. \A x \in {a, b} : (\A y \in {a, b} : x <= y) => x = m
  OBVIOUS
<1>3. Min({a, b}) \in {a, b} /\ \A y \in {a, b} : Min({a, b}) <= y
  BY <1>1 DEF Min
<1> HIDE DEF m
<1> QED BY <1>2, <1>3 DEF m

\* The answer to a request for what comes after an offset: the last lines of the run, without gaps,
\* from the offset on or as many as the ring has.
LEMMA LinesSinceTold ==
  ASSUME LogAssumption, RingInv, NEW offset \in Nat, NEW s, s = LinesSince(offset)
  PROVE  /\ s \in Seq(Nat \X Nat) /\ Len(s) <= Capacity
         /\ \A i \in 1..Len(s) : s[i] = <<runID, (total - Len(s)) + i>>
         /\ s # <<>> => \/ total - Len(s) = offset
                        \/ total - Len(s) > offset /\ Len(s) = Capacity
<1>1. /\ Capacity \in Nat /\ 0 < Capacity /\ total \in Nat /\ runID \in Nat /\ ring \in Seq(Nat \X Nat)
      /\ Len(ring) = (IF total < Capacity THEN total ELSE Capacity)
  BY DEF LogAssumption, RingInv
<1>2. CASE offset >= total
  <2>1. s = <<>>
    BY <1>2 DEF LinesSince
  <2>2. <<>> \in Seq(Nat \X Nat) /\ Len(<<>>) = 0 /\ 1..0 = {}
    OBVIOUS
  <2> QED BY <1>1, <2>1, <2>2
<1>3. CASE offset < total
  <2> DEFINE new == Min({total - offset, Len(ring)})
  <2>1. total - offset \in Nat /\ total - offset > 0 /\ Len(ring) \in Nat /\ Len(ring) > 0
    BY <1>1, <1>3
  <2>2. new = IF total - offset <= Len(ring) THEN total - offset ELSE Len(ring)
    BY <2>1, MinOfTwo
  <2>3. s = IF total <= Capacity THEN SubSeq(ring, Len(ring) - new + 1, Len(ring))
            ELSE [i \in 1..new |-> ring[((total - new + i - 1) % Capacity) + 1]]
    <3>1. ~(offset >= total)
      BY <1>1, <1>3
    <3> QED BY <3>1 DEF LinesSince
  <2> HIDE DEF new
  <2>4. new \in Nat /\ new > 0 /\ new <= Len(ring) /\ new <= total /\ new <= Capacity
    BY <1>1, <1>3, <2>1, <2>2
  <2>5. total - new = offset \/ (total - new > offset /\ new = Capacity)
    BY <1>1, <1>3, <2>1, <2>2
  <2>6. Len(s) = new /\ \A i \in 1..new : s[i] = ring[Place((total - new) + i)]
    <3>1. CASE total <= Capacity
      <4>1. Len(ring) = total
        BY <1>1, <3>1
      <4>2. s = SubSeq(ring, (total - new) + 1, total)
        BY <2>3, <3>1, <4>1
      <4>3. Len(s) = new /\ \A i \in 1..new : s[i] = ring[(total - new) + i]
        BY <1>1, <2>4, <4>1, <4>2
      <4>4. \A i \in 1..new : Place((total - new) + i) = (total - new) + i
        <5> SUFFICES ASSUME NEW i \in 1..new PROVE Place((total - new) + i) = (total - new) + i
          OBVIOUS
        <5>1. (total - new) + i \in 1..Capacity
          BY <1>1, <2>4, <3>1
        <5> QED BY <5>1, PlaceAlone
      <4> QED BY <4>3, <4>4
    <3>2. CASE ~(total <= Capacity)
      <4>1. s = [i \in 1..new |-> ring[((total - new + i - 1) % Capacity) + 1]]
        BY <2>3, <3>2
      <4>2. Len(s) = new
        BY <2>4, <4>1
      <4>3. \A i \in 1..new : s[i] = ring[((total - new + i - 1) % Capacity) + 1]
        BY <4>1
      <4>4. \A i \in 1..new : total - new + i - 1 = ((total - new) + i) - 1
        BY <1>1, <2>4
      <4> QED BY <4>2, <4>3, <4>4 DEF Place
    <3> QED BY <3>1, <3>2
  <2>7. \A i \in 1..new : s[i] = <<runID, (total - new) + i>>
    <3> SUFFICES ASSUME NEW i \in 1..new PROVE s[i] = <<runID, (total - new) + i>>
      OBVIOUS
    <3>1. (total - new) + i \in Held
      BY <1>1, <2>4 DEF Held
    <3> QED BY <2>6, <3>1 DEF RingInv
  <2>8. s \in Seq(Nat \X Nat)
    <3>1. \A i \in 1..new : s[i] \in Nat \X Nat
      <4> SUFFICES ASSUME NEW i \in 1..new PROVE s[i] \in Nat \X Nat
        OBVIOUS
      <4>1. (total - new) + i \in Nat
        BY <1>1, <2>4
      <4>2. \A x, y \in Nat : <<x, y>> \in Nat \X Nat
        OBVIOUS
      <4>3. s[i] = <<runID, (total - new) + i>>
        BY <2>7
      <4> QED BY <1>1, <4>1, <4>2, <4>3, Zenon
    <3>2. s = [i \in 1..new |-> s[i]]
      <4>1. CASE total <= Capacity
        <5>1. s \in Seq(Nat \X Nat)
          BY <1>1, <2>3, <2>4, <4>1
        <5> QED BY <2>6, <5>1
      <4>2. CASE ~(total <= Capacity)
        BY <2>3, <4>2
      <4> QED BY <4>1, <4>2
    <3> QED BY <2>4, <3>1, <3>2
  <2>9. Len(s) = new
    BY <2>6
  <2>10. s \in Seq(Nat \X Nat) /\ Len(s) <= Capacity
    BY <2>4, <2>8, <2>9
  <2>11. ASSUME NEW i \in 1..Len(s) PROVE s[i] = <<runID, (total - Len(s)) + i>>
    <3>1. i \in 1..new
      BY <2>9
    <3> QED BY <2>7, <2>9, <3>1
  <2>12. \/ total - Len(s) = offset
         \/ total - Len(s) > offset /\ Len(s) = Capacity
    BY <2>5, <2>9
  <2> QED BY <2>10, <2>11, <2>12, Zenon
<1>4. offset >= total \/ offset < total
  BY <1>1
<1> QED BY <1>2, <1>3, <1>4, Zenon

\* A line that is written takes the place of the oldest one, or a place of its own.
LEMMA RingAppends == LogAssumption /\ RingInv /\ AppendLine => RingInv'
<1> SUFFICES ASSUME LogAssumption, RingInv, AppendLine PROVE RingInv'
  OBVIOUS
<1> DEFINE line == <<runID, total + 1>>
<1>1. /\ Capacity \in Nat /\ 0 < Capacity /\ total \in Nat /\ runID \in Nat /\ ring \in Seq(Nat \X Nat)
      /\ Len(ring) = (IF total < Capacity THEN total ELSE Capacity)
      /\ \A l \in Held : ring[Place(l)] = <<runID, l>>
  BY DEF LogAssumption, RingInv
<1>2. /\ ring' = IF Len(ring) < Capacity THEN Append(ring, line) ELSE [ring EXCEPT ![Place(total + 1)] = line]
      /\ total' = total + 1 /\ runID' = runID
  <2>1. (total + 1) - 1 = total
    BY <1>1
  <2> QED BY <2>1 DEF AppendLine, Place
<1>3. line \in Nat \X Nat
  BY <1>1
<1> HIDE DEF line
<1>4. CASE total < Capacity
  <2>1. Len(ring) = total /\ ring' = Append(ring, line)
    BY <1>1, <1>2, <1>4
  <2>2. ring' \in Seq(Nat \X Nat) /\ Len(ring') = total + 1 /\ ring'[total + 1] = line
    BY <1>1, <1>3, <2>1
  <2>3. \A i \in 1..total : ring'[i] = ring[i]
    BY <1>1, <2>1
  <2>4. Len(ring') = (IF total' < Capacity THEN total' ELSE Capacity)
    BY <1>1, <1>2, <1>4, <2>2
  <2>5. ASSUME NEW l \in Held' PROVE ring'[Place(l)] = <<runID', l>>
    <3>1. l \in 1..total + 1 /\ l \in 1..Capacity
      BY <1>1, <1>2, <1>4, <2>2 DEF Held
    <3>2. Place(l) = l
      BY <3>1, PlaceAlone
    <3>3. CASE l = total + 1
      BY <1>2, <2>2, <3>2, <3>3 DEF line
    <3>4. CASE l # total + 1
      <4>1. l \in 1..total /\ l \in Held
        BY <1>1, <2>1, <3>1, <3>4 DEF Held
      <4>2. ring[l] = <<runID, l>>
        BY <1>1, <3>2, <4>1
      <4> QED BY <1>2, <2>3, <3>2, <4>1, <4>2
    <3> QED BY <3>3, <3>4
  <2>6. total' \in Nat /\ runID' \in Nat
    BY <1>1, <1>2
  <2>7. \A l \in Held' : ring'[Place(l)] = <<runID', l>>
    BY <2>5
  <2> QED BY <2>2, <2>4, <2>6, <2>7, Zenon DEF RingInv
<1>5. CASE ~(total < Capacity)
  <2>1. Len(ring) = Capacity /\ ring' = [ring EXCEPT ![Place(total + 1)] = line]
    BY <1>1, <1>2, <1>5
  <2>2. ring' \in Seq(Nat \X Nat) /\ Len(ring') = Capacity /\ DOMAIN ring = 1..Capacity
    <3>1. ring \in [1..Capacity -> Nat \X Nat]
      BY <1>1, <2>1
    <3>2. ring' \in [1..Capacity -> Nat \X Nat]
      BY <1>3, <2>1, <3>1, Zenon
    <3> QED BY <1>1, <3>1, <3>2
  <2>3. Len(ring') = (IF total' < Capacity THEN total' ELSE Capacity)
    BY <1>1, <1>2, <1>5, <2>2
  <2>4. ASSUME NEW l \in Held' PROVE ring'[Place(l)] = <<runID', l>>
    <3>1. l \in Nat \ {0} /\ l <= total + 1 /\ total + 1 < l + Capacity /\ total + 1 \in Nat \ {0}
      BY <1>1, <1>2, <1>5, <2>2 DEF Held
    <3>2. CASE l = total + 1
      <4>1. 0 < Capacity /\ total + 1 < (total + 1) + Capacity /\ total + 2 \in Nat \ {0}
        BY <1>1
      <4>2. Place(total + 1) \in 1..Capacity
        <5>1. total % Capacity \in 0..Capacity - 1 /\ (total + 1) - 1 = total
          BY <1>1
        <5> QED BY <1>1, <5>1 DEF Place
      <4> QED BY <1>2, <2>1, <2>2, <3>2, <4>2 DEF line
    <3>3. CASE l # total + 1
      <4>1. l < total + 1 /\ l \in Held
        BY <1>1, <2>1, <3>1, <3>3 DEF Held
      <4>2. Place(l) \in 1..Capacity /\ Place(l) # Place(total + 1)
        BY <3>1, <4>1, PlacesApart
      <4>3. ring'[Place(l)] = ring[Place(l)]
        BY <2>1, <2>2, <4>2
      <4> QED BY <1>1, <1>2, <4>1, <4>3
    <3> QED BY <3>2, <3>3
  <2>5. total' \in Nat /\ runID' \in Nat
    BY <1>1, <1>2
  <2>6. \A l \in Held' : ring'[Place(l)] = <<runID', l>>
    BY <2>4
  <2> QED BY <2>2, <2>3, <2>5, <2>6, Zenon DEF RingInv
<1> QED BY <1>4, <1>5

LEMMA RingInvStep == LogAssumption /\ RingInv /\ [LogNext]_logVars => RingInv'
<1> SUFFICES ASSUME LogAssumption, RingInv, [LogNext]_logVars PROVE RingInv'
  OBVIOUS
<1>1. CASE AppendLine
  BY <1>1, RingAppends
<1>2. CASE ResetRing
  <2>1. ring' = <<>> /\ total' = 0 /\ runID' = runID + 1 /\ runID \in Nat
    BY <1>2 DEF ResetRing, RingInv
  <2>2. <<>> \in Seq(Nat \X Nat) /\ Len(<<>>) = 0 /\ (0 - 0) + 1..0 = {} /\ 0 \in Nat
    OBVIOUS
  <2>3. Held' = {}
    BY <2>1, <2>2 DEF Held
  <2> QED BY <2>1, <2>2, <2>3 DEF RingInv, LogAssumption
<1>3. CASE UNCHANGED <<ring, total, runID>>
  BY <1>3 DEF RingInv, Held
<1> QED BY <1>1, <1>2, <1>3 DEF LogNext, Reset, Clear, AskLogs, SeeRun, SeeLines, TakeAnswer, logVars

\* Lines of run that end with number last, in order, with a gap only where Capacity lines follow it.
InOrderTo(lines, run, last) ==
    /\ lines \in Seq(Nat \X Nat) /\ \A i \in 1..Len(lines) : lines[i][1] = run
    /\ lines # <<>> /\ lines[Len(lines)][2] = last
    /\ \A i \in 1..Len(lines) - 1 :
          /\ lines[i][1] = lines[i + 1][1] /\ lines[i][2] < lines[i + 1][2]
          /\ lines[i + 1][2] > lines[i][2] + 1 => Len(lines) - i >= Capacity
\* Lines up to number last that go on where the page's stop, or after a gap if they fill the ring.
GoesOn(new, last) ==
    /\ new \in Seq(Nat \X Nat) /\ last \in Nat /\ new # <<>> /\ Len(new) <= last
    /\ \A i \in 1..Len(new) : new[i] = <<page.run, (last - Len(new)) + i>>
    /\ last - Len(new) = page.offset \/ (last - Len(new) > page.offset /\ Len(new) = Capacity)

\* The places of two sequences one after the other.
LEMMA Joined ==
  ASSUME NEW S, NEW s \in Seq(S), NEW t \in Seq(S)
  PROVE  /\ s \o t \in Seq(S) /\ Len(s \o t) = Len(s) + Len(t)
         /\ \A i \in 1..Len(s) : (s \o t)[i] = s[i]
         /\ \A i \in Len(s) + 1..Len(s) + Len(t) : (s \o t)[i] = t[i - Len(s)]
OBVIOUS

\* Lines that go on where the page's stop, with a gap between the two at most: all that is said of the
\* page holds of them together.
LEMMA JoinedInOrder ==
  ASSUME LogAssumption, PageInv, ShownInOrder, NEW new, NEW last, GoesOn(new, last)
  PROVE  InOrderTo(page.lines \o new, page.run, last)
<1> DEFINE both == page.lines \o new
<1>0. /\ both = page.lines \o new
      /\ new \in Seq(Nat \X Nat) /\ last \in Nat /\ new # <<>> /\ Len(new) <= last
      /\ \A i \in 1..Len(new) : new[i] = <<page.run, (last - Len(new)) + i>>
      /\ last - Len(new) = page.offset \/ (last - Len(new) > page.offset /\ Len(new) = Capacity)
  BY DEF GoesOn
<1> SUFFICES InOrderTo(both, page.run, last)
  OBVIOUS
<1> HIDE DEF both
<1> DEFINE old == page.lines  n == Len(old)  k == Len(new)
<1>1. /\ old \in Seq(Nat \X Nat) /\ n \in Nat /\ k \in Nat /\ k > 0 /\ page.offset \in Nat
      /\ Capacity \in Nat /\ last \in Nat
  <2>1. page.lines \in Seq(Nat \X Nat) /\ page.offset \in Nat /\ Capacity \in Nat
    BY DEF PageInv, LogAssumption
  <2>2. new \in Seq(Nat \X Nat) /\ new # <<>>
    BY <1>0
  <2>3. Len(new) \in Nat /\ Len(new) > 0
    BY <2>2
  <2> QED BY <1>0, <2>1, <2>3
<1>2. /\ both \in Seq(Nat \X Nat) /\ Len(both) = n + k
      /\ \A i \in 1..n : both[i] = old[i]
      /\ \A i \in n + 1..n + k : both[i] = new[i - n]
  <2>1. old \in Seq(Nat \X Nat) /\ new \in Seq(Nat \X Nat) /\ both = old \o new
    BY <1>0, <1>1
  <2>2. /\ old \o new \in Seq(Nat \X Nat) /\ Len(old \o new) = Len(old) + Len(new)
        /\ \A i \in 1..Len(old) : (old \o new)[i] = old[i]
        /\ \A i \in Len(old) + 1..Len(old) + Len(new) : (old \o new)[i] = new[i - Len(old)]
    <3> HIDE DEF old
    <3> QED BY <2>1, Joined
  <2> QED BY <2>1, <2>2, Zenon
<1>3. \A i \in 1..n : old[i][1] = page.run /\ old[i][2] \in Nat
  <2>1. \A i \in 1..n : old[i] \in Nat \X Nat
    BY <1>1
  <2>2. \A i \in 1..n : old[i][1] = page.run
    BY DEF PageInv
  <2>3. \A x \in Nat \X Nat : x[2] \in Nat
    OBVIOUS
  <2> QED BY <2>1, <2>2, <2>3, Zenon
<1>4. n > 0 => old[n][2] = page.offset
  <2>1. n > 0 => old # <<>>
    OBVIOUS
  <2> QED BY <2>1 DEF PageInv
<1>5. \A i \in 1..n - 1 :
         /\ old[i][1] = old[i + 1][1] /\ old[i][2] < old[i + 1][2]
         /\ old[i + 1][2] > old[i][2] + 1 => n - i >= Capacity
  BY DEF ShownInOrder
<1>6. \A i \in n + 1..n + k : both[i][1] = page.run /\ both[i][2] = (last - k) + (i - n)
  <2> SUFFICES ASSUME NEW i \in n + 1..n + k PROVE both[i][1] = page.run /\ both[i][2] = (last - k) + (i - n)
    OBVIOUS
  <2>1. i - n \in 1..k
    BY <1>1
  <2>2. both[i] = <<page.run, (last - k) + (i - n)>>
    BY <1>0, <1>1, <1>2, <2>1
  <2> QED BY <2>2
<1> HIDE DEF old, n, k
<1>7. \A i \in 1..Len(both) : both[i][1] = page.run
  <2> SUFFICES ASSUME NEW i \in 1..Len(both) PROVE both[i][1] = page.run
    OBVIOUS
  <2>1. i \in 1..n \/ i \in n + 1..n + k
    BY <1>1, <1>2
  <2> QED BY <1>2, <1>3, <1>6, <2>1
<1>8. both # <<>> /\ both[Len(both)][2] = last
  <2>1. n + k \in n + 1..n + k /\ (last - k) + ((n + k) - n) = last
    BY <1>1
  <2>2. both[n + k][2] = last
    BY <1>6, <2>1
  <2>3. Len(both) > 0
    BY <1>1, <1>2
  <2>4. both # <<>>
    BY <2>3
  <2> QED BY <1>2, <2>2, <2>4
<1>9. ASSUME NEW i \in 1..Len(both) - 1
      PROVE  /\ both[i][2] < both[i + 1][2]
             /\ both[i + 1][2] > both[i][2] + 1 => Len(both) - i >= Capacity
  <2>1. CASE i < n
    <3>1. i \in 1..n - 1 /\ i \in 1..n /\ i + 1 \in 1..n
      <4>1. i \in Int /\ i >= 1 /\ n \in Nat
        BY <1>1, <1>2
      <4> QED BY <2>1, <4>1
    <3>2. both[i] = old[i] /\ both[i + 1] = old[i + 1]
      BY <1>2, <3>1
    <3>3. n - i >= Capacity => Len(both) - i >= Capacity
      BY <1>1, <1>2, <3>1
    <3> QED BY <1>5, <3>1, <3>2, <3>3
  <2>2. CASE i = n
    <3>1. n > 0 /\ i \in 1..n /\ i + 1 \in n + 1..n + k /\ (i + 1) - n = 1
      BY <1>1, <1>2, <2>2
    <3>2. both[i][2] = page.offset /\ both[i + 1][2] = (last - k) + 1
      BY <1>2, <1>4, <1>6, <2>2, <3>1
    <3>3. last - k = page.offset \/ (last - k > page.offset /\ k = Capacity)
      BY <1>0 DEF k
    <3>4. Len(both) - i = k
      BY <1>1, <1>2, <2>2
    <3>5. last - k \in Int /\ page.offset \in Int /\ k \in Int /\ Capacity \in Int
      BY <1>1
    <3>6. page.offset < (last - k) + 1 /\ ((last - k) + 1 > page.offset + 1 => k >= Capacity)
      BY <3>3, <3>5
    <3> QED BY <3>2, <3>4, <3>6
  <2>3. CASE i > n
    <3>1. i \in n + 1..n + k /\ i + 1 \in n + 1..n + k /\ i \in Nat
      BY <1>1, <1>2, <2>3
    <3>2. both[i][2] = (last - k) + (i - n) /\ both[i + 1][2] = (last - k) + ((i + 1) - n)
      BY <1>6, <3>1
    <3>3. both[i + 1][2] = both[i][2] + 1 /\ both[i][2] \in Int
      BY <1>1, <3>1, <3>2
    <3>4. both[i][2] < both[i + 1][2] /\ ~(both[i + 1][2] > both[i][2] + 1)
      <4>1. \A x \in Int : \A y : y = x + 1 => x < y /\ ~(y > x + 1)
        OBVIOUS
      <4> QED BY <3>3, <4>1, Zenon
    <3> QED BY <3>4
  <2>4. i < n \/ i = n \/ i > n
    BY <1>1, <1>2
  <2> QED BY <2>1, <2>2, <2>3, <2>4
<1>10. ASSUME NEW i \in 1..Len(both) - 1 PROVE both[i][1] = both[i + 1][1]
  <2>1. i \in 1..Len(both) /\ i + 1 \in 1..Len(both)
    BY <1>1, <1>2
  <2> QED BY <1>7, <2>1
<1> QED BY <1>2, <1>7, <1>8, <1>9, <1>10 DEF InOrderTo

\* What a step leaves of the page and of a request.
LEMMA PageStep == LogAssumption /\ LogInv /\ [LogNext]_logVars => PageInv' /\ RequestInv' /\ ShownInOrder'
<1> SUFFICES ASSUME LogAssumption, LogInv, [LogNext]_logVars PROVE PageInv' /\ RequestInv' /\ ShownInOrder'
  OBVIOUS
<1>1. RingInv /\ PageInv /\ RequestInv /\ ShownInOrder
  BY DEF LogInv
<1>2. runID \in Nat /\ total \in Nat /\ Capacity \in Nat
  BY <1>1 DEF RingInv, LogAssumption
<1>e. <<>> \in Seq(Nat \X Nat) /\ Len(<<>>) = 0 /\ 1..0 = {}
  OBVIOUS
<1>3. CASE UNCHANGED <<page, asked>> /\ runID' \in Int /\ runID' >= runID
  <2>1. PageInv'
    BY <1>1, <1>2, <1>3 DEF PageInv
  <2>2. RequestInv'
    BY <1>1, <1>2, <1>3 DEF RequestInv, AnswerInv, AskInv, Answered
  <2> QED BY <1>1, <1>3, <2>1, <2>2 DEF ShownInOrder
<1>4. CASE Clear
  <2>1. /\ page' = [lines |-> <<>>, offset |-> 0, run |-> runID + 1, token |-> page.token + 1]
        /\ asked' = asked /\ runID' = runID + 1
    BY <1>4 DEF Clear, ResetRing
  <2>2. page.token \in Nat
    BY <1>1 DEF PageInv
  <2>3. PageInv'
    BY <1>2, <1>e, <2>1, <2>2 DEF PageInv
  <2>4. RequestInv'
    <3>1. asked.next # "none" => asked.token # page'.token /\ asked.token <= page'.token
      BY <1>1, <2>1, <2>2 DEF RequestInv, AnswerInv, AskInv
    <3>2. asked.got <= runID'
      BY <1>1, <1>2, <2>1 DEF RequestInv, AnswerInv, AskInv
    <3> QED BY <1>1, <2>1, <3>1, <3>2 DEF RequestInv, AnswerInv, AskInv, Answered
  <2> QED BY <1>e, <2>1, <2>3, <2>4 DEF ShownInOrder
<1>5. CASE AskLogs
  <2>1. /\ page' = page /\ runID' = runID
        /\ asked' = [NoRequest EXCEPT !.next = "run", !.offset = page.offset, !.run = page.run, !.token = page.token]
    BY <1>5 DEF AskLogs
  <2>2. /\ asked'.next = "run" /\ asked'.offset = page.offset /\ asked'.run = page.run /\ asked'.token = page.token
        /\ asked'.lines = <<>> /\ asked'.total = 0 /\ asked'.got = 0
    BY <2>1 DEF NoRequest
  <2>3. page.offset \in Nat /\ page.token \in Nat /\ page.run \in Int /\ 0 <= runID
    BY <1>1, <1>2 DEF PageInv
  <2>4. AnswerInv'
    <3>1. asked'.next \in {"none", "run", "lines", "answer"} /\ (asked'.next # "answer" => asked'.lines = <<>>)
      BY <2>2
    <3>2. asked'.lines \in Seq(Nat \X Nat)
      BY <1>e, <2>2, Zenon
    <3>3. asked'.total \in Nat /\ asked'.got \in Int /\ asked'.got <= runID' /\ asked'.offset \in Nat
      BY <2>1, <2>2, <2>3
    <3>4. Len(asked'.lines) <= Capacity
      BY <1>2, <1>e, <2>2
    <3>5. /\ \A i \in 1..Len(asked'.lines) : asked'.lines[i][1] = asked'.got
          /\ Answered(asked'.lines, asked'.total)
      BY <1>e, <2>2 DEF Answered
    <3> QED BY <3>1, <3>2, <3>3, <3>4, <3>5, Zenon DEF AnswerInv
  <2>5. AskInv'
    BY <2>1, <2>2, <2>3 DEF AskInv
  <2> QED BY <1>1, <2>1, <2>4, <2>5 DEF PageInv, ShownInOrder, RequestInv
<1>6. CASE SeeRun
  <2>1. /\ page' = page /\ runID' = runID /\ asked.next = "run"
        /\ asked' = IF runID = 0 THEN [asked EXCEPT !.next = "answer"]
                    ELSE [asked EXCEPT !.next = "lines", !.offset = IF asked.run # runID THEN 0 ELSE asked.offset]
    BY <1>6 DEF SeeRun
  <2>2. asked.lines = <<>>
    BY <1>1, <2>1 DEF RequestInv, AnswerInv
  <2>3. /\ asked'.next \in {"answer", "lines"} /\ asked'.run = asked.run /\ asked'.lines = <<>>
        /\ asked'.token = asked.token /\ asked'.total = asked.total /\ asked'.got = asked.got
        /\ asked'.offset = IF runID # 0 /\ asked.run # runID THEN 0 ELSE asked.offset
    BY <2>1, <2>2
  <2>4. AnswerInv'
    <3>1. /\ asked.total \in Nat /\ asked.got \in Int /\ asked.got <= runID /\ asked.offset \in Nat
      BY <1>1 DEF RequestInv, AnswerInv
    <3>2. asked'.total \in Nat /\ asked'.got \in Int /\ asked'.got <= runID' /\ asked'.offset \in Nat
      BY <2>1, <2>3, <3>1
    <3>3. asked'.next \in {"none", "run", "lines", "answer"} /\ (asked'.next # "answer" => asked'.lines = <<>>)
      BY <2>3
    <3>4. Len(asked'.lines) <= Capacity
      BY <1>2, <1>e, <2>3
    <3>5. /\ asked'.lines \in Seq(Nat \X Nat)
          /\ \A i \in 1..Len(asked'.lines) : asked'.lines[i][1] = asked'.got
          /\ Answered(asked'.lines, asked'.total)
      BY <1>e, <2>3 DEF Answered
    <3> QED BY <3>2, <3>3, <3>4, <3>5, Zenon DEF AnswerInv
  <2>5. AskInv'
    <3>1. /\ asked.token \in Nat /\ asked.token <= page.token /\ asked.run \in Int
          /\ asked.token = page.token => asked.run = page.run /\ asked.offset = page.offset
      BY <1>1, <2>1 DEF RequestInv, AskInv
    <3>2. page.run <= runID
      BY <1>1 DEF PageInv
    <3>3. asked.token = page.token /\ asked'.next = "lines" => asked'.offset = page.offset \/ asked.run < runID
      BY <1>2, <2>3, <3>1, <3>2
    <3>4. asked'.next # "none" /\ asked'.next # "run"
      BY <2>3
    <3> QED BY <2>1, <2>3, <3>1, <3>3, <3>4 DEF AskInv
  <2> QED BY <1>1, <2>1, <2>4, <2>5 DEF PageInv, ShownInOrder, RequestInv
<1>7. CASE SeeLines
  <2>1. /\ page' = page /\ runID' = runID /\ asked.next = "lines"
        /\ asked' = [asked EXCEPT !.next = "answer", !.lines = LinesSince(asked.offset), !.total = total, !.got = runID]
    BY <1>7 DEF SeeLines
  <2> DEFINE s == LinesSince(asked.offset)
  <2>2. /\ s \in Seq(Nat \X Nat) /\ Len(s) <= Capacity
        /\ \A i \in 1..Len(s) : s[i] = <<runID, (total - Len(s)) + i>>
        /\ s # <<>> => \/ total - Len(s) = asked.offset
                       \/ total - Len(s) > asked.offset /\ Len(s) = Capacity
    BY <1>1, LinesSinceTold DEF RequestInv, AnswerInv
  <2> HIDE DEF s
  <2>3. /\ asked'.next = "answer" /\ asked'.lines = s /\ asked'.total = total /\ asked'.got = runID
        /\ asked'.offset = asked.offset /\ asked'.run = asked.run /\ asked'.token = asked.token
    BY <2>1 DEF s
  <2>4. \A i \in 1..Len(s) : s[i][1] = runID /\ s[i][2] = (total - Len(s)) + i
    BY <2>2
  <2>5. asked.token = page.token =>
          /\ asked.run = page.run
          /\ runID = asked.run /\ s # <<>> =>
               total - Len(s) = page.offset \/ (total - Len(s) > page.offset /\ Len(s) = Capacity)
    BY <1>1, <1>2, <2>1, <2>2 DEF RequestInv, AskInv, PageInv
  <2>6. AnswerInv'
    <3>1. /\ asked'.next \in {"none", "run", "lines", "answer"} /\ (asked'.next # "answer" => asked'.lines = <<>>)
          /\ asked'.lines \in Seq(Nat \X Nat) /\ Len(asked'.lines) <= Capacity
      BY <2>2, <2>3
    <3>2. asked.offset \in Nat
      BY <1>1 DEF RequestInv, AnswerInv
    <3>3. asked'.total \in Nat /\ asked'.got \in Int /\ asked'.got <= runID' /\ asked'.offset \in Nat
      BY <1>2, <2>1, <2>3, <3>2
    <3>4. /\ \A i \in 1..Len(asked'.lines) : asked'.lines[i][1] = asked'.got
          /\ Answered(asked'.lines, asked'.total)
      BY <2>3, <2>4 DEF Answered
    <3> QED BY <3>1, <3>3, <3>4, Zenon DEF AnswerInv
  <2>7. AskInv'
    <3>1. asked.token \in Nat /\ asked.token <= page.token /\ asked.run \in Int
      BY <1>1, <2>1 DEF RequestInv, AskInv
    <3> QED BY <2>1, <2>3, <2>5, <3>1 DEF AskInv
  <2> QED BY <1>1, <2>1, <2>6, <2>7 DEF PageInv, ShownInOrder, RequestInv
<1>8. CASE TakeAnswer
  <2>1. /\ asked.next = "answer" /\ asked' = NoRequest /\ runID' = runID
        /\ page' = IF asked.token # page.token THEN page
                   ELSE IF asked.got # asked.run
                        THEN [page EXCEPT !.run = asked.got, !.lines = asked.lines, !.offset = asked.total]
                   ELSE IF asked.lines # <<>>
                        THEN [page EXCEPT !.lines = page.lines \o asked.lines, !.offset = asked.total]
                   ELSE page
    BY <1>8 DEF TakeAnswer
  <2>2. RequestInv'
    BY <1>2, <1>e, <2>1 DEF RequestInv, AnswerInv, AskInv, NoRequest, Answered
  <2>3. CASE page' = page
    <3>1. PageInv'
      BY <1>1, <2>1, <2>3 DEF PageInv
    <3>2. ShownInOrder'
      BY <1>1, <2>3 DEF ShownInOrder
    <3> QED BY <2>2, <3>1, <3>2
  <2>a. /\ asked.lines \in Seq(Nat \X Nat) /\ asked.total \in Nat /\ asked.got \in Int /\ asked.got <= runID
        /\ \A i \in 1..Len(asked.lines) :
              asked.lines[i][1] = asked.got /\ asked.lines[i][2] = (asked.total - Len(asked.lines)) + i
    BY <1>1 DEF RequestInv, AnswerInv, Answered
  <2>4. CASE asked.token = page.token /\ asked.got # asked.run
    <3>1. page' = [page EXCEPT !.run = asked.got, !.lines = asked.lines, !.offset = asked.total]
      BY <2>1, <2>4
    <3>2. /\ page'.lines = asked.lines /\ page'.run = asked.got /\ page'.offset = asked.total
          /\ page'.token = page.token
      BY <3>1
    <3> DEFINE new == asked.lines
    <3>3. /\ new \in Seq(Nat \X Nat) /\ Len(new) \in Nat
          /\ \A i \in 1..Len(new) : new[i][1] = asked.got /\ new[i][2] = (asked.total - Len(new)) + i
      BY <2>a
    <3>4. page'.lines = new
      BY <3>2
    <3> HIDE DEF new
    <3>5. new # <<>> => new[Len(new)][2] = asked.total
      <4>1. new # <<>> => Len(new) \in 1..Len(new)
        BY <3>3
      <4>2. (asked.total - Len(new)) + Len(new) = asked.total
        BY <2>a, <3>3
      <4> QED BY <3>3, <4>1, <4>2
    <3>6. PageInv'
      <4>1. page.token \in Nat
        BY <1>1 DEF PageInv
      <4>2. /\ page'.lines \in Seq(Nat \X Nat) /\ page'.offset \in Nat /\ page'.token \in Nat
            /\ page'.run \in Int /\ page'.run <= runID'
        BY <2>1, <2>a, <3>2, <3>3, <3>4, <4>1
      <4>3. /\ \A i \in 1..Len(page'.lines) : page'.lines[i][1] = page'.run
            /\ page'.lines # <<>> => page'.lines[Len(page'.lines)][2] = page'.offset
        BY <3>2, <3>3, <3>4, <3>5
      <4> QED BY <4>2, <4>3, Zenon DEF PageInv
    <3>7. ASSUME NEW i \in 1..Len(new) - 1
          PROVE  new[i][1] = new[i + 1][1] /\ new[i][2] < new[i + 1][2] /\ ~(new[i + 1][2] > new[i][2] + 1)
      <4>1. i \in 1..Len(new) /\ i + 1 \in 1..Len(new)
        BY <3>3
      <4>2. /\ new[i][2] = (asked.total - Len(new)) + i /\ new[i + 1][2] = (asked.total - Len(new)) + (i + 1)
            /\ new[i][1] = new[i + 1][1]
        <5> DEFINE j == i + 1
        <5>1. i \in 1..Len(new) /\ j \in 1..Len(new)
          BY <4>1
        <5> HIDE DEF j
        <5>2. new[i][1] = asked.got /\ new[i][2] = (asked.total - Len(new)) + i
          BY <3>3, <5>1, Zenon
        <5>3. new[j][1] = asked.got /\ new[j][2] = (asked.total - Len(new)) + j
          BY <3>3, <5>1, Zenon
        <5> QED BY <5>2, <5>3 DEF j
      <4>3. (asked.total - Len(new)) \in Int /\ i \in Int
        BY <2>a, <3>3
      <4> DEFINE d == asked.total - Len(new)  x == new[i][2]  y == new[i + 1][2]
      <4>4. x = d + i /\ y = d + (i + 1) /\ d \in Int
        BY <4>2, <4>3
      <4> HIDE DEF d, x, y
      <4>5. x < y /\ ~(y > x + 1)
        BY <4>4
      <4> QED BY <4>2, <4>5 DEF x, y
    <3>8. ShownInOrder'
      BY <3>4, <3>7 DEF ShownInOrder
    <3> QED BY <2>2, <3>6, <3>8
  <2>5. CASE asked.token = page.token /\ asked.got = asked.run /\ asked.lines # <<>>
    <3>1. page' = [page EXCEPT !.lines = page.lines \o asked.lines, !.offset = asked.total]
      BY <2>1, <2>5
    <3> DEFINE joined == page.lines \o asked.lines
    <3>0. page' = [page EXCEPT !.lines = joined, !.offset = asked.total]
      BY <3>1
    <3> HIDE DEF joined
    <3>a. page'.lines = joined /\ page'.run = page.run /\ page'.offset = asked.total /\ page'.token = page.token
      BY <3>0
    <3>2. /\ page'.lines = page.lines \o asked.lines /\ page'.run = page.run /\ page'.offset = asked.total
          /\ page'.token = page.token
      BY <3>a DEF joined
    <3>3. /\ asked.got = page.run
          /\ \/ asked.total - Len(asked.lines) = page.offset
             \/ asked.total - Len(asked.lines) > page.offset /\ Len(asked.lines) = Capacity
      BY <1>1, <2>1, <2>5 DEF RequestInv, AskInv
    <3>4. page.offset \in Nat /\ Len(asked.lines) \in Nat
      BY <1>1, <2>a DEF PageInv
    <3>5. Len(asked.lines) <= asked.total
      BY <2>a, <3>3, <3>4
    <3>6. \A i \in 1..Len(asked.lines) : asked.lines[i] = <<page.run, (asked.total - Len(asked.lines)) + i>>
      <4> SUFFICES ASSUME NEW i \in 1..Len(asked.lines)
                   PROVE  asked.lines[i] = <<page.run, (asked.total - Len(asked.lines)) + i>>
        OBVIOUS
      <4>1. asked.lines[i] \in Nat \X Nat
        BY <2>a
      <4>2. asked.lines[i] = <<asked.lines[i][1], asked.lines[i][2]>>
        BY <4>1
      <4> QED BY <2>a, <3>3, <4>2
    <3>7. GoesOn(asked.lines, asked.total)
      BY <2>a, <2>5, <3>3, <3>5, <3>6 DEF GoesOn
    <3>8. InOrderTo(page'.lines, page'.run, page'.offset)
      <4>1. LogAssumption /\ PageInv /\ ShownInOrder
        BY <1>1
      <4>2. InOrderTo(page.lines \o asked.lines, page.run, asked.total)
        BY <3>7, <4>1, JoinedInOrder, Zenon
      <4> QED BY <3>2, <4>2, Zenon
    <3>9. PageInv'
      <4>1. page.token \in Nat /\ page.run \in Int /\ page.run <= runID'
        BY <1>1, <2>1 DEF PageInv
      <4> QED BY <2>a, <3>2, <3>8, <4>1 DEF PageInv, InOrderTo
    <3>10. ShownInOrder'
      BY <3>8 DEF ShownInOrder, InOrderTo
    <3> QED BY <2>2, <3>9, <3>10
  <2> QED BY <2>1, <2>3, <2>4, <2>5
<1>9. CASE AppendLine \/ Reset \/ UNCHANGED logVars
  BY <1>2, <1>3, <1>9 DEF AppendLine, Reset, ResetRing, logVars
<1> QED BY <1>4, <1>5, <1>6, <1>7, <1>8, <1>9 DEF LogNext

\* What the log page shows is of one run and in order, and a gap is there only if the ring lost what the
\* page had not asked for in time (LogBuffer, gatewayLogsData, use-gateway-logs.ts), however resets,
\* clears and requests cross.
THEOREM LogPageInOrder == ASSUME LogAssumption PROVE LogSpec => []ShownInOrder
<1>1. LogInv => ShownInOrder
  BY DEF LogInv
<1>2. LogAssumption /\ LogInv /\ [LogNext]_logVars => LogInv'
  <2>1. LogInv => RingInv
    BY DEF LogInv
  <2> QED BY <2>1, RingInvStep, PageStep DEF LogInv
<1>3. LogAssumption
  OBVIOUS
<1> QED BY <1>1, <1>2, <1>3, LogInvInit, PTL DEF LogSpec
-----------------------------------------------------------------------------
(* The sessions of the messages (Routing).                                 *)

\* The agent that takes over is one there is.
LEMMA DefaultIsConfigured ==
  ASSUME ClearConfig(routes)
  PROVE  DefaultAgentID \in Configured
<1> DEFINE marked == {i \in DOMAIN routes.agents : routes.agents[i].isDefault}
           first == IF marked # {} THEN Min(marked) ELSE 1
<1>1. CASE routes.agents = <<>>
  BY <1>1 DEF DefaultAgentID, Configured
<1>2. CASE routes.agents # <<>>
  <2>1. Len(routes.agents) \in Nat /\ DOMAIN routes.agents = 1..Len(routes.agents) /\ 1 \in DOMAIN routes.agents
    BY <1>2 DEF ClearConfig
  <2>2. marked # {} => Min(marked) \in marked
    <3>1. SUFFICES ASSUME marked # {} PROVE Min(marked) \in marked
      OBVIOUS
    <3>2. marked \subseteq Nat
      BY <2>1
    <3> HIDE DEF marked
    <3>3. \E m \in marked : \A n \in marked : m <= n
      BY <3>1, <3>2, LeastExists
    <3> QED BY <3>3 DEF Min
  <2>3. first \in DOMAIN routes.agents
    BY <2>1, <2>2
  <2>4. DefaultAgentID = routes.agents[first].id
    BY <1>2 DEF DefaultAgentID
  <2> HIDE DEF first
  <2> QED BY <1>2, <2>3, <2>4 DEF Configured
<1> QED BY <1>1, <1>2

\* Who the router chose is one there is, so that the agent loop keeps it.
LEMMA RouteIsConfigured ==
  ASSUME ClearConfig(routes), NEW m
  PROVE  RouteAgent(m) \in Configured /\ HandlerOf(RouteAgent(m)) = RouteAgent(m)
<1>1. \A agent : routes.agents # <<>> => PickAgentID(agent) \in Configured
  BY DefaultIsConfigured DEF PickAgentID
<1>2. CASE routes.agents # <<>>
  BY <1>1, <1>2, DefaultIsConfigured DEF RouteAgent, HandlerOf
<1>3. CASE routes.agents = <<>>
  <2>1. Filtered(m) = {}
    BY <1>3 DEF ClearConfig, Filtered
  <2>2. RouteAgent(m) = DefaultAgentID
    BY <2>1 DEF RouteAgent
  <2> QED BY <2>2, DefaultIsConfigured DEF HandlerOf
<1> QED BY <1>2, <1>3

\* The id a key is built of: that of the person, if it is one's.
KeyId(m) ==
    IF Peer(m)[1] = "direct" /\ Persons(m) # {} THEN <<"", CHOOSE p \in Persons(m) : TRUE>> ELSE Peer(m)[2]

\* Of all the people of identity_links, an id is found to be one's exactly if it is.
LEMMA LinkedPersons ==
  ASSUME ClearRouting, NEW m \in Inbound, Peer(m)[1] = "direct"
  PROVE  Linked(m, Peer(m)[2]) = {KeyId(m)}
<1> DEFINE id == Peer(m)[2]
           bare == IF id[1] = "" THEN {<<m.channel, id[2]>>} ELSE {<<"", id[2]>>}
           candidates == {Folded(c) : c \in {id} \cup bare}
           people == {p \in People : {Folded(i) : i \in IdentityLinks[p]} \cap candidates # {}}
<1>1. id # NoId /\ id = <<id[1], id[2]>> /\ id[1] \in {"", m.channel}
  BY DEF ClearRouting, ClearMessage
<1>2. id[2] \in NamesUsed
  BY DEF NamesUsed
<1>3. \A x : x \in candidates <=> x = <<"", LowerCase(id[2])>> \/ x = <<m.channel, LowerCase(id[2])>>
  <2> DEFINE n == id[2]
  <2>1. id = <<id[1], n>> /\ bare = IF id[1] = "" THEN {<<m.channel, n>>} ELSE {<<"", n>>}
    BY <1>1
  <2>2. candidates = {Folded(c) : c \in {id} \cup bare}
    OBVIOUS
  <2>3. id[1] = "" \/ id[1] = m.channel
    BY <1>1
  <2> HIDE DEF id, n, bare, candidates
  <2>4. {id} \cup bare = {<<"", n>>, <<m.channel, n>>}
    BY <2>1, <2>3
  <2>5. \A c : Folded(<<c, n>>) = <<c, LowerCase(n)>>
    BY DEF Folded
  <2>6. candidates = {Folded(<<"", n>>), Folded(<<m.channel, n>>)}
    BY <2>2, <2>4
  <2>7. candidates = {<<"", LowerCase(n)>>, <<m.channel, LowerCase(n)>>}
    BY <2>5, <2>6, Zenon
  <2> QED BY <2>7 DEF n
<1>4. \A p \in People : \A i \in IdentityLinks[p] :
         Folded(i) \in candidates <=> i[2] = id[2] /\ (i[1] = "" \/ i[1] = m.channel)
  <2> SUFFICES ASSUME NEW p \in People, NEW i \in IdentityLinks[p]
               PROVE  Folded(i) \in candidates <=> i[2] = id[2] /\ (i[1] = "" \/ i[1] = m.channel)
    OBVIOUS
  <2>1. i[2] \in NamesUsed
    BY DEF NamesUsed, LinkedIds
  <2>2. LowerCase(i[2]) = LowerCase(id[2]) <=> i[2] = id[2]
    BY <1>2, <2>1 DEF ClearRouting
  <2> HIDE DEF id, candidates
  <2>3. Folded(i) = <<i[1], LowerCase(i[2])>>
    BY DEF Folded
  <2> DEFINE mine == LowerCase(i[2])
             its == LowerCase(id[2])
  <2>4. Folded(i) \in candidates <=> <<i[1], mine>> = <<"", its>> \/ <<i[1], mine>> = <<m.channel, its>>
    BY <1>3, <2>3, Zenon
  <2>5. mine = its <=> i[2] = id[2]
    BY <2>2
  <2> HIDE DEF mine, its
  <2> QED BY ONLY <2>4, <2>5
<1> HIDE DEF candidates
<1>5. people = Persons(m)
  BY <1>4 DEF Persons
<1>6. Linked(m, id) = IF people = {} \/ id = NoId THEN {id} ELSE {<<"", p>> : p \in people}
  BY DEF Linked, candidates
<1>7. \A p, q \in Persons(m) : p = q
  <2> TAKE p, q \in Persons(m)
  <2>1. p \in People /\ q \in People
    BY DEF Persons
  <2>2. PICK i \in IdentityLinks[p] : i[2] = id[2] /\ (i[1] = "" \/ i[1] = m.channel)
    BY DEF Persons
  <2>3. PICK j \in IdentityLinks[q] : j[2] = id[2] /\ (j[1] = "" \/ j[1] = m.channel)
    BY DEF Persons
  <2>4. i[2] = j[2] /\ (i[1] = j[1] \/ i[1] = "" \/ j[1] = "")
    BY <2>2, <2>3
  <2> QED BY <2>1, <2>2, <2>3, <2>4 DEF ClearRouting
<1> HIDE DEF people, id
<1>8. CASE Persons(m) = {}
  BY <1>5, <1>6, <1>8 DEF KeyId, id
<1>9. CASE Persons(m) # {}
  <2>1. PICK p : p \in Persons(m)
    BY <1>9
  <2>2. Persons(m) = {p} /\ (CHOOSE q \in Persons(m) : TRUE) = p
    BY <1>7, <2>1
  <2> QED BY <1>1, <1>5, <1>6, <1>9, <2>2 DEF KeyId, id
<1> QED BY <1>8, <1>9

LEMMA OneKeyId ==
  ASSUME ClearRouting, NEW m \in Inbound
  PROVE  KeyIds(m) = {KeyId(m)}
<1>1. CASE Peer(m)[1] = "direct"
  BY <1>1, LinkedPersons DEF KeyIds
<1>2. CASE Peer(m)[1] # "direct"
  BY <1>2 DEF KeyIds, KeyId
<1> QED BY <1>1, <1>2


\* Tuples are told apart by their parts and by their length.
LEMMA PairsEqual == \A a, b, c, d : <<a, b>> = <<c, d>> <=> a = c /\ b = d
  OBVIOUS
LEMMA PairParts == \A a, b : <<a, b>>[1] = a /\ <<a, b>>[2] = b
  OBVIOUS
LEMMA TriplesEqual == \A a, b, c, d, e, f : <<a, b, c>> = <<d, e, f>> <=> a = d /\ b = e /\ c = f
  OBVIOUS
LEMMA FoursEqual ==
  \A a, b, c, d, e, f, g, h : <<a, b, c, d>> = <<e, f, g, h>> <=> a = e /\ b = f /\ c = g /\ d = h
  OBVIOUS
LEMMA FivesEqual ==
  \A a, b, c, d, e, f, g, h, i, j :
     <<a, b, c, d, e>> = <<f, g, h, i, j>> <=> a = f /\ b = g /\ c = h /\ d = i /\ e = j
  OBVIOUS
LEMMA LengthsTellApart ==
  /\ \A a, b, f, g, h : <<a, b>> # <<f, g, h>>
  /\ \A a, b, f, g, h, i : <<a, b>> # <<f, g, h, i>>
  /\ \A a, b, f, g, h, i, j : <<a, b>> # <<f, g, h, i, j>>
  /\ \A a, b, f, g, h, i : <<f, g, h, i>> # <<a, b>>
  /\ \A a, b, c, f, g, h, i : <<f, g, h, i>> # <<a, b, c>>
  /\ \A a, b, c, d, f, g, h, i, j : <<a, b, c, d>> # <<f, g, h, i, j>>
<1>1. \A a, b, f, g, h : <<a, b>> # <<f, g, h>>
  OBVIOUS
<1>2. \A a, b, f, g, h, i : <<a, b>> # <<f, g, h, i>>
  OBVIOUS
<1>3. \A a, b, f, g, h, i, j : <<a, b>> # <<f, g, h, i, j>>
  OBVIOUS
<1>4. \A a, b, c, f, g, h, i : <<f, g, h, i>> # <<a, b, c>>
  OBVIOUS
<1>5. \A a, b, c, d, f, g, h, i, j : <<a, b, c, d>> # <<f, g, h, i, j>>
  OBVIOUS
<1>6. \A a, b, f, g, h, i : <<f, g, h, i>> # <<a, b>>
  OBVIOUS
<1> QED BY <1>1, <1>2, <1>3, <1>4, <1>5, <1>6

\* Two ids of keys that are the same but for case are the same.
LEMMA FoldedKeyIds ==
  ASSUME ClearRouting, NEW m \in Inbound, NEW n \in Inbound
  PROVE  Folded(KeyId(m)) = Folded(KeyId(n)) <=> KeyId(m) = KeyId(n)
<1>1. \A k \in Inbound : KeyId(k) = <<KeyId(k)[1], KeyId(k)[2]>> /\ KeyId(k)[2] \in NamesUsed
  <2> SUFFICES ASSUME NEW k \in Inbound PROVE KeyId(k) = <<KeyId(k)[1], KeyId(k)[2]>> /\ KeyId(k)[2] \in NamesUsed
    OBVIOUS
  <2>1. CASE Peer(k)[1] = "direct" /\ Persons(k) # {}
    <3>1. PICK p \in People : KeyId(k) = <<"", p>>
      BY <2>1 DEF KeyId, Persons
    <3>2. p \in NamesUsed
      BY DEF NamesUsed
    <3> QED BY <3>1, <3>2, PairParts, Zenon
  <2>2. CASE ~(Peer(k)[1] = "direct" /\ Persons(k) # {})
    <3>1. KeyId(k) = Peer(k)[2]
      BY <2>2 DEF KeyId
    <3>2. Peer(k)[2] = <<Peer(k)[2][1], Peer(k)[2][2]>>
      BY DEF ClearRouting, ClearMessage
    <3>3. Peer(k)[2][2] \in NamesUsed
      BY DEF NamesUsed
    <3> QED BY <3>1, <3>2, <3>3, Zenon
  <2> QED BY <2>1, <2>2
<1> DEFINE x == KeyId(m)
           y == KeyId(n)
<1>2. x = <<x[1], x[2]>> /\ y = <<y[1], y[2]>> /\ x[2] \in NamesUsed /\ y[2] \in NamesUsed
  BY <1>1
<1>3. LowerCase(x[2]) = LowerCase(y[2]) <=> x[2] = y[2]
  BY <1>2 DEF ClearRouting
<1>4. Folded(x) = <<x[1], LowerCase(x[2])>> /\ Folded(y) = <<y[1], LowerCase(y[2])>>
  BY DEF Folded
<1> HIDE DEF x, y
<1> DEFINE xl == LowerCase(x[2])
           yl == LowerCase(y[2])
<1>5. Folded(x) = <<x[1], xl>> /\ Folded(y) = <<y[1], yl>> /\ (xl = yl <=> x[2] = y[2])
  BY <1>3, <1>4
<1> HIDE DEF xl, yl
<1>6. Folded(x) = Folded(y) <=> x = y
  BY <1>2, <1>5
<1> QED BY <1>6 DEF x, y

\* The id of a key says who a direct chat is with.
LEMMA SamePerson ==
  ASSUME ClearRouting, NEW m \in Inbound, NEW n \in Inbound, Peer(m)[1] = "direct", Peer(n)[1] = "direct"
  PROVE  KeyId(m) = KeyId(n) <=> Person(m) = Person(n)
<1>1. \A k \in Inbound : \A p \in People : Peer(k)[2] # <<"", p>>
  BY DEF ClearRouting, ClearMessage
<1>2. \A k \in Inbound : Persons(k) # {} => (CHOOSE p \in Persons(k) : TRUE) \in People
  <2> SUFFICES ASSUME NEW k \in Inbound, Persons(k) # {} PROVE (CHOOSE p \in Persons(k) : TRUE) \in People
    OBVIOUS
  <2>1. (CHOOSE p \in Persons(k) : TRUE) \in Persons(k)
    OBVIOUS
  <2> QED BY <2>1 DEF Persons
<1> DEFINE x == CHOOSE p \in Persons(m) : TRUE
           y == CHOOSE p \in Persons(n) : TRUE
<1>3. /\ KeyId(m) = IF Persons(m) # {} THEN <<"", x>> ELSE Peer(m)[2]
      /\ KeyId(n) = IF Persons(n) # {} THEN <<"", y>> ELSE Peer(n)[2]
  BY DEF KeyId
<1>4. /\ Person(m) = IF Persons(m) # {} THEN <<"person", x>> ELSE <<"id", Peer(m)[2]>>
      /\ Person(n) = IF Persons(n) # {} THEN <<"person", y>> ELSE <<"id", Peer(n)[2]>>
  BY DEF Person
<1>5. (Persons(m) # {} => x \in People) /\ (Persons(n) # {} => y \in People)
  BY <1>2
<1> HIDE DEF x, y
<1>6. CASE Persons(m) # {} /\ Persons(n) # {}
  <2>1. KeyId(m) = <<"", x>> /\ KeyId(n) = <<"", y>> /\ Person(m) = <<"person", x>> /\ Person(n) = <<"person", y>>
    BY <1>3, <1>4, <1>6
  <2>2. (<<"", x>> = <<"", y>> <=> x = y) /\ (<<"person", x>> = <<"person", y>> <=> x = y)
    BY PairsEqual
  <2> QED BY <2>1, <2>2
<1>7. CASE Persons(m) = {} /\ Persons(n) = {}
  <2>1. KeyId(m) = Peer(m)[2] /\ KeyId(n) = Peer(n)[2] /\ Person(m) = <<"id", Peer(m)[2]>> /\ Person(n) = <<"id", Peer(n)[2]>>
    BY <1>3, <1>4, <1>7, Zenon
  <2>2. <<"id", Peer(m)[2]>> = <<"id", Peer(n)[2]>> <=> Peer(m)[2] = Peer(n)[2]
    BY PairsEqual
  <2> QED BY <2>1, <2>2
<1>8. CASE Persons(m) # {} /\ Persons(n) = {}
  <2>1. KeyId(m) = <<"", x>> /\ KeyId(n) = Peer(n)[2] /\ Person(m) = <<"person", x>> /\ Person(n) = <<"id", Peer(n)[2]>>
    BY <1>3, <1>4, <1>8, Zenon
  <2>2. KeyId(m) # KeyId(n)
    BY <1>1, <1>5, <1>8, <2>1
  <2>3. <<"person", x>> # <<"id", Peer(n)[2]>>
    BY PairsEqual
  <2> QED BY <2>1, <2>2, <2>3
<1>9. CASE Persons(m) = {} /\ Persons(n) # {}
  <2>1. KeyId(m) = Peer(m)[2] /\ KeyId(n) = <<"", y>> /\ Person(m) = <<"id", Peer(m)[2]>> /\ Person(n) = <<"person", y>>
    BY <1>3, <1>4, <1>9, Zenon
  <2>2. KeyId(m) # KeyId(n)
    BY <1>1, <1>5, <1>9, <2>1
  <2>3. <<"id", Peer(m)[2]>> # <<"person", y>>
    BY PairsEqual
  <2> QED BY <2>1, <2>2, <2>3
<1> QED BY <1>6, <1>7, <1>8, <1>9

\* A key says of which agent and of which conversation a message is, no more and no less.
LEMMA KeysTellApart ==
  ASSUME ClearRouting, ClearConfig(routes), NEW m \in Inbound, NEW n \in Inbound, NEW a, NEW b
  PROVE  BuildAgentPeerSessionKey(m, a, KeyId(m)) = BuildAgentPeerSessionKey(n, b, KeyId(n))
            <=> a = b /\ Conversation(m) = Conversation(n)
<1> DEFINE scope == routes.scope
           Grouped(k) == Peer(k)[1] \notin {"", "direct"}
           InMain(k) == ~Grouped(k) /\ (scope = "main" \/ Peer(k)[1] = "")
           Private(k) == ~Grouped(k) /\ ~InMain(k)
           Key(k, agent) == BuildAgentPeerSessionKey(k, agent, KeyId(k))
           PrivateKey(k, agent) ==
              CASE scope = "per-account-channel-peer" -> <<agent, k.channel, AccountID(k), "direct", Folded(KeyId(k))>>
                [] scope = "per-channel-peer" -> <<agent, k.channel, "direct", Folded(KeyId(k))>>
                [] scope = "per-peer" -> <<agent, "direct", Folded(KeyId(k))>>
           PrivateChat(k) ==
              <<"direct", IF scope = "per-peer" THEN "" ELSE k.channel,
                IF scope = "per-account-channel-peer" THEN AccountID(k) ELSE "", Person(k)>>
<1>1. scope \in {"main", "per-peer", "per-channel-peer", "per-account-channel-peer"}
  BY DEF ClearConfig
<1>2. \A k \in Inbound : Peer(k)[1] \in {"", "direct", "group", "channel"}
  BY DEF ClearRouting, ClearMessage
<1>3. \A k \in Inbound : (Peer(k)[1] = "" <=> Peer(k) = NoPeer) /\ (Peer(k)[1] = "" => KeyId(k) = NoId)
  BY DEF Peer, NoPeer, KeyId
<1>4. \A k \in Inbound : Peer(k)[1] = "direct" => KeyId(k) # NoId
  <2> SUFFICES ASSUME NEW k \in Inbound, Peer(k)[1] = "direct" PROVE KeyId(k) # NoId
    OBVIOUS
  <2>1. CASE Persons(k) # {}
    <3>1. PICK p : p \in People /\ KeyId(k) = <<"", p>>
      BY <2>1 DEF KeyId, Persons
    <3>2. p # ""
      BY <3>1 DEF People
    <3>3. <<"", p>> # <<"", "">>
      BY <3>2, PairsEqual
    <3> QED BY <3>1, <3>3 DEF NoId
  <2>2. CASE Persons(k) = {}
    <3>1. KeyId(k) = Peer(k)[2]
      BY <2>2 DEF KeyId
    <3>2. Peer(k)[2] # NoId
      BY DEF ClearRouting, ClearMessage
    <3> QED BY <3>1, <3>2
  <2> QED BY <2>1, <2>2
<1>5. \A k \in Inbound : \A agent :
         /\ Grouped(k) => /\ Key(k, agent) = <<agent, k.channel, Peer(k)[1], Folded(KeyId(k))>>
                          /\ Conversation(k) = <<Peer(k)[1], k.channel, "", KeyId(k)>>
         /\ InMain(k) => Key(k, agent) = <<agent, "main">> /\ Conversation(k) = <<"main", "", "", NoId>>
         /\ Private(k) => /\ Key(k, agent) = PrivateKey(k, agent) /\ Conversation(k) = PrivateChat(k)
                          /\ Peer(k)[1] = "direct"
  <2> SUFFICES ASSUME NEW k \in Inbound, NEW agent
               PROVE  /\ Grouped(k) => /\ Key(k, agent) = <<agent, k.channel, Peer(k)[1], Folded(KeyId(k))>>
                                       /\ Conversation(k) = <<Peer(k)[1], k.channel, "", KeyId(k)>>
                      /\ InMain(k) => Key(k, agent) = <<agent, "main">> /\ Conversation(k) = <<"main", "", "", NoId>>
                      /\ Private(k) => /\ Key(k, agent) = PrivateKey(k, agent)
                                       /\ Conversation(k) = PrivateChat(k)
                                       /\ Peer(k)[1] = "direct"
    OBVIOUS
  <2> HIDE DEF PrivateKey, PrivateChat
  <2>1. CASE Grouped(k)
    BY <2>1 DEF BuildAgentPeerSessionKey, Conversation, KeyId
  <2>2. CASE InMain(k)
    BY <1>3, <1>4, <1>2, <2>2 DEF BuildAgentPeerSessionKey, Conversation
  <2>3. CASE Private(k)
    <3>1. Peer(k)[1] = "direct" /\ scope # "main" /\ Peer(k) # NoPeer /\ KeyId(k) # NoId
      BY <1>2, <1>3, <1>4, <2>3
    <3>2. Key(k, agent) = PrivateKey(k, agent)
      BY <1>1, <3>1 DEF BuildAgentPeerSessionKey, PrivateKey
    <3>3. Conversation(k) = PrivateChat(k)
      BY <3>1 DEF Conversation, PrivateChat
    <3> QED BY <2>3, <3>1, <3>2, <3>3
  <2> QED BY <2>1, <2>2, <2>3
<1>6. Folded(KeyId(m)) = Folded(KeyId(n)) <=> KeyId(m) = KeyId(n)
  BY FoldedKeyIds
<1>7. Peer(m)[1] = "direct" /\ Peer(n)[1] = "direct" => (KeyId(m) = KeyId(n) <=> Person(m) = Person(n))
  BY SamePerson
<1>8. (Grouped(m) \/ InMain(m) \/ Private(m)) /\ (Grouped(n) \/ InMain(n) \/ Private(n))
  OBVIOUS
<1>9. /\ Grouped(m) => Peer(m)[1] # "direct" /\ Peer(m)[1] # "main"
      /\ Grouped(n) => Peer(n)[1] # "direct" /\ Peer(n)[1] # "main"
  BY <1>2
<1>10. /\ Private(m) \/ Private(n) => scope \in {"per-peer", "per-channel-peer", "per-account-channel-peer"}
  BY <1>1, <1>2
<1> DEFINE Same(x, y, agent, other) ==
              Key(x, agent) = Key(y, other) <=> agent = other /\ Conversation(x) = Conversation(y)
<1>11. CASE Grouped(m) /\ Grouped(n)
  <2>1. /\ Key(m, a) = <<a, m.channel, Peer(m)[1], Folded(KeyId(m))>>
        /\ Key(n, b) = <<b, n.channel, Peer(n)[1], Folded(KeyId(n))>>
        /\ Conversation(m) = <<Peer(m)[1], m.channel, "", KeyId(m)>>
        /\ Conversation(n) = <<Peer(n)[1], n.channel, "", KeyId(n)>>
    BY <1>5, <1>11
  <2> HIDE DEF Key
  <2>2. <<a, m.channel, Peer(m)[1], Folded(KeyId(m))>> = <<b, n.channel, Peer(n)[1], Folded(KeyId(n))>>
            <=> a = b /\ m.channel = n.channel /\ Peer(m)[1] = Peer(n)[1] /\ Folded(KeyId(m)) = Folded(KeyId(n))
    BY FoursEqual
  <2>3. <<Peer(m)[1], m.channel, "", KeyId(m)>> = <<Peer(n)[1], n.channel, "", KeyId(n)>>
            <=> Peer(m)[1] = Peer(n)[1] /\ m.channel = n.channel /\ KeyId(m) = KeyId(n)
    BY FoursEqual
  <2>4. Same(m, n, a, b)
    BY <1>6, <2>1, <2>2, <2>3
  <2> QED BY <2>4 DEF Key
<1>12. CASE InMain(m) /\ InMain(n)
  <2>1. /\ Key(m, a) = <<a, "main">> /\ Key(n, b) = <<b, "main">>
        /\ Conversation(m) = Conversation(n)
    BY <1>5, <1>12
  <2> HIDE DEF Key
  <2>2. <<a, "main">> = <<b, "main">> <=> a = b
    BY PairsEqual
  <2>3. Same(m, n, a, b)
    BY <2>1, <2>2
  <2> QED BY <2>3 DEF Key
<1>13. CASE Private(m) /\ Private(n)
  <2>1. /\ Key(m, a) = PrivateKey(m, a) /\ Key(n, b) = PrivateKey(n, b)
        /\ Conversation(m) = PrivateChat(m) /\ Conversation(n) = PrivateChat(n)
        /\ Peer(m)[1] = "direct" /\ Peer(n)[1] = "direct"
    BY <1>5, <1>13
  <2>2. Folded(KeyId(m)) = Folded(KeyId(n)) <=> Person(m) = Person(n)
    BY <1>6, <1>7, <2>1
  <2> HIDE DEF Key
  <2>3. CASE scope = "per-peer"
    <3>1. /\ PrivateKey(m, a) = <<a, "direct", Folded(KeyId(m))>> /\ PrivateKey(n, b) = <<b, "direct", Folded(KeyId(n))>>
          /\ PrivateChat(m) = <<"direct", "", "", Person(m)>> /\ PrivateChat(n) = <<"direct", "", "", Person(n)>>
      BY <2>3
    <3> HIDE DEF PrivateKey, PrivateChat
    <3>2. <<a, "direct", Folded(KeyId(m))>> = <<b, "direct", Folded(KeyId(n))>>
             <=> a = b /\ Folded(KeyId(m)) = Folded(KeyId(n))
      BY TriplesEqual
    <3>3. <<"direct", "", "", Person(m)>> = <<"direct", "", "", Person(n)>> <=> Person(m) = Person(n)
      BY FoursEqual
    <3>4. Same(m, n, a, b)
      BY <2>1, <2>2, <3>1, <3>2, <3>3
    <3> QED BY <3>4 DEF Key
  <2>4. CASE scope = "per-channel-peer"
    <3>1. /\ PrivateKey(m, a) = <<a, m.channel, "direct", Folded(KeyId(m))>>
          /\ PrivateKey(n, b) = <<b, n.channel, "direct", Folded(KeyId(n))>>
          /\ PrivateChat(m) = <<"direct", m.channel, "", Person(m)>>
          /\ PrivateChat(n) = <<"direct", n.channel, "", Person(n)>>
      BY <2>4
    <3> HIDE DEF PrivateKey, PrivateChat
    <3>2. <<a, m.channel, "direct", Folded(KeyId(m))>> = <<b, n.channel, "direct", Folded(KeyId(n))>>
             <=> a = b /\ m.channel = n.channel /\ Folded(KeyId(m)) = Folded(KeyId(n))
      BY FoursEqual
    <3>3. <<"direct", m.channel, "", Person(m)>> = <<"direct", n.channel, "", Person(n)>>
             <=> m.channel = n.channel /\ Person(m) = Person(n)
      BY FoursEqual
    <3>4. Same(m, n, a, b)
      BY <2>1, <2>2, <3>1, <3>2, <3>3
    <3> QED BY <3>4 DEF Key
  <2>5. CASE scope = "per-account-channel-peer"
    <3>1. /\ PrivateKey(m, a) = <<a, m.channel, AccountID(m), "direct", Folded(KeyId(m))>>
          /\ PrivateKey(n, b) = <<b, n.channel, AccountID(n), "direct", Folded(KeyId(n))>>
          /\ PrivateChat(m) = <<"direct", m.channel, AccountID(m), Person(m)>>
          /\ PrivateChat(n) = <<"direct", n.channel, AccountID(n), Person(n)>>
      BY <2>5
    <3> HIDE DEF PrivateKey, PrivateChat
    <3>2. <<a, m.channel, AccountID(m), "direct", Folded(KeyId(m))>> = <<b, n.channel, AccountID(n), "direct", Folded(KeyId(n))>>
             <=> a = b /\ m.channel = n.channel /\ AccountID(m) = AccountID(n) /\ Folded(KeyId(m)) = Folded(KeyId(n))
      BY FivesEqual
    <3>3. <<"direct", m.channel, AccountID(m), Person(m)>> = <<"direct", n.channel, AccountID(n), Person(n)>>
             <=> m.channel = n.channel /\ AccountID(m) = AccountID(n) /\ Person(m) = Person(n)
      BY FoursEqual
    <3>4. Same(m, n, a, b)
      BY <2>1, <2>2, <3>1, <3>2, <3>3
    <3> QED BY <3>4 DEF Key
  <2> QED BY <1>10, <1>13, <2>3, <2>4, <2>5
\* keys and conversations of two kinds are apart
<1>14. \A x, y \in Inbound : \A agent, other :
          /\ Grouped(x) /\ InMain(y) => Key(x, agent) # Key(y, other) /\ Conversation(x) # Conversation(y)
          /\ Grouped(x) /\ Private(y) => Key(x, agent) # Key(y, other) /\ Conversation(x) # Conversation(y)
          /\ Private(x) /\ InMain(y) => Key(x, agent) # Key(y, other) /\ Conversation(x) # Conversation(y)
  <2> SUFFICES ASSUME NEW x \in Inbound, NEW y \in Inbound, NEW agent, NEW other
               PROVE  /\ Grouped(x) /\ InMain(y) => Key(x, agent) # Key(y, other) /\ Conversation(x) # Conversation(y)
                      /\ Grouped(x) /\ Private(y) => Key(x, agent) # Key(y, other) /\ Conversation(x) # Conversation(y)
                      /\ Private(x) /\ InMain(y) => Key(x, agent) # Key(y, other) /\ Conversation(x) # Conversation(y)
    OBVIOUS
  <2>1. Grouped(x) => Peer(x)[1] # "direct" /\ Peer(x)[1] # "main"
    BY <1>2
  <2>2. Private(x) \/ Private(y) => scope \in {"per-peer", "per-channel-peer", "per-account-channel-peer"}
    BY <1>1, <1>2
  <2>3. CASE Grouped(x) /\ InMain(y)
    <3>1. /\ Key(x, agent) = <<agent, x.channel, Peer(x)[1], Folded(KeyId(x))>> /\ Key(y, other) = <<other, "main">>
          /\ Conversation(x) = <<Peer(x)[1], x.channel, "", KeyId(x)>> /\ Conversation(y) = <<"main", "", "", NoId>>
      BY <1>5, <2>3
    <3> HIDE DEF Key
    <3>2. <<agent, x.channel, Peer(x)[1], Folded(KeyId(x))>> # <<other, "main">>
      BY LengthsTellApart
    <3>3. <<Peer(x)[1], x.channel, "", KeyId(x)>> # <<"main", "", "", NoId>>
      BY <2>1, <2>3, FoursEqual
    <3>4. Key(x, agent) # Key(y, other) /\ Conversation(x) # Conversation(y)
      BY <3>1, <3>2, <3>3
    <3> QED BY <2>3, <3>4 DEF Key
  <2>4. CASE Grouped(x) /\ Private(y)
    <3>1. /\ Key(x, agent) = <<agent, x.channel, Peer(x)[1], Folded(KeyId(x))>> /\ Key(y, other) = PrivateKey(y, other)
          /\ Conversation(x) = <<Peer(x)[1], x.channel, "", KeyId(x)>> /\ Conversation(y) = PrivateChat(y)
      BY <1>5, <2>4
    <3>2. \/ PrivateKey(y, other) = <<other, "direct", Folded(KeyId(y))>>
          \/ PrivateKey(y, other) = <<other, y.channel, "direct", Folded(KeyId(y))>>
          \/ PrivateKey(y, other) = <<other, y.channel, AccountID(y), "direct", Folded(KeyId(y))>>
      BY <2>2, <2>4
    <3>3. \E c, d : PrivateChat(y) = <<"direct", c, d, Person(y)>>
      OBVIOUS
    <3> HIDE DEF Key, PrivateKey, PrivateChat
    <3>4. /\ <<agent, x.channel, Peer(x)[1], Folded(KeyId(x))>> # <<other, "direct", Folded(KeyId(y))>>
          /\ <<agent, x.channel, Peer(x)[1], Folded(KeyId(x))>> # <<other, y.channel, AccountID(y), "direct", Folded(KeyId(y))>>
      BY LengthsTellApart
    <3>5. <<agent, x.channel, Peer(x)[1], Folded(KeyId(x))>> # <<other, y.channel, "direct", Folded(KeyId(y))>>
      BY <2>1, <2>4, FoursEqual
    <3>6. Key(x, agent) # Key(y, other)
      BY <3>1, <3>2, <3>4, <3>5
    <3>7. \A c, d : <<Peer(x)[1], x.channel, "", KeyId(x)>> # <<"direct", c, d, Person(y)>>
      BY <2>1, <2>4, FoursEqual
    <3>8. Conversation(x) # Conversation(y)
      BY <3>1, <3>3, <3>7
    <3> QED BY <2>4, <3>6, <3>8 DEF Key
  <2>5. CASE Private(x) /\ InMain(y)
    <3>1. /\ Key(x, agent) = PrivateKey(x, agent) /\ Key(y, other) = <<other, "main">>
          /\ Conversation(x) = PrivateChat(x) /\ Conversation(y) = <<"main", "", "", NoId>>
      BY <1>5, <2>5
    <3>2. \/ PrivateKey(x, agent) = <<agent, "direct", Folded(KeyId(x))>>
          \/ PrivateKey(x, agent) = <<agent, x.channel, "direct", Folded(KeyId(x))>>
          \/ PrivateKey(x, agent) = <<agent, x.channel, AccountID(x), "direct", Folded(KeyId(x))>>
      BY <2>2, <2>5
    <3>3. \E c, d : PrivateChat(x) = <<"direct", c, d, Person(x)>>
      OBVIOUS
    <3>4. "direct" # "main"
      OBVIOUS
    <3> HIDE DEF Key, PrivateKey, PrivateChat
    <3>5. /\ <<other, "main">> # <<agent, "direct", Folded(KeyId(x))>>
          /\ <<other, "main">> # <<agent, x.channel, "direct", Folded(KeyId(x))>>
          /\ <<other, "main">> # <<agent, x.channel, AccountID(x), "direct", Folded(KeyId(x))>>
      BY LengthsTellApart
    <3>6. Key(x, agent) # Key(y, other)
      BY <3>1, <3>2, <3>5
    <3>7. \A c, d : <<"direct", c, d, Person(x)>> # <<"main", "", "", NoId>>
      BY <3>4, FoursEqual
    <3>8. Conversation(x) # Conversation(y)
      BY <3>1, <3>3, <3>7
    <3> QED BY <2>5, <3>6, <3>8 DEF Key
  <2> HIDE DEF Grouped, InMain, Key
  <2> QED BY <2>3, <2>4, <2>5
<1> HIDE DEF scope, Grouped, InMain
<1> QED BY <1>8, <1>11, <1>12, <1>13, <1>14


\* Each message was taken by the agent its key names, and has the key of who it is from.
RoutedInv ==
    /\ routes \in RouteConfigs
    /\ \A r \in routed : /\ r.msg \in Inbound
                         /\ r.key = BuildAgentPeerSessionKey(r.msg, r.handler, KeyId(r.msg))

LEMMA RoutedInvStep == ASSUME ClearRouting, RoutedInv, [RoutingNext]_routingVars PROVE RoutedInv'
<1>1. routes' = routes
  BY DEF RoutingNext, Route, routingVars
<1>2. \A m, agent, id : BuildAgentPeerSessionKey(m, agent, id)' = BuildAgentPeerSessionKey(m, agent, id)
  BY <1>1 DEF BuildAgentPeerSessionKey
<1>3. CASE UNCHANGED routed
  BY <1>1, <1>2, <1>3 DEF RoutedInv
<1>4. ASSUME NEW m \in Inbound, Route(m) PROVE RoutedInv'
  <2> DEFINE new == [msg |-> m, handler |-> RouteAgent(m), key |-> BuildAgentPeerSessionKey(m, RouteAgent(m), KeyId(m))]
  <2>1. ClearConfig(routes)
    BY DEF ClearRouting, RoutedInv
  <2>2. HandlerOf(RouteAgent(m)) = RouteAgent(m) /\ KeyIds(m) = {KeyId(m)}
    BY <2>1, RouteIsConfigured, OneKeyId
  <2>3. routed' = routed \cup {new}
    BY <1>4, <2>2 DEF Route
  <2>4. new.msg = m /\ new.key = BuildAgentPeerSessionKey(new.msg, new.handler, KeyId(new.msg))
    OBVIOUS
  <2> HIDE DEF new
  <2> QED BY <1>1, <1>2, <2>3, <2>4 DEF RoutedInv
<1> QED BY <1>3, <1>4 DEF RoutingNext, routingVars

\* Two messages share a session exactly if one agent takes both and they are of one conversation, for any
\* configuration, identity links and messages whose names tell chats and people apart (ResolveRoute,
\* BuildAgentPeerSessionKey, resolveLinkedPeerID).
THEOREM NobodySharesASession == ASSUME ClearRouting PROVE RoutingSpec => []SessionsApart
<1>1. RoutingInit => RoutedInv
  BY DEF RoutingInit, RoutedInv
<1>2. RoutedInv /\ [RoutingNext]_routingVars => RoutedInv'
  BY RoutedInvStep
<1>3. RoutedInv => SessionsApart
  <2> SUFFICES ASSUME RoutedInv, NEW r \in routed, NEW s \in routed
               PROVE  r.key = s.key <=> r.handler = s.handler /\ Conversation(r.msg) = Conversation(s.msg)
    BY DEF SessionsApart
  <2>1. ClearConfig(routes)
    BY DEF ClearRouting, RoutedInv
  <2>2. /\ r.msg \in Inbound /\ r.key = BuildAgentPeerSessionKey(r.msg, r.handler, KeyId(r.msg))
        /\ s.msg \in Inbound /\ s.key = BuildAgentPeerSessionKey(s.msg, s.handler, KeyId(s.msg))
    BY DEF RoutedInv
  <2> QED BY <2>1, <2>2, KeysTellApart
<1> QED BY <1>1, <1>2, <1>3, PTL DEF RoutingSpec
-----------------------------------------------------------------------------
(* What a loop gathers (AgentPrompt): the places of a set, in order.       *)

\* g is what the loop of Places has after each of its first n turns.
Gathers(S, n, g) ==
    g = [k \in 0..n |-> IF k = 0 THEN <<>> ELSE IF k \in S THEN Append(g[k - 1], k) ELSE g[k - 1]]

LEMMA GatheredExists == ASSUME NEW S, NEW n \in Nat PROVE \E g : Gathers(S, n, g)
<1> DEFINE T == {m \in Nat : ~\E g : Gathers(S, m, g)}
<1>1. SUFFICES ASSUME T # {} PROVE FALSE
  OBVIOUS
<1>2. PICK m \in T : \A k \in T : m <= k
  BY <1>1, LeastExists
<1>3. m \in Nat /\ ~\E g : Gathers(S, m, g)
  OBVIOUS
<1>4. m # 0
  <2> DEFINE g == [k \in 0..0 |-> <<>>]
  <2>1. Gathers(S, 0, g)
    BY DEF Gathers
  <2> QED BY <1>3, <2>1
<1>5. PICK g : Gathers(S, m - 1, g)
  BY <1>2, <1>3, <1>4
<1> DEFINE step == IF m \in S THEN Append(g[m - 1], m) ELSE g[m - 1]
           longer == [k \in 0..m |-> IF k < m THEN g[k] ELSE step]
           again == [k \in 0..m |-> IF k = 0 THEN <<>> ELSE IF k \in S THEN Append(longer[k - 1], k) ELSE longer[k - 1]]
<1>6. ASSUME NEW k \in 0..m PROVE longer[k] = again[k]
  <2>1. CASE k = m
    BY <1>3, <1>4, <2>1
  <2>2. CASE k # m
    <3>1. k \in 0..m - 1 /\ (k # 0 => k - 1 \in 0..m - 1 /\ k - 1 \in 0..m /\ k - 1 < m)
      BY <1>3, <2>2
    <3>2. g[k] = IF k = 0 THEN <<>> ELSE IF k \in S THEN Append(g[k - 1], k) ELSE g[k - 1]
      BY <1>5, <3>1 DEF Gathers
    <3> QED BY <1>3, <2>2, <3>1, <3>2
  <2> QED BY <2>1, <2>2
<1>7. longer = again
  BY <1>6
<1>8. Gathers(S, m, longer)
  BY <1>7 DEF Gathers
<1> QED BY <1>3, <1>8

\* A sequence of the places in S, in order, each once.
Enumerates(e, S) ==
    /\ e \in Seq(Nat)
    /\ \A i \in 1..Len(e) : e[i] \in S
    /\ \A x \in S : \E i \in 1..Len(e) : e[i] = x
    /\ \A i, j \in 1..Len(e) : i < j <=> e[i] < e[j]

LEMMA PlacesEnumerate ==
  ASSUME NEW n \in Nat, NEW S
  PROVE  Enumerates(Places(n, S), S \cap 1..n)
<1> DEFINE G == CHOOSE g : Gathers(S, n, g)
<1>1. Gathers(S, n, G)
  BY GatheredExists
<1>2. Places(n, S) = G[n]
  BY DEF Places, Gathers
<1> HIDE DEF G
<1>3. \A k \in 0..n : G[k] = IF k = 0 THEN <<>> ELSE IF k \in S THEN Append(G[k - 1], k) ELSE G[k - 1]
  BY <1>1 DEF Gathers
<1> DEFINE T == {k \in 0..n : ~Enumerates(G[k], S \cap 1..k)}
<1>0. SUFFICES \A k \in 0..n : Enumerates(G[k], S \cap 1..k)
  BY <1>2
<1>4. SUFFICES ASSUME T # {} PROVE FALSE
  OBVIOUS
<1>5. PICK k \in T : \A j \in T : k <= j
  <2>1. T \in SUBSET Nat
    OBVIOUS
  <2> QED BY <1>4, <2>1, LeastExists
<1>6. k \in 0..n /\ ~Enumerates(G[k], S \cap 1..k)
  OBVIOUS
<1>7. k # 0
  <2>1. Enumerates(<<>>, {})
    BY DEF Enumerates
  <2>2. S \cap 1..0 = {} /\ G[0] = <<>>
    BY <1>3
  <2> QED BY <1>6, <2>1, <2>2
<1>8. k - 1 \in 0..n /\ Enumerates(G[k - 1], S \cap 1..k - 1)
  BY <1>5, <1>6, <1>7
<1>9. k \in 1..n /\ G[k] = IF k \in S THEN Append(G[k - 1], k) ELSE G[k - 1]
  BY <1>3, <1>6, <1>7
<1>10. CASE k \notin S
  <2>1. S \cap 1..k = S \cap 1..k - 1
    BY <1>9, <1>10
  <2> QED BY <1>6, <1>8, <1>9, <1>10, <2>1
<1>11. CASE k \in S
  <2> DEFINE e == G[k - 1]
             f == Append(e, k)
             m == Len(e)
  <2>1. /\ e \in Seq(Nat) /\ m \in Nat /\ \A i \in 1..m : e[i] \in Nat /\ e[i] \in S /\ e[i] < k
        /\ \A x \in S \cap 1..k - 1 : \E i \in 1..m : e[i] = x
        /\ \A i, j \in 1..m : i < j <=> e[i] < e[j]
    BY <1>8, <1>9 DEF Enumerates
  <2>2. f \in Seq(Nat) /\ Len(f) = m + 1 /\ \A i \in 1..m + 1 : f[i] = IF i = m + 1 THEN k ELSE e[i]
    BY <1>9, <2>1
  <2> HIDE DEF e, f, m
  <2>3. \A i \in 1..m + 1 : f[i] \in S \cap 1..k
    <3>1. \A i \in 1..m : e[i] \in S \cap 1..k - 1
      BY <1>8 DEF Enumerates, e, m
    <3>2. k \in S \cap 1..k /\ S \cap 1..k - 1 \subseteq S \cap 1..k
      BY <1>9, <1>11
    <3>3. \A i \in 1..m + 1 : i # m + 1 => i \in 1..m
      BY <2>1
    <3> QED BY <2>2, <3>1, <3>2, <3>3
  <2>4. ASSUME NEW x \in S \cap 1..k PROVE \E i \in 1..m + 1 : f[i] = x
    <3>1. CASE x = k
      BY <2>1, <2>2, <3>1
    <3>2. CASE x # k
      <4>1. x \in S \cap 1..k - 1
        BY <1>9, <3>2
      <4>2. PICK i \in 1..m : e[i] = x
        BY <2>1, <4>1
      <4>3. i \in 1..m + 1 /\ f[i] = x
        BY <2>1, <2>2, <4>2
      <4> QED BY <4>3
    <3> QED BY <3>1, <3>2
  <2>5. ASSUME NEW i \in 1..m + 1, NEW j \in 1..m + 1 PROVE i < j <=> f[i] < f[j]
    <3>1. CASE i \in 1..m /\ j \in 1..m
      <4>1. f[i] = e[i] /\ f[j] = e[j]
        BY <2>1, <2>2, <3>1
      <4> QED BY <2>1, <3>1, <4>1
    <3>2. CASE i = m + 1 /\ j \in 1..m
      <4>1. f[i] = k /\ f[j] = e[j]
        BY <2>1, <2>2, <3>2
      <4>2. e[j] \in Nat /\ e[j] < k /\ j < i
        BY <2>1, <3>2
      <4> QED BY <1>9, <2>1, <3>2, <4>1, <4>2
    <3>3. CASE i \in 1..m /\ j = m + 1
      <4>1. f[i] = e[i] /\ f[j] = k
        BY <2>1, <2>2, <3>3
      <4>2. e[i] \in Nat /\ e[i] < k /\ i < j
        BY <2>1, <3>3
      <4> QED BY <1>9, <2>1, <3>3, <4>1, <4>2
    <3>4. CASE i = m + 1 /\ j = m + 1
      <4>1. f[i] = k /\ f[j] = k
        BY <2>2, <3>4
      <4> QED BY <1>9, <2>1, <3>4, <4>1
    <3> QED BY <2>1, <3>1, <3>2, <3>3, <3>4
  <2>6. Enumerates(f, S \cap 1..k)
    BY <2>2, <2>3, <2>4, <2>5 DEF Enumerates
  <2> QED BY <1>6, <1>9, <1>11, <2>6 DEF e, f
<1> QED BY <1>10, <1>11

\* There is one way to number the places of a set in order.
LEMMA EnumerationUnique ==
  ASSUME NEW S, NEW e, NEW f, Enumerates(e, S), Enumerates(f, S)
  PROVE  e = f
<1> DEFINE m == Len(e)
           n == Len(f)
<1>1. /\ m \in Nat /\ n \in Nat /\ DOMAIN e = 1..m /\ DOMAIN f = 1..n
      /\ \A i \in 1..m : e[i] \in Nat /\ e[i] \in S
      /\ \A i \in 1..n : f[i] \in Nat /\ f[i] \in S
  BY DEF Enumerates
<1>2. /\ \A x \in S : (\E i \in 1..m : e[i] = x) /\ (\E i \in 1..n : f[i] = x)
      /\ \A i, j \in 1..m : i < j <=> e[i] < e[j]
      /\ \A i, j \in 1..n : i < j <=> f[i] < f[j]
  BY DEF Enumerates
<1> HIDE DEF m, n
<1>3. \A i \in 1..m : i \in 1..n => e[i] = f[i]
  <2> DEFINE T == {i \in Nat : i \in 1..m /\ i \in 1..n /\ e[i] # f[i]}
  <2>1. SUFFICES ASSUME T # {} PROVE FALSE
    <3>1. \A i \in 1..m : i \in Nat
      BY <1>1
    <3> QED BY <3>1
  <2>2. PICK k \in T : \A j \in T : k <= j
    BY <2>1, LeastExists
  <2>3. k \in 1..m /\ k \in 1..n /\ e[k] # f[k] /\ \A j \in 1..m : j \in 1..n /\ j < k => e[j] = f[j]
    BY <1>1, <2>2
  <2>4. CASE e[k] < f[k]
    <3>1. PICK j \in 1..n : f[j] = e[k]
      BY <1>1, <1>2, <2>3
    <3>2. j < k
      BY <1>2, <2>3, <2>4, <3>1
    <3>3. j \in 1..m
      BY <1>1, <2>3, <3>2
    <3>4. e[j] = e[k]
      BY <2>3, <3>1, <3>2, <3>3
    <3>5. e[j] < e[k]
      BY <1>2, <2>3, <3>2, <3>3
    <3> QED BY <1>1, <2>3, <3>3, <3>4, <3>5
  <2>5. CASE f[k] < e[k]
    <3>1. PICK j \in 1..m : e[j] = f[k]
      BY <1>1, <1>2, <2>3
    <3>2. j < k
      BY <1>2, <2>3, <2>5, <3>1
    <3>3. j \in 1..n
      BY <1>1, <2>3, <3>2
    <3>4. f[j] = f[k]
      BY <2>3, <3>1, <3>2, <3>3
    <3>5. f[j] < f[k]
      BY <1>2, <2>3, <3>2, <3>3
    <3> QED BY <1>1, <2>3, <3>3, <3>4, <3>5
  <2> QED BY <1>1, <2>3, <2>4, <2>5
<1>4. ~(m < n)
  <2> SUFFICES ASSUME m < n PROVE FALSE
    OBVIOUS
  <2>1. m + 1 \in 1..n
    BY <1>1
  <2>2. PICK j \in 1..m : e[j] = f[m + 1]
    BY <1>1, <1>2, <2>1
  <2>3. j \in 1..n /\ j < m + 1
    BY <1>1, <2>2
  <2>4. f[j] < f[m + 1] /\ f[j] = f[m + 1]
    BY <1>2, <1>3, <2>1, <2>2, <2>3
  <2> QED BY <1>1, <2>1, <2>3, <2>4
<1>5. ~(n < m)
  <2> SUFFICES ASSUME n < m PROVE FALSE
    OBVIOUS
  <2>1. n + 1 \in 1..m
    BY <1>1
  <2>2. PICK j \in 1..n : f[j] = e[n + 1]
    BY <1>1, <1>2, <2>1
  <2>3. j \in 1..m /\ j < n + 1
    BY <1>1, <2>2
  <2>4. e[j] < e[n + 1] /\ e[j] = e[n + 1]
    BY <1>2, <1>3, <2>1, <2>2, <2>3
  <2> QED BY <1>1, <2>1, <2>3, <2>4
<1>6. m = n
  BY <1>1, <1>4, <1>5
<1>7. e \in Seq(Nat) /\ f \in Seq(Nat) /\ Len(e) = Len(f) /\ \A i \in 1..Len(e) : e[i] = f[i]
  BY <1>3, <1>6 DEF Enumerates, m, n
<1> QED BY <1>7, SeqEqual
-----------------------------------------------------------------------------
(* The passes of sanitizeHistoryForProvider (AgentPrompt), as facts about  *)
(* the places they keep.                                                   *)

\* kept is what the first pass has kept after each of the first n messages of h.
Passes(h, n, kept) == kept = [k \in 0..n |-> IF k = 0 THEN {} ELSE FirstPass(h, kept[k - 1], k)]

LEMMA PassExists == ASSUME NEW h, NEW n \in Nat PROVE \E kept : Passes(h, n, kept)
<1> DEFINE T == {m \in Nat : ~\E g : Passes(h, m, g)}
<1>1. SUFFICES ASSUME T # {} PROVE FALSE
  OBVIOUS
<1>2. PICK m \in T : \A k \in T : m <= k
  BY <1>1, LeastExists
<1>3. m \in Nat /\ ~\E g : Passes(h, m, g)
  OBVIOUS
<1>4. m # 0
  <2> DEFINE g == [k \in 0..0 |-> {}]
  <2>1. Passes(h, 0, g)
    BY DEF Passes
  <2> QED BY <1>3, <2>1
<1>5. PICK g : Passes(h, m - 1, g)
  BY <1>2, <1>3, <1>4
<1> DEFINE longer == [k \in 0..m |-> IF k < m THEN g[k] ELSE FirstPass(h, g[m - 1], m)]
           again == [k \in 0..m |-> IF k = 0 THEN {} ELSE FirstPass(h, longer[k - 1], k)]
<1>6. ASSUME NEW k \in 0..m PROVE longer[k] = again[k]
  <2>1. CASE k = m
    BY <1>3, <1>4, <2>1
  <2>2. CASE k # m
    <3>1. k \in 0..m - 1 /\ (k # 0 => k - 1 \in 0..m - 1 /\ k - 1 \in 0..m /\ k - 1 < m)
      BY <1>3, <2>2
    <3>2. g[k] = IF k = 0 THEN {} ELSE FirstPass(h, g[k - 1], k)
      BY <1>5, <3>1 DEF Passes
    <3> QED BY <1>3, <2>2, <3>1, <3>2
  <2> QED BY <2>1, <2>2
<1>7. longer = again
  BY <1>6
<1>8. Passes(h, m, longer)
  BY <1>7 DEF Passes
<1> QED BY <1>3, <1>8

\* What the first pass promises of the places K it has kept among the first n of h:
\* a result has its call, a call its predecessor, and a request or an answer stays.
KeptWell(h, n, K) ==
    /\ K \in SUBSET (1..n)
    /\ \A i \in K : h[i].role # "system"
    /\ \A i \in K : h[i].role = "tool" => \E c \in K : IsCall(h[c]) /\ Behind(h, K, c, i)
    /\ \A i \in K : IsCall(h[i]) => \E p \in K : /\ p < i /\ h[p].role \in {"user", "tool"}
                                                 /\ \A j \in K : ~(p < j /\ j < i)
    /\ \A i \in 1..n : Talks(h[i]) => i \in K

LEMMA OneMoreKept ==
  ASSUME NEW h, NEW n \in Nat \ {0}, NEW K, KeptWell(h, n - 1, K)
  PROVE  KeptWell(h, n, FirstPass(h, K, n))
<1> DEFINE L == FirstPass(h, K, n)
<1>1. /\ K \in SUBSET (1..n - 1)
      /\ \A i \in K : i \in 1..n /\ i < n /\ h[i].role # "system"
      /\ \A i \in K : h[i].role = "tool" => \E c \in K : IsCall(h[c]) /\ Behind(h, K, c, i)
      /\ \A i \in K : IsCall(h[i]) => \E p \in K : /\ p < i /\ h[p].role \in {"user", "tool"}
                                                   /\ \A j \in K : ~(p < j /\ j < i)
      /\ \A i \in 1..n - 1 : Talks(h[i]) => i \in K
  BY DEF KeptWell
<1>2. /\ L = K \/ L = K \cup {n}
      /\ h[n].role = "system" => L = K
      /\ h[n].role = "tool" /\ L # K => \E c \in K : IsCall(h[c]) /\ \A j \in K : c < j => h[j].role = "tool"
      /\ IsCall(h[n]) /\ L # K => \E c \in K : h[c].role \in {"user", "tool"} /\ \A j \in K : j <= c
      /\ Talks(h[n]) => n \in L
  BY DEF FirstPass, IsCall, Talks
<1> HIDE DEF L
<1>3. L \in SUBSET (1..n) /\ K \subseteq L /\ \A j \in L : j \in K \/ j = n
  <2>1. n \in 1..n /\ K \subseteq 1..n
    BY <1>1
  <2> QED BY <1>2, <2>1
<1>4. \A i \in L : h[i].role # "system"
  BY <1>1, <1>2, <1>3
<1>5. ASSUME NEW i \in L, h[i].role = "tool" PROVE \E c \in L : IsCall(h[c]) /\ Behind(h, L, c, i)
  <2>1. CASE i \in K
    <3>1. PICK c \in K : IsCall(h[c]) /\ Behind(h, K, c, i)
      BY <1>1, <1>5, <2>1
    <3>2. Behind(h, L, c, i)
      BY <1>1, <1>3, <2>1, <3>1 DEF Behind
    <3> QED BY <1>3, <3>1, <3>2
  <2>2. CASE i = n /\ L # K
    <3>1. PICK c \in K : IsCall(h[c]) /\ \A j \in K : c < j => h[j].role = "tool"
      BY <1>2, <1>5, <2>2
    <3>2. Behind(h, L, c, i)
      BY <1>1, <1>3, <1>5, <2>2, <3>1 DEF Behind
    <3> QED BY <1>3, <3>1, <3>2
  <2> QED BY <1>3, <2>1, <2>2
<1>6. ASSUME NEW i \in L, IsCall(h[i])
      PROVE  \E p \in L : /\ p < i /\ h[p].role \in {"user", "tool"}
                          /\ \A j \in L : ~(p < j /\ j < i)
  <2>1. CASE i \in K
    <3>1. PICK p \in K : /\ p < i /\ h[p].role \in {"user", "tool"}
                         /\ \A j \in K : ~(p < j /\ j < i)
      BY <1>1, <1>6, <2>1
    <3>2. \A j \in L : ~(p < j /\ j < i)
      BY <1>1, <1>3, <2>1, <3>1
    <3> QED BY <1>3, <3>1, <3>2
  <2>2. CASE i = n /\ L # K
    <3>1. PICK p \in K : h[p].role \in {"user", "tool"} /\ \A j \in K : j <= p
      BY <1>2, <1>6, <2>2
    <3>2. p < i /\ p \in Nat
      BY <1>1, <2>2
    <3>3. ASSUME NEW j \in L PROVE ~(p < j /\ j < i)
      <4>1. CASE j \in K
        <5>1. j <= p /\ j \in Nat
          BY <1>1, <3>1, <4>1
        <5> QED BY <3>2, <5>1
      <4>2. CASE j = n
        BY <2>2, <4>2
      <4> QED BY <1>3, <4>1, <4>2
    <3> QED BY <1>3, <3>1, <3>2, <3>3
  <2> QED BY <1>3, <2>1, <2>2
<1>7. ASSUME NEW i \in 1..n, Talks(h[i]) PROVE i \in L
  <2>1. CASE i = n
    BY <1>2, <1>7, <2>1
  <2>2. CASE i # n
    <3>1. i \in 1..n - 1
      BY <2>2
    <3> QED BY <1>1, <1>3, <1>7, <3>1
  <2> QED BY <2>1, <2>2
<1> QED BY <1>3, <1>4, <1>5, <1>6, <1>7 DEF KeptWell, L

\* The first pass of a whole history, whatever the history.
LEMMA FirstPassKeeps ==
  ASSUME NEW h, Len(h) \in Nat
  PROVE  KeptWell(h, Len(h), FirstKept(h))
<1> DEFINE n == Len(h)
           G == CHOOSE g : Passes(h, n, g)
<1>1. Passes(h, n, G)
  BY PassExists
<1>2. FirstKept(h) = G[n]
  BY DEF FirstKept, Passes
<1> HIDE DEF G
<1>3. \A k \in 0..n : G[k] = IF k = 0 THEN {} ELSE FirstPass(h, G[k - 1], k)
  BY <1>1 DEF Passes
<1> HIDE DEF n
<1> DEFINE T == {k \in 0..n : ~KeptWell(h, k, G[k])}
<1>4. SUFFICES ASSUME T # {} PROVE FALSE
  BY <1>2 DEF n
<1>5. PICK k \in T : \A j \in T : k <= j
  <2>1. T \in SUBSET Nat
    OBVIOUS
  <2> QED BY <1>4, <2>1, LeastExists
<1>6. n \in Nat /\ k \in 0..n /\ ~KeptWell(h, k, G[k])
  BY DEF n
<1>7. k # 0
  <2>1. KeptWell(h, 0, {})
    BY DEF KeptWell
  <2> QED BY <1>3, <1>6, <2>1
<1>8. k - 1 \in 0..n /\ k \in Nat \ {0} /\ KeptWell(h, k - 1, G[k - 1])
  BY <1>5, <1>6, <1>7
<1>9. G[k] = FirstPass(h, G[k - 1], k)
  BY <1>3, <1>6, <1>7
<1> QED BY <1>6, <1>8, <1>9, OneMoreKept

\* What strict providers ask, of the places S of a history that has none before it.
AcceptedPlaces(h, S) ==
    /\ S \in SUBSET (1..Len(h))
    /\ \A i \in S : h[i].role # "system"
    /\ \A i \in S : h[i].role = "tool" => \E c \in S : IsCall(h[c]) /\ Behind(h, S, c, i)
    /\ \A i \in S : IsCall(h[i]) =>
           /\ h[i].calls \subseteq Results(h, S, i)
           /\ \E p \in S : p < i /\ h[p].role \in {"user", "tool"} /\ \A j \in S : ~(p < j /\ j < i)

\* The second pass leaves what a provider accepts: a result goes with its call only, a call
\* that stays has all its results, and behind a dropped call the message before it takes over.
LEMMA SecondPassKeeps ==
  ASSUME NEW h, Len(h) \in Nat, NEW K, KeptWell(h, Len(h), K)
  PROVE  /\ AcceptedPlaces(h, SecondPass(h, K))
         /\ \A i \in 1..Len(h) : Talks(h[i]) => i \in SecondPass(h, K)
<1> DEFINE S == SecondPass(h, K)
           Gone(i) == \E k \in K : Unanswered(h, K, k) /\ (i = k \/ Behind(h, K, k, i))
<1>1. /\ K \in SUBSET (1..Len(h)) /\ K \in SUBSET Nat
      /\ \A i \in K : h[i].role # "system"
      /\ \A i \in K : h[i].role = "tool" => \E c \in K : IsCall(h[c]) /\ Behind(h, K, c, i)
      /\ \A i \in K : IsCall(h[i]) => \E p \in K : /\ p < i /\ h[p].role \in {"user", "tool"}
                                                   /\ \A j \in K : ~(p < j /\ j < i)
      /\ \A i \in 1..Len(h) : Talks(h[i]) => i \in K
  <2>1. 1..Len(h) \subseteq Nat
    OBVIOUS
  <2> QED BY <2>1 DEF KeptWell
<1>2. \A i : i \in S <=> i \in K /\ ~Gone(i)
  BY DEF SecondPass
<1>3. \A i, k : Unanswered(h, K, k) => IsCall(h[k]) /\ h[k].role = "assistant"
  BY DEF Unanswered, IsCall
<1>4. \A i, k \in K : Behind(h, K, k, i) => k < i /\ h[i].role = "tool" /\ \A j \in K : k < j /\ j <= i => h[j].role = "tool"
  <2>1. \A i \in K : i <= i
    BY <1>1
  <2> QED BY <2>1 DEF Behind
<1>5. \A i \in K : Gone(i) => h[i].role = "tool" \/ Unanswered(h, K, i)
  BY <1>4
<1> HIDE DEF S
\* a result and its call
<1>6. ASSUME NEW i \in S, h[i].role = "tool" PROVE \E c \in S : IsCall(h[c]) /\ Behind(h, S, c, i)
  <2>1. PICK c \in K : IsCall(h[c]) /\ Behind(h, K, c, i)
    BY <1>1, <1>2, <1>6
  <2>2. ~Unanswered(h, K, c)
    BY <1>2, <2>1
  <2>3. c \in S
    BY <1>2, <1>5, <2>1, <2>2 DEF IsCall
  <2>4. Behind(h, S, c, i)
    BY <1>2, <2>1 DEF Behind
  <2> QED BY <2>1, <2>3, <2>4
\* a call and its results
<1>7. ASSUME NEW i \in S, IsCall(h[i]) PROVE h[i].calls \subseteq Results(h, S, i)
  <2>1. i \in K /\ ~Unanswered(h, K, i) /\ h[i].role = "assistant"
    BY <1>2, <1>7 DEF IsCall
  <2>2. h[i].calls \subseteq Results(h, K, i)
    BY <1>7, <2>1 DEF Unanswered
  <2>3. ASSUME NEW j \in K, Behind(h, K, i, j) PROVE j \in S /\ Behind(h, S, i, j)
    <3>1. SUFFICES ASSUME NEW k \in K, Unanswered(h, K, k), j = k \/ Behind(h, K, k, j)
                   PROVE  FALSE
      BY <1>2, <2>3 DEF Behind
    <3>2. i < j /\ h[j].role = "tool"
      BY <1>4, <2>1, <2>3
    <3>3. Behind(h, K, k, j) /\ k < j /\ h[k].role = "assistant"
      BY <1>3, <1>4, <3>1, <3>2
    <3>4. i # k
      BY <2>1, <3>1
    <3>5. i \in Nat /\ j \in Nat /\ k \in Nat
      BY <1>1, <2>1
    <3>6. CASE i < k
      BY <1>4, <2>1, <2>3, <3>3, <3>5, <3>6
    <3>7. CASE k < i
      BY <1>4, <2>1, <3>2, <3>3, <3>5, <3>7
    <3> QED BY <3>4, <3>5, <3>6, <3>7
  <2> QED BY <2>2, <2>3 DEF Results
\* a call and the message before it: the least call that would have none
<1>8. \A i \in K : IsCall(h[i]) =>
          \E p \in S : p < i /\ h[p].role \in {"user", "tool"} /\ \A j \in S : ~(p < j /\ j < i)
  <2> DEFINE Led(i) == \E p \in S : p < i /\ h[p].role \in {"user", "tool"} /\ \A j \in S : ~(p < j /\ j < i)
             T == {i \in K : IsCall(h[i]) /\ ~Led(i)}
  <2>1. SUFFICES ASSUME T # {} PROVE FALSE
    OBVIOUS
  <2>2. PICK i \in T : \A j \in T : i <= j
    <3>1. T \in SUBSET Nat
      BY <1>1
    <3> HIDE DEF T
    <3> QED BY <2>1, <3>1, LeastExists
  <2>3. i \in K /\ IsCall(h[i]) /\ ~Led(i) /\ i \in Nat
    BY <1>1
  <2>4. \A k \in K : IsCall(h[k]) /\ k < i => Led(k)
    BY <1>1, <2>2, <2>3
  <2>5. PICK p \in K : p < i /\ h[p].role \in {"user", "tool"} /\ \A j \in K : ~(p < j /\ j < i)
    BY <1>1, <2>3
  <2>6. p \notin S
    <3>1. \A j \in S : j \in K
      BY <1>2
    <3> QED BY <2>3, <2>5, <3>1
  <2>7. PICK k \in K : Unanswered(h, K, k) /\ (p = k \/ Behind(h, K, k, p))
    BY <1>2, <2>6
  <2>8. Behind(h, K, k, p) /\ k < p /\ IsCall(h[k])
    BY <1>3, <1>4, <2>5, <2>7
  <2>9. k \in Nat /\ p \in Nat /\ k < i /\ Led(k) /\ k \notin S
    BY <1>1, <1>2, <2>3, <2>4, <2>5, <2>7, <2>8
  <2>10. PICK q \in S : q < k /\ h[q].role \in {"user", "tool"} /\ \A j \in S : ~(q < j /\ j < k)
    BY <2>9
  <2>11. ASSUME NEW j \in S, q < j, j < i PROVE FALSE
    <3>1. j \in K /\ j \in Nat /\ q \in Nat
      BY <1>1, <1>2
    <3>2. ~(j < k) /\ j # k
      BY <2>9, <2>10, <2>11
    <3>3. ~(p < j)
      BY <2>5, <2>11, <3>1
    <3>4. k < j /\ j <= p
      BY <2>9, <3>1, <3>2, <3>3
    <3>5. Behind(h, K, k, j)
      <4>1. \A l \in K : k < l /\ l <= j => k < l /\ l <= p
        BY <1>1, <2>9, <3>1, <3>4
      <4> QED BY <2>8, <3>4, <4>1 DEF Behind
    <3> QED BY <1>2, <2>7, <3>5
  <2>12. q < i
    <3>1. q \in Nat
      BY <1>1, <1>2
    <3> QED BY <2>3, <2>9, <2>10, <3>1
  <2> QED BY <2>3, <2>10, <2>11, <2>12
<1>9. \A i \in 1..Len(h) : Talks(h[i]) => i \in S
  BY <1>1, <1>2, <1>5, <1>3 DEF Talks, IsCall, Unanswered
<1>10. S \in SUBSET (1..Len(h)) /\ \A i \in S : h[i].role # "system"
  BY <1>1, <1>2
<1>11. \A i \in S : i \in K
  BY <1>2
<1> QED BY <1>6, <1>7, <1>8, <1>9, <1>10, <1>11 DEF AcceptedPlaces, S

\* A list of messages: a system message, those at the places S of h in their order, and perhaps a
\* request.  A provider accepts it when it accepts the places.
LEMMA PlacesToPrompt ==
  ASSUME NEW h, NEW S, AcceptedPlaces(h, S), NEW e, Enumerates(e, S),
         NEW B, NEW N \in {Len(e) + 1, Len(e) + 2}, DOMAIN B = 1..N, B[1] = Plain("system"),
         \A i \in 1..Len(e) : B[i + 1] = h[e[i]],
         N = Len(e) + 2 => B[N] = Plain("user")
  PROVE  ProviderAccepts(B)
<1> DEFINE m == Len(e)
<1>1. /\ m \in Nat /\ N \in Nat /\ N >= m + 1 /\ N <= m + 2
      /\ \A i \in 1..m : e[i] \in Nat /\ e[i] \in S
      /\ \A x \in S : \E i \in 1..m : e[i] = x
      /\ \A i, j \in 1..m : i < j <=> e[i] < e[j]
  BY DEF Enumerates
<1>2. /\ \A i \in S : h[i].role # "system"
      /\ \A i \in S : h[i].role = "tool" => \E c \in S : IsCall(h[c]) /\ Behind(h, S, c, i)
      /\ \A i \in S : IsCall(h[i]) =>
             /\ h[i].calls \subseteq Results(h, S, i)
             /\ \E p \in S : p < i /\ h[p].role \in {"user", "tool"} /\ \A j \in S : ~(p < j /\ j < i)
  BY DEF AcceptedPlaces
<1>3. \A i \in 1..m : i + 1 \in DOMAIN B /\ B[i + 1] = h[e[i]]
  BY <1>1
<1>4. \A r : ~IsCall(Plain(r)) /\ Plain(r).role = r
  BY DEF IsCall, Plain
<1>5. \A i \in DOMAIN B : i = 1 \/ (i = m + 2 /\ B[i] = Plain("user")) \/ (i - 1 \in 1..m /\ B[i] = h[e[i - 1]])
  <2> TAKE i \in DOMAIN B
  <2>1. i \in 1..N
    OBVIOUS
  <2>2. CASE i - 1 \in 1..m
    <3>1. i - 1 + 1 = i
      BY <2>1
    <3> QED BY <1>3, <2>2, <3>1
  <2>3. CASE i - 1 \notin 1..m
    BY <1>1, <2>1, <2>3
  <2> QED BY <2>2, <2>3
<1>6. DOMAIN B \subseteq Nat
  BY <1>1
<1> HIDE DEF m
\* what stands behind a place stands behind it in the list
<1>7. ASSUME NEW i \in 1..m, NEW j \in 1..m, Behind(h, S, e[i], e[j])
      PROVE  Behind(B, DOMAIN B, i + 1, j + 1)
  <2>1. i < j /\ \A k \in S : e[i] < k /\ k <= e[j] => h[k].role = "tool"
    BY <1>1, <1>7 DEF Behind
  <2>2. ASSUME NEW k \in DOMAIN B, i + 1 < k, k <= j + 1 PROVE B[k].role = "tool"
    <3>1. k \in Nat /\ k - 1 \in 1..m /\ i < k - 1 /\ k - 1 <= j
      BY <1>1, <1>6, <2>2
    <3>2. e[i] < e[k - 1] /\ e[k - 1] <= e[j] /\ e[k - 1] \in S
      <4>1. e[i] < e[k - 1] /\ e[k - 1] \in S
        BY <1>1, <3>1
      <4>2. CASE k - 1 = j
        BY <1>1, <4>1, <4>2
      <4>3. CASE k - 1 < j
        BY <1>1, <3>1, <4>1, <4>3
      <4> QED BY <1>1, <3>1, <4>1, <4>2, <4>3
    <3>3. B[k] = h[e[k - 1]]
      <4>1. k - 1 + 1 = k
        BY <3>1
      <4> QED BY <1>3, <3>1, <4>1
    <3> QED BY <2>1, <3>2, <3>3
  <2> QED BY <1>1, <2>1, <2>2 DEF Behind
<1>8. ASSUME NEW i \in DOMAIN B
      PROVE  /\ B[i].role = "system" => i = 1
             /\ IsCall(B[i]) => i > 1 /\ B[i].calls \subseteq Results(B, DOMAIN B, i) /\ B[i-1].role \in {"user", "tool"}
             /\ B[i].role = "tool" => \E k \in DOMAIN B : IsCall(B[k]) /\ Behind(B, DOMAIN B, k, i)
  <2>1. CASE i = 1
    BY <1>4, <2>1
  <2>2. CASE i = m + 2 /\ B[i] = Plain("user")
    BY <1>4, <2>2
  <2>3. CASE i - 1 \in 1..m /\ B[i] = h[e[i - 1]]
    <3> DEFINE place == i - 1
               c == e[place]
    <3>1. i \in Nat /\ place \in 1..m /\ i = place + 1 /\ c \in S /\ B[i] = h[c] /\ i > 1
      BY <1>1, <1>6, <2>3
    <3> HIDE DEF place
    <3>2. B[i].role # "system"
      BY <1>2, <3>1
    <3>3. ASSUME IsCall(B[i])
          PROVE  B[i].calls \subseteq Results(B, DOMAIN B, i) /\ B[i - 1].role \in {"user", "tool"}
      <4>1. h[c].calls \subseteq Results(h, S, c)
        BY <1>2, <3>1, <3>3
      <4>2. ASSUME NEW r \in h[c].calls PROVE r \in Results(B, DOMAIN B, i)
        <5>1. PICK j \in S : Behind(h, S, c, j) /\ h[j].result = r
          BY <4>1 DEF Results
        <5>2. PICK l \in 1..m : e[l] = j
          BY <1>1
        <5>3. Behind(B, DOMAIN B, i, l + 1)
          BY <1>7, <3>1, <5>1, <5>2
        <5>4. l + 1 \in DOMAIN B /\ B[l + 1].result = r
          BY <1>3, <5>1, <5>2
        <5> QED BY <5>3, <5>4 DEF Results
      <4>3. PICK p \in S : p < c /\ h[p].role \in {"user", "tool"} /\ \A j \in S : ~(p < j /\ j < c)
        BY <1>2, <3>1, <3>3
      <4>4. PICK l \in 1..m : e[l] = p
        BY <1>1
      <4>5. l < place
        BY <1>1, <3>1, <4>3, <4>4
      <4>6. l = place - 1
        <5> SUFFICES ASSUME l + 1 < place PROVE FALSE
          BY <1>1, <3>1, <4>5
        <5>1. l + 1 \in 1..m
          BY <1>1, <3>1
        <5>2. e[l] < e[l + 1] /\ e[l + 1] < c /\ e[l + 1] \in S
          BY <1>1, <3>1, <5>1
        <5> QED BY <4>3, <4>4, <5>2
      <4>7. B[i - 1] = h[p]
        <5>1. i - 1 = l + 1
          BY <1>1, <3>1, <4>6
        <5> QED BY <1>3, <4>4, <5>1
      <4> QED BY <3>1, <4>2, <4>3, <4>7
    <3>4. ASSUME B[i].role = "tool" PROVE \E k \in DOMAIN B : IsCall(B[k]) /\ Behind(B, DOMAIN B, k, i)
      <4>1. PICK k \in S : IsCall(h[k]) /\ Behind(h, S, k, c)
        BY <1>2, <3>1, <3>4
      <4>2. PICK l \in 1..m : e[l] = k
        BY <1>1
      <4>3. Behind(B, DOMAIN B, l + 1, i)
        BY <1>7, <3>1, <4>1, <4>2
      <4> QED BY <1>3, <4>1, <4>2, <4>3
    <3> QED BY <3>1, <3>2, <3>3, <3>4
  <2> QED BY <1>5, <2>1, <2>2, <2>3
<1> QED BY <1>8 DEF ProviderAccepts

\* The messages that Selected takes are those at the places, in their order.
LEMMA SelectedInOrder ==
  ASSUME NEW M, NEW h \in Seq(M), NEW S \in SUBSET (1..Len(h)), NEW e, e = Places(Len(h), S)
  PROVE  /\ Enumerates(e, S) /\ Len(e) \in Nat /\ DOMAIN e = 1..Len(e)
         /\ Selected(h, S) \in Seq(M) /\ Len(Selected(h, S)) = Len(e)
         /\ \A i \in 1..Len(e) : e[i] \in 1..Len(h) /\ e[i] \in S /\ Selected(h, S)[i] = h[e[i]]
<1>1. S \cap 1..Len(h) = S /\ Len(h) \in Nat
  <2>1. Len(h) \in Nat
    OBVIOUS
  <2>2. \A x \in S : x \in 1..Len(h)
    OBVIOUS
  <2> QED BY <2>1, <2>2
<1>2. Enumerates(e, S)
  BY <1>1, PlacesEnumerate
<1>3. e \in Seq(Nat) /\ Len(e) \in Nat /\ DOMAIN e = 1..Len(e) /\ \A i \in 1..Len(e) : e[i] \in S
  BY <1>2 DEF Enumerates
<1>4. Selected(h, S) = [i \in 1..Len(e) |-> h[e[i]]]
  BY <1>3 DEF Selected
<1>5. \A i \in 1..Len(e) : e[i] \in 1..Len(h) /\ h[e[i]] \in M
  BY <1>3
<1> QED BY <1>2, <1>3, <1>4, <1>5

LEMMA AllSelected == ASSUME NEW M, NEW h \in Seq(M) PROVE Selected(h, 1..Len(h)) = h
<1> DEFINE n == Len(h)
           S == 1..n
           e == Places(n, S)
           all == [i \in 1..n |-> i]
<1>1. n \in Nat /\ h \in [1..n -> M]
  OBVIOUS
<1>2. Enumerates(e, S) /\ DOMAIN e = 1..Len(e)
  BY SelectedInOrder
<1>3. Enumerates(all, S)
  <2>1. all \in Seq(Nat) /\ Len(all) = n /\ \A i \in 1..n : all[i] = i
    BY <1>1
  <2> HIDE DEF all
  <2> QED BY <2>1 DEF Enumerates
<1>4. e = all
  <2> HIDE DEF e, all, S
  <2> QED BY <1>2, <1>3, EnumerationUnique
<1>5. Selected(h, S) = [i \in DOMAIN e |-> h[e[i]]]
  BY DEF Selected
<1>6. Selected(h, S) = [i \in 1..n |-> h[i]]
  BY <1>4, <1>5
<1> QED BY <1>1, <1>6

\* An accepted history loses nothing in either pass.
LEMMA AcceptedKeepsAll ==
  ASSUME NEW h \in Seq(StoredMessages), ProviderAccepts(<<Plain("system")>> \o h)
  PROVE  SecondPass(h, FirstKept(h)) = 1..Len(h)
<1> DEFINE n == Len(h)
           s == <<Plain("system")>> \o h
           G == CHOOSE g : Passes(h, n, g)
<1>1. /\ n \in Nat /\ DOMAIN s = 1..n + 1 /\ s[1] = Plain("system") /\ \A i \in 1..n : s[i + 1] = h[i]
  <2>1. <<Plain("system")>> \in Seq({Plain("system")} \cup StoredMessages) /\ Len(<<Plain("system")>>) = 1
    OBVIOUS
  <2>2. h \in Seq({Plain("system")} \cup StoredMessages)
    OBVIOUS
  <2>3. s \in Seq({Plain("system")} \cup StoredMessages) /\ Len(s) = 1 + n
        /\ \A i \in 1..1 + n : s[i] = IF i <= 1 THEN <<Plain("system")>>[i] ELSE h[i - 1]
    BY <2>1, <2>2, ConcatProperties
  <2> HIDE DEF s
  <2>4. \A i \in 1..n : i + 1 \in 1..1 + n /\ ~(i + 1 <= 1) /\ i + 1 - 1 = i
    OBVIOUS
  <2>5. \A i \in 1..n : s[i + 1] = h[i]
    BY <2>3, <2>4
  <2>6. s[1] = <<Plain("system")>>[1]
    BY <2>3
  <2> QED BY <2>3, <2>5, <2>6
<1> HIDE DEF n, s
<1>2. \A i \in 1..n + 1 :
        /\ s[i].role = "system" => i = 1
        /\ IsCall(s[i]) => i > 1 /\ s[i].calls \subseteq Results(s, DOMAIN s, i) /\ s[i-1].role \in {"user", "tool"}
        /\ s[i].role = "tool" => \E k \in 1..n + 1 : IsCall(s[k]) /\ Behind(s, DOMAIN s, k, i)
  BY <1>1 DEF ProviderAccepts, s
<1>3. ~IsCall(s[1]) /\ s[1].role = "system"
  BY <1>1 DEF IsCall, Plain
<1>4. ASSUME NEW i \in 1..n, NEW j \in 1..n, Behind(s, DOMAIN s, i + 1, j + 1)
      PROVE  i < j /\ \A k \in 1..n : i < k /\ k <= j => h[k].role = "tool"
  <2>1. i < j /\ \A k \in 1..n + 1 : i + 1 < k /\ k <= j + 1 => s[k].role = "tool"
    BY <1>1, <1>4 DEF Behind
  <2>2. ASSUME NEW k \in 1..n, i < k, k <= j PROVE h[k].role = "tool"
    <3>1. k + 1 \in 1..n + 1 /\ i + 1 < k + 1 /\ k + 1 <= j + 1
      BY <1>1, <2>2
    <3> QED BY <1>1, <2>1, <3>1
  <2> QED BY <2>1, <2>2
<1>5. \A k \in 1..n :
        /\ h[k].role # "system"
        /\ h[k].role = "tool" => \E c \in 1..n : /\ c < k /\ IsCall(h[c])
                                                 /\ \A j \in 1..n : c < j /\ j <= k => h[j].role = "tool"
        /\ IsCall(h[k]) => k - 1 \in 1..n /\ h[k - 1].role \in {"user", "tool"}
  <2> TAKE k \in 1..n
  <2>1. k + 1 \in 1..n + 1 /\ k + 1 # 1 /\ s[k + 1] = h[k] /\ k + 1 - 1 = k
    BY <1>1
  <2>2. ASSUME h[k].role = "tool"
        PROVE  \E c \in 1..n : /\ c < k /\ IsCall(h[c])
                               /\ \A j \in 1..n : c < j /\ j <= k => h[j].role = "tool"
    <3>1. PICK l \in 1..n + 1 : IsCall(s[l]) /\ Behind(s, DOMAIN s, l, k + 1)
      BY <1>2, <2>1, <2>2
    <3>2. l - 1 \in 1..n /\ l - 1 + 1 = l
      BY <1>1, <1>3, <3>1
    <3>3. IsCall(h[l - 1])
      BY <1>1, <3>1, <3>2
    <3> QED BY <1>4, <3>1, <3>2, <3>3
  <2>3. ASSUME IsCall(h[k]) PROVE k - 1 \in 1..n /\ h[k - 1].role \in {"user", "tool"}
    <3>1. s[k].role \in {"user", "tool"}
      BY <1>2, <2>1, <2>3
    <3>2. k # 1
      BY <1>3, <3>1
    <3>3. k - 1 \in 1..n /\ k - 1 + 1 = k
      BY <1>1, <3>2
    <3> QED BY <1>1, <3>1, <3>3
  <2> QED BY <1>2, <2>1, <2>2, <2>3
<1>6. Passes(h, n, G)
  BY <1>1, PassExists
<1>7. FirstKept(h) = G[n]
  BY DEF FirstKept, Passes, n
<1> HIDE DEF G
<1>8. \A k \in 0..n : G[k] = IF k = 0 THEN {} ELSE FirstPass(h, G[k - 1], k)
  BY <1>6 DEF Passes
<1>9. \A k \in 0..n : G[k] = 1..k
  <2> DEFINE T == {k \in 0..n : G[k] # 1..k}
  <2>1. SUFFICES ASSUME T # {} PROVE FALSE
    OBVIOUS
  <2>2. PICK k \in T : \A j \in T : k <= j
    <3>1. T \in SUBSET Nat
      BY <1>1
    <3> HIDE DEF T
    <3> QED BY <2>1, <3>1, LeastExists
  <2>3. k \in 0..n /\ G[k] # 1..k
    OBVIOUS
  <2>4. k # 0
    BY <1>8, <2>3
  <2>5. k \in 1..n /\ k - 1 \in 0..n /\ G[k - 1] = 1..k - 1
    BY <1>1, <2>2, <2>3, <2>4
  <2>6. G[k] = FirstPass(h, 1..k - 1, k)
    BY <1>8, <2>4, <2>5
  <2>7. 1..k = (1..k - 1) \cup {k}
    BY <1>1, <2>5
  <2>8. h[k].role = "tool" => \E c \in 1..k - 1 : IsCall(h[c]) /\ \A j \in 1..k - 1 : c < j => h[j].role = "tool"
    BY <1>1, <1>5, <2>5
  <2>9. IsCall(h[k]) => \E c \in 1..k - 1 : h[c].role \in {"user", "tool"} /\ \A j \in 1..k - 1 : j <= c
    <3>1. IsCall(h[k]) => k - 1 \in 1..k - 1 /\ h[k - 1].role \in {"user", "tool"} /\ \A j \in 1..k - 1 : j <= k - 1
      BY <1>1, <1>5, <2>5
    <3> QED BY <3>1
  <2>10. h[k].role # "system"
    BY <1>5, <2>5
  <2>11. FirstPass(h, 1..k - 1, k) = (1..k - 1) \cup {k}
    BY <2>8, <2>9, <2>10 DEF FirstPass
  <2> QED BY <2>3, <2>6, <2>7, <2>11
<1>10. FirstKept(h) = 1..n
  BY <1>1, <1>7, <1>9
<1>11. ASSUME NEW k \in 1..n PROVE ~Unanswered(h, 1..n, k)
  <2> SUFFICES ASSUME IsCall(h[k]) PROVE h[k].calls \subseteq Results(h, 1..n, k)
    BY DEF Unanswered
  <2>1. k + 1 \in 1..n + 1 /\ s[k + 1] = h[k]
    BY <1>1
  <2>2. h[k].calls \subseteq Results(s, DOMAIN s, k + 1)
    BY <1>2, <2>1
  <2>3. ASSUME NEW r \in h[k].calls PROVE r \in Results(h, 1..n, k)
    <3>1. PICK l \in 1..n + 1 : Behind(s, DOMAIN s, k + 1, l) /\ s[l].result = r
      BY <1>1, <2>2 DEF Results
    <3>2. l - 1 \in 1..n /\ l - 1 + 1 = l
      BY <1>1, <3>1 DEF Behind
    <3>3. Behind(h, 1..n, k, l - 1)
      BY <1>4, <3>1, <3>2 DEF Behind
    <3>4. h[l - 1].result = r
      BY <1>1, <3>1, <3>2
    <3> QED BY <3>2, <3>3, <3>4 DEF Results
  <2> QED BY <2>3
<1>12. SecondPass(h, 1..n) = 1..n
  BY <1>11 DEF SecondPass
<1> QED BY <1>10, <1>12 DEF n

\* BuildMessages gives a list a provider accepts, whatever the history; and without the request,
\* what is left of the history is accepted too.
LEMMA PromptsAccepted ==
  ASSUME NEW h \in Seq(StoredMessages)
  PROVE  /\ sanitizeHistoryForProvider(h) \in Seq(StoredMessages)
         /\ ProviderAccepts(BuildMessages(h, TRUE))
         /\ ProviderAccepts(<<Plain("system")>> \o sanitizeHistoryForProvider(h))
<1> DEFINE S == SecondPass(h, FirstKept(h))
           e == Places(Len(h), S)
           kept == Selected(h, S)
           m == Len(e)
           Messages == StoredMessages \cup {Plain("system"), Plain("user")}
           B == <<Plain("system")>> \o kept
           C == B \o <<Plain("user")>>
<1>1. Len(h) \in Nat
  OBVIOUS
<1>2. AcceptedPlaces(h, S)
  BY <1>1, FirstPassKeeps, SecondPassKeeps
<1>3. S \in SUBSET (1..Len(h))
  BY <1>2 DEF AcceptedPlaces
<1>4. /\ Enumerates(e, S) /\ m \in Nat
      /\ kept \in Seq(StoredMessages) /\ Len(kept) = m
      /\ \A i \in 1..m : kept[i] = h[e[i]]
  <2> HIDE DEF S
  <2> QED BY <1>3, SelectedInOrder
<1>5. sanitizeHistoryForProvider(h) = kept
  BY DEF sanitizeHistoryForProvider
<1> HIDE DEF kept, e, m
<1>6. /\ B \in Seq(Messages) /\ Len(B) = m + 1 /\ B[1] = Plain("system") /\ \A i \in 1..m : B[i + 1] = h[e[i]]
  <2>1. <<Plain("system")>> \in Seq(Messages) /\ Len(<<Plain("system")>>) = 1 /\ kept \in Seq(Messages)
    BY <1>4
  <2>2. /\ B \in Seq(Messages) /\ Len(B) = 1 + m
        /\ \A i \in 1..1 + m : B[i] = IF i <= 1 THEN <<Plain("system")>>[i] ELSE kept[i - 1]
    BY <1>4, <2>1, ConcatProperties
  <2> HIDE DEF B
  <2>3. \A i \in 1..m : i + 1 \in 1..1 + m /\ ~(i + 1 <= 1) /\ i + 1 - 1 = i
    BY <1>4
  <2>4. \A i \in 1..m : B[i + 1] = h[e[i]]
    BY <1>4, <2>2, <2>3
  <2>5. B[1] = <<Plain("system")>>[1]
    BY <1>4, <2>2
  <2> QED BY <1>4, <2>2, <2>4, <2>5
<1> HIDE DEF B
<1>7. ProviderAccepts(B)
  <2>1. DOMAIN B = 1..m + 1 /\ m + 1 \in {m + 1, m + 2} /\ m + 1 # m + 2
    BY <1>4, <1>6
  <2> HIDE DEF S
  <2> QED BY <1>2, <1>4, <1>6, <2>1, PlacesToPrompt DEF m
<1>8. C \in Seq(Messages) /\ Len(C) = m + 2 /\ C[m + 2] = Plain("user") /\ \A i \in 1..m + 1 : C[i] = B[i]
  <2>1. <<Plain("user")>> \in Seq(Messages) /\ Len(<<Plain("user")>>) = 1
    OBVIOUS
  <2>2. /\ C \in Seq(Messages) /\ Len(C) = m + 1 + 1
        /\ \A i \in 1..m + 1 + 1 : C[i] = IF i <= m + 1 THEN B[i] ELSE <<Plain("user")>>[i - (m + 1)]
    BY <1>6, <2>1, ConcatProperties
  <2> HIDE DEF C
  <2>3. C[m + 2] = <<Plain("user")>>[1]
    <3> DEFINE last == m + 2
    <3>1. last \in 1..m + 1 + 1 /\ ~(last <= m + 1) /\ last - (m + 1) = 1
      BY <1>4
    <3> HIDE DEF last
    <3>2. C[last] = <<Plain("user")>>[last - (m + 1)]
      BY <2>2, <3>1
    <3> QED BY <3>1, <3>2 DEF last
  <2>4. \A i \in 1..m + 1 : i \in 1..m + 1 + 1 /\ i <= m + 1
    BY <1>4
  <2> QED BY <1>4, <2>2, <2>3, <2>4
<1> HIDE DEF C
<1>9. ProviderAccepts(C)
  <2>1. DOMAIN C = 1..m + 2 /\ m + 2 \in {m + 1, m + 2}
    BY <1>4, <1>8
  <2>2. C[1] = Plain("system") /\ \A i \in 1..m : C[i + 1] = h[e[i]]
    <3>1. 1 \in 1..m + 1 /\ \A i \in 1..m : i + 1 \in 1..m + 1
      BY <1>4
    <3> QED BY <1>6, <1>8, <3>1
  <2> HIDE DEF S
  <2> QED BY <1>2, <1>4, <1>8, <2>1, <2>2, PlacesToPrompt DEF m
<1>10. BuildMessages(h, TRUE) = C
  BY <1>5 DEF BuildMessages, C, B
<1> QED BY <1>4, <1>5, <1>7, <1>9, <1>10 DEF B

\* Nothing is dropped that need not be.
LEMMA NothingIsWasted ==
  ASSUME told \in Seq(StoredMessages)
  PROVE  NothingWasted
<1> DEFINE S == SecondPass(told, FirstKept(told))
           s == Selected(told, S)
           Talking(h) == {i \in DOMAIN h : Talks(h[i])}
<1>1. s = sanitizeHistoryForProvider(told) /\ s \in Seq(StoredMessages)
  BY PromptsAccepted DEF sanitizeHistoryForProvider
<1>2. \A h \in Seq(StoredMessages) : ProviderAccepts(<<Plain("system")>> \o h) => sanitizeHistoryForProvider(h) = h
  BY AcceptedKeepsAll, AllSelected DEF sanitizeHistoryForProvider
<1>3. sanitizeHistoryForProvider(s) = s
  BY <1>1, <1>2, PromptsAccepted
<1>4. Selected(s, Talking(s)) = Selected(told, Talking(told))
  <2> DEFINE n == Len(told)
             A == Talking(told)
             T == Talking(s)
             e == Places(n, S)
             f == Places(Len(s), T)
             g == Places(n, A)
             k == [i \in 1..Len(f) |-> e[f[i]]]
  <2>1. n \in Nat /\ DOMAIN told = 1..n /\ Len(s) \in Nat /\ DOMAIN s = 1..Len(s)
    BY <1>1
  <2>2. S \in SUBSET (1..n) /\ \A i \in 1..n : Talks(told[i]) => i \in S
    <3>1. AcceptedPlaces(told, S) /\ \A i \in 1..n : Talks(told[i]) => i \in S
      BY <2>1, FirstPassKeeps, SecondPassKeeps
    <3> QED BY <3>1 DEF AcceptedPlaces
  <2> HIDE DEF S
  <2>3. /\ Enumerates(e, S) /\ Len(s) = Len(e)
        /\ \A i \in 1..Len(s) : e[i] \in 1..n /\ e[i] \in S /\ s[i] = told[e[i]]
    BY <2>2, SelectedInOrder
  <2>4. A \in SUBSET (1..n) /\ T \in SUBSET (1..Len(s))
    BY <2>1
  <2>5. /\ Enumerates(f, T) /\ Len(f) \in Nat /\ DOMAIN f = 1..Len(f)
        /\ Selected(s, T) \in Seq(StoredMessages) /\ Len(Selected(s, T)) = Len(f)
        /\ \A i \in 1..Len(f) : f[i] \in 1..Len(s) /\ f[i] \in T /\ Selected(s, T)[i] = s[f[i]]
    <3> HIDE DEF T, s
    <3> QED BY <1>1, <2>4, SelectedInOrder
  <2>6. /\ Enumerates(g, A) /\ Len(g) \in Nat
        /\ Selected(told, A) \in Seq(StoredMessages) /\ Len(Selected(told, A)) = Len(g)
        /\ \A i \in 1..Len(g) : Selected(told, A)[i] = told[g[i]]
    <3> HIDE DEF A
    <3> QED BY <2>4, SelectedInOrder
  <2>7. \A i : (i \in A <=> i \in 1..n /\ Talks(told[i])) /\ (i \in T <=> i \in 1..Len(s) /\ Talks(s[i]))
    BY <2>1
  <2> HIDE DEF A, T, s, e, f, g
  <2>8. /\ \A x \in S : \E i \in 1..Len(s) : e[i] = x
        /\ \A i, j \in 1..Len(s) : i < j <=> e[i] < e[j]
    BY <2>3 DEF Enumerates
  <2>9. /\ \A x \in T : \E i \in 1..Len(f) : f[i] = x
        /\ \A i, j \in 1..Len(f) : i < j <=> f[i] < f[j]
    BY <2>5 DEF Enumerates
  <2>10. k \in Seq(Nat) /\ Len(k) = Len(f) /\ \A i \in 1..Len(f) : k[i] = e[f[i]]
    <3>1. \A i \in 1..Len(f) : e[f[i]] \in Nat
      BY <2>1, <2>3, <2>5
    <3> QED BY <2>5, <3>1
  <2> HIDE DEF k
  <2>11. \A i \in 1..Len(f) : k[i] \in A
    BY <2>3, <2>5, <2>7, <2>10
  <2>12. ASSUME NEW x \in A PROVE \E i \in 1..Len(f) : k[i] = x
    <3>1. PICK j \in 1..Len(s) : e[j] = x
      BY <2>2, <2>7, <2>8
    <3>2. j \in T
      BY <2>3, <2>7, <3>1
    <3>3. PICK i \in 1..Len(f) : f[i] = j
      BY <2>9, <3>2
    <3> QED BY <2>10, <3>1, <3>3
  <2>13. ASSUME NEW i \in 1..Len(f), NEW j \in 1..Len(f) PROVE i < j <=> k[i] < k[j]
    <3>1. i < j <=> f[i] < f[j]
      BY <2>9
    <3>2. f[i] < f[j] <=> e[f[i]] < e[f[j]]
      BY <2>5, <2>8
    <3> QED BY <2>10, <3>1, <3>2
  <2>14. Enumerates(k, A)
    BY <2>10, <2>11, <2>12, <2>13 DEF Enumerates
  <2>15. k = g
    BY <2>6, <2>14, EnumerationUnique
  <2>16. /\ Len(f) = Len(g)
         /\ \A i \in 1..Len(f) : Selected(s, T)[i] = Selected(told, A)[i]
    <3>1. Len(f) = Len(g)
      BY <2>10, <2>15
    <3>2. ASSUME NEW i \in 1..Len(f) PROVE Selected(s, T)[i] = Selected(told, A)[i]
      <4>1. Selected(s, T)[i] = s[f[i]] /\ s[f[i]] = told[e[f[i]]]
        BY <2>3, <2>5
      <4>2. Selected(told, A)[i] = told[g[i]] /\ g[i] = e[f[i]]
        BY <2>6, <2>10, <2>15, <3>1
      <4> QED BY <4>1, <4>2
    <3> QED BY <3>1, <3>2
  <2>17. Selected(s, T) = Selected(told, A)
    BY <2>5, <2>6, <2>16, SeqEqual
  <2> QED BY <2>17 DEF T, A
<1> QED BY <1>1, <1>2, <1>3, <1>4 DEF NothingWasted

\* A split at a place of the history loses nothing.
LEMMA TwoPartsMakeTheWhole ==
  ASSUME NEW M, NEW h \in Seq(M), NEW mid \in 1..Len(h)
  PROVE  /\ SubSeq(h, 1, mid - 1) \o SubSeq(h, mid, Len(h)) = h
         /\ SubSeq(h, mid, Len(h)) # <<>> /\ SubSeq(h, mid, Len(h))[1] = h[mid]
<1> DEFINE n == Len(h)
           p == SubSeq(h, 1, mid - 1)
           q == SubSeq(h, mid, n)
           all == p \o q
<1>1. n \in Nat /\ mid \in Nat /\ 1 <= mid /\ mid <= n /\ \A i \in 1..n : h[i] \in M
  OBVIOUS
<1>2. p \in Seq(M) /\ Len(p) = mid - 1 /\ \A i \in 1..mid - 1 : p[i] = h[i]
  <2>1. /\ p \in Seq(M) /\ Len(p) = IF 1 <= mid - 1 THEN mid - 1 - 1 + 1 ELSE 0
        /\ \A i \in 1..mid - 1 - 1 + 1 : p[i] = h[1 + i - 1]
    BY <1>1, SubSeqProperties
  <2> HIDE DEF p
  <2>2. \A i \in 1..mid - 1 : i \in 1..mid - 1 - 1 + 1 /\ 1 + i - 1 = i
    BY <1>1
  <2>3. \A i \in 1..mid - 1 : p[i] = h[i]
    BY <2>1, <2>2
  <2> QED BY <1>1, <2>1, <2>3
<1>3. q \in Seq(M) /\ Len(q) = n - mid + 1 /\ \A i \in 1..n - mid + 1 : q[i] = h[mid + i - 1]
  <2>1. /\ q \in Seq(M) /\ Len(q) = IF mid <= n THEN n - mid + 1 ELSE 0
        /\ \A i \in 1..n - mid + 1 : q[i] = h[mid + i - 1]
    BY <1>1, SubSeqProperties
  <2> HIDE DEF q
  <2> QED BY <1>1, <2>1
<1> HIDE DEF p, q
<1>4. /\ all \in Seq(M) /\ Len(all) = Len(p) + Len(q)
      /\ \A i \in 1..Len(p) + Len(q) : all[i] = IF i <= Len(p) THEN p[i] ELSE q[i - Len(p)]
  BY <1>2, <1>3, ConcatProperties
<1> HIDE DEF all, n
<1>5. Len(all) = n
  BY <1>1, <1>2, <1>3, <1>4
<1>6. ASSUME NEW i \in 1..n PROVE all[i] = h[i]
  <2>1. all[i] = IF i <= Len(p) THEN p[i] ELSE q[i - Len(p)]
    BY <1>4, <1>5
  <2>2. CASE i <= mid - 1
    BY <1>1, <1>2, <2>1, <2>2
  <2>3. CASE ~(i <= mid - 1)
    <3>1. i - (mid - 1) \in 1..n - mid + 1 /\ mid + (i - (mid - 1)) - 1 = i
      BY <1>1, <2>3
    <3>2. q[i - (mid - 1)] = h[mid + (i - (mid - 1)) - 1]
      BY <1>3, <3>1
    <3> QED BY <1>2, <2>1, <2>3, <3>1, <3>2
  <2> QED BY <2>2, <2>3
<1>7. all = h
  BY <1>4, <1>5, <1>6, SeqEqual DEF n
<1>8. q # <<>> /\ q[1] = h[mid]
  <2>1. 1 \in 1..n - mid + 1 /\ mid + 1 - 1 = mid /\ Len(q) # 0
    BY <1>1, <1>3
  <2>2. q[1] = h[mid + 1 - 1]
    BY <1>3, <2>1
  <2> QED BY <1>3, <2>1, <2>2
<1> QED BY <1>7, <1>8 DEF all, p, q, n

\* Every set of places below a bound that is not empty has a last one.
LEMMA LastPlaceExists ==
  ASSUME NEW n \in Nat, NEW U \in SUBSET (1..n), U # {}
  PROVE  \E i \in U : \A j \in U : j <= i
<1> DEFINE T == {n - i : i \in U}
<1>1. T \in SUBSET Nat /\ T # {} /\ \A i \in U : i \in Nat /\ i <= n
  <2>1. \A i \in U : i \in 1..n
    OBVIOUS
  <2>2. \A i \in U : i \in Nat /\ i <= n /\ n - i \in Nat
    BY <2>1
  <2> QED BY <2>2
<1>2. PICK t \in T : \A r \in T : t <= r
  <2> HIDE DEF T
  <2> QED BY <1>1, LeastExists
<1>3. PICK i \in U : t = n - i
  OBVIOUS
<1>4. ASSUME NEW j \in U PROVE j <= i
  <2>1. n - j \in T /\ i \in Nat /\ j \in Nat
    BY <1>1
  <2>2. t <= n - j
    BY <1>2, <2>1
  <2> QED BY <1>3, <2>1, <2>2
<1> QED BY <1>4

\* The split of a long history, whatever its messages.
LEMMA SplitIsAtUser == ASSUME told \in Seq(StoredMessages) PROVE SplitAtUser
<1> DEFINE n == Len(told)
           middle == n \div 2 + 1
           mid == findNearestUserMessage(told, middle)
           before == Users(told, 1..middle)
           after == Users(told, middle..n)
<1> SUFFICES ASSUME n > 1
             PROVE  /\ Halves(told)[1] \o Halves(told)[2] = told
                    /\ Users(told, DOMAIN told) # {} => Halves(told)[2] # <<>> /\ Halves(told)[2][1].role = "user"
  BY DEF SplitAtUser
<1>1. n \in Nat /\ DOMAIN told = 1..n /\ middle \in 1..n
  OBVIOUS
<1> HIDE DEF middle
<1>2. mid \in 1..n /\ (Users(told, DOMAIN told) # {} => told[mid].role = "user")
  <2>1. before \in SUBSET (1..n) /\ after \in SUBSET (1..n)
    BY <1>1 DEF Users
  <2>2. CASE before # {}
    <3>1. \E i \in before : \A j \in before : j <= i
      <4> HIDE DEF before, n
      <4> QED BY <1>1, <2>1, <2>2, LastPlaceExists
    <3>2. mid = CHOOSE i \in before : \A j \in before : j <= i
      BY <2>2 DEF findNearestUserMessage
    <3>3. mid \in before
      BY <3>1, <3>2
    <3> QED BY <2>1, <3>3 DEF Users
  <2>3. CASE before = {} /\ after # {}
    <3>1. after \in SUBSET Nat
      BY <1>1, <2>1
    <3>2. \E i \in after : \A j \in after : i <= j
      <4> HIDE DEF after
      <4> QED BY <2>3, <3>1, LeastExists
    <3>3. mid = CHOOSE i \in after : \A j \in after : i <= j
      BY <2>3 DEF findNearestUserMessage
    <3>4. mid \in after
      BY <3>2, <3>3
    <3> QED BY <2>1, <3>4 DEF Users
  <2>4. CASE before = {} /\ after = {}
    <3>1. mid = middle
      BY <2>4 DEF findNearestUserMessage
    <3>2. \A i \in 1..n : i \in 1..middle \/ i \in middle..n
      BY <1>1
    <3>3. Users(told, DOMAIN told) = {}
      BY <1>1, <2>4, <3>2 DEF Users
    <3> QED BY <1>1, <3>1, <3>3
  <2> QED BY <2>2, <2>3, <2>4
<1> DEFINE first == SubSeq(told, 1, mid - 1)
           second == SubSeq(told, mid, n)
<1>3. Halves(told) = <<first, second>>
  BY DEF Halves, middle
<1> HIDE DEF mid
<1>4. Halves(told)[1] = first /\ Halves(told)[2] = second
  <2> HIDE DEF first, second
  <2> QED BY <1>3
<1>5. /\ SubSeq(told, 1, mid - 1) \o SubSeq(told, mid, n) = told
      /\ SubSeq(told, mid, n) # <<>> /\ SubSeq(told, mid, n)[1] = told[mid]
  BY <1>2, TwoPartsMakeTheWhole
<1> HIDE DEF n
<1> QED BY <1>2, <1>4, <1>5

Recordings == {"speech", "noise", "other", "gone"}

\* The annotations and the recordings, when none of these is gone.
LEMMA VoicesAreAligned == ASSUME media \in Seq(Recordings), marks \in Nat PROVE VoicesAligned
<1> SUFFICES ASSUME \A i \in DOMAIN media : media[i] # "gone",
                    NEW k \in DOMAIN Voices(media, marks)
             PROVE  LET audio == Places(Len(media), {i \in DOMAIN media : media[i] # "other"})
                    IN  Voices(media, marks)[k] = IF k <= Len(audio) THEN audio[k] ELSE 0
  BY DEF VoicesAligned
<1>1. \A i \in DOMAIN media : media[i] \in Recordings
  OBVIOUS
<1>2. Audio(media) = {i \in DOMAIN media : media[i] # "other"}
  BY <1>1 DEF Audio, Recordings
<1>3. Texts(media) = Places(Len(media), {i \in DOMAIN media : media[i] # "other"})
  BY <1>2 DEF Texts
<1> QED BY <1>3 DEF Voices

PromptType == told \in Seq(StoredMessages) /\ media \in Seq(Recordings) /\ marks \in Nat

\* Whatever a crash, a race, a compression or a truncation leaves of a history of any length,
\* BuildMessages makes of it a list that a strict provider accepts and wastes nothing of what it
\* would have accepted; a split for a summary is at a request and loses nothing; and each
\* annotation shows its own recording (sanitizeHistoryForProvider, summarizeSession,
\* transcribeAudioInMessage).
THEOREM PromptsAreSound == PromptSpec => []PromptSound
<1>1. PromptInit => PromptType
  BY DEF PromptInit, PromptType
<1>2. PromptType /\ [PromptNext]_promptVars => PromptType'
  <2> SUFFICES ASSUME PromptType, [PromptNext]_promptVars PROVE PromptType'
    OBVIOUS
  <2>1. CASE Tell
    BY <2>1 DEF PromptType, Tell
  <2>2. CASE Attach
    BY <2>2 DEF PromptType, Attach, Recordings
  <2>3. CASE Annotate
    BY <2>3 DEF PromptType, Annotate
  <2>4. CASE UNCHANGED promptVars
    BY <2>4 DEF PromptType, promptVars
  <2> QED BY <2>1, <2>2, <2>3, <2>4 DEF PromptNext
<1>3. PromptType => PromptSound
  <2> SUFFICES ASSUME PromptType PROVE PromptSound
    OBVIOUS
  <2>1. PromptAccepted
    BY PromptsAccepted DEF PromptType, PromptAccepted
  <2> QED BY <2>1, NothingIsWasted, SplitIsAtUser, VoicesAreAligned DEF PromptType, PromptSound
<1> QED BY <1>1, <1>2, <1>3, PTL DEF PromptSpec
=============================================================================

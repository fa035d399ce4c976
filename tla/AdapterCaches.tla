--------------------------- MODULE AdapterCaches ----------------------------
(***************************************************************************)
(* What the adapters remember of messages and rooms: the ring of WeCom     *)
(* (wecom/dedupe.go) and OneBot (onebot.go, isDuplicate), the dated map of *)
(* QQ with its janitor (qq.go), and Matrix's cache of which rooms are      *)
(* groups.  All are bounded, and forget the oldest entry when they are     *)
(* full.                                                                   *)
(***************************************************************************)
EXTENDS Integers, Sequences, FiniteSets

CONSTANTS Ids,        \* message ids; also the rooms
          Size,       \* wecomMaxProcessedMessages, dedupSize, dedupMaxSize, roomKindCacheMaxEntries
          EntryTTL,   \* dedupTTL, roomKindCacheTTL
          MaxNow,     \* bound: how long the clock runs
          MaxSeen     \* bound: deliveries

NoName == ""   \* an empty slot, and no entry to evict
ASSUME CachesAssumption ==
    /\ Size \in Nat \ {0} /\ EntryTTL \in Nat \ {0} /\ MaxNow \in Nat /\ MaxSeen \in Nat
    /\ NoName \notin Ids

VARIABLES time,
          slots, idx, msgs,   \* MessageDeduplicator: the slots, the next one, and the set
          dedup,             \* qq: the ids with their time
          rooms,             \* matrix: room -> when its kind was learnt
          ringLog, qqLog     \* the deliveries each table let pass, newest last, with their time
tableVars == <<time, slots, idx, msgs, dedup, rooms, ringLog, qqLog>>

CachesInit ==
    /\ time = 0 /\ slots = [i \in 0..Size - 1 |-> NoName] /\ idx = 0 /\ msgs = {}
    /\ dedup = <<>> /\ rooms = <<>> /\ ringLog = <<>> /\ qqLog = <<>>

MarkMessageProcessed(m) ==
    IF m \in msgs THEN UNCHANGED <<slots, idx, msgs, ringLog>>
    ELSE /\ msgs' = (msgs \ {slots[idx]}) \cup {m}
         /\ slots' = [slots EXCEPT ![idx] = m] /\ idx' = (idx + 1) % Size
         /\ ringLog' = Append(ringLog, m)

Without(f, ks) == [k \in DOMAIN f \ ks |-> f[k]]
Entered(f, k, v)  == [x \in DOMAIN f \cup {k} |-> IF x = k THEN v ELSE f[x]]
Oldest(f)      == {k \in DOMAIN f : \A o \in DOMAIN f : f[k] <= f[o]}

\* a table that makes room before it knows that the id is new
IsDuplicate_EvictsFirst(m) ==
    \E old \in Oldest(dedup) \cup {NoName} :
        /\ (old = NoName) = (Cardinality(DOMAIN dedup) < Size)
        /\ LET kept == Without(dedup, {old})
           IN  IF m \in DOMAIN kept /\ time - kept[m] < EntryTTL THEN dedup' = kept /\ UNCHANGED qqLog
               ELSE dedup' = Entered(kept, m, time) /\ qqLog' = Append(qqLog, <<m, time>>)
IsDuplicate(m) ==
    IF m \in DOMAIN dedup /\ time - dedup[m] < EntryTTL THEN UNCHANGED <<dedup, qqLog>>
    ELSE \E old \in Oldest(dedup) \cup {NoName} :
            /\ (old = NoName) = (Cardinality(DOMAIN dedup) < Size)
            /\ dedup' = Entered(Without(dedup, {old}), m, time) /\ qqLog' = Append(qqLog, <<m, time>>)

\* A platform delivers a message, perhaps once more; no two at the same nanosecond.
Deliver(m) ==
    /\ \A d \in DOMAIN dedup : dedup[d] < time
    /\ Len(ringLog) < MaxSeen /\ Len(qqLog) < MaxSeen
    /\ MarkMessageProcessed(m) /\ IsDuplicate(m)
    /\ UNCHANGED <<time, rooms>>
DedupJanitor ==
    /\ dedup' = Without(dedup, {m \in DOMAIN dedup : time - dedup[m] >= EntryTTL})
    /\ UNCHANGED <<time, slots, idx, msgs, rooms, ringLog, qqLog>>

TooOld == {r \in DOMAIN rooms : rooms[r] + EntryTTL <= time}
\* isGroupRoom: the cache, or the platform; nothing is kept of a request that fails.
IsGroupRoom(r) ==
    /\ IF r \in DOMAIN rooms /\ r \notin TooOld THEN UNCHANGED rooms
       ELSE \/ rooms' = Without(rooms, {r})
            \/ LET fresh == Without(rooms, TooOld)
               IN  \E old \in Oldest(fresh) \cup {NoName} :
                       /\ (old = NoName) = (Cardinality(DOMAIN fresh) < Size)
                       /\ rooms' = Entered(Without(fresh, {old}), r, time)
    /\ UNCHANGED <<time, slots, idx, msgs, dedup, ringLog, qqLog>>
RoomJanitor ==
    /\ rooms' = Without(rooms, TooOld)
    /\ UNCHANGED <<time, slots, idx, msgs, dedup, ringLog, qqLog>>

\* Time passes.
CacheTick ==
    /\ time < MaxNow /\ time' = time + 1
    /\ UNCHANGED <<slots, idx, msgs, dedup, rooms, ringLog, qqLog>>

CachesNext ==
    \/ CacheTick \/ DedupJanitor \/ RoomJanitor
    \/ \E m \in Ids : Deliver(m) \/ IsGroupRoom(m)
CachesSpec == CachesInit /\ [][CachesNext]_tableVars
-----------------------------------------------------------------------------
LastPassed(s, n) == {s[i] : i \in {j \in DOMAIN s : j > Len(s) - n}}

\* The ring knows exactly the last Size messages that it let pass: none of them is
\* handled again, and one that is older is not refused (dedupe.go:31, onebot.go:1077).
RingRemembers == msgs = LastPassed(ringLog, Size)

\* QQ knows a message that is younger than the limit unless Size others passed since:
\* neither the janitor nor a full table opens the door to a second delivery
\* (qq.go:531, 559), and the tables stay within their size.
QQRemembers ==
    /\ \A e \in LastPassed(qqLog, Size) : time - e[2] < EntryTTL => e[1] \in DOMAIN dedup
    /\ Cardinality(DOMAIN dedup) <= Size /\ Cardinality(DOMAIN rooms) <= Size

\* The two of above, of MessageDeduplicator, isDuplicate, dedupJanitor and roomKindCache.
TablesSound == RingRemembers /\ QQRemembers
=============================================================================

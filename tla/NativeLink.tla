----------------------------- MODULE NativeLink -----------------------------
(***************************************************************************)
(* pkg/channels/whatsapp_native/whatsapp_native.go: the client tells of a  *)
(* lost connection by an event, whose handler starts a goroutine that      *)
(* connects again; Stop must neither miss one nor close the store under    *)
(* it.  The flags stopping and reconnecting and the wait group are guarded *)
(* by one mutex.                                                           *)
(***************************************************************************)
EXTENDS Integers, FiniteSets

CONSTANTS Losses   \* bound: how often the connection is lost

ASSUME NativeAssumption == Losses \in Nat

Rec == 1..Losses   \* the goroutines that reconnect

VARIABLES
    paired,      \* the device is known; otherwise a goroutine shows QR codes
    life,        \* where Start and Stop are
    stopping, reconnecting, runDone,   \* the two flags, and that runCtx is cancelled
    counted,          \* the goroutines that the wait group counts
    rec,         \* rec[k]: where the k-th reconnection is
    field,       \* c.client is set
    store,       \* the container is open
    connected,   \* the client has a connection
    losses,      \* connections lost so far
    notice,       \* Disconnected events that the handler has not seen yet
    timedOut     \* Stop went on although the wait group was not empty
nativeVars == <<paired, life, stopping, reconnecting, runDone, counted, rec, field, store, connected, losses, notice, timedOut>>

NativeInit ==
    /\ paired \in BOOLEAN /\ life = "opening" /\ stopping = FALSE /\ reconnecting = FALSE /\ runDone = FALSE
    /\ counted = {} /\ rec = [k \in Rec |-> "none"] /\ field = FALSE /\ store = FALSE /\ connected = FALSE
    /\ losses = 0 /\ notice = 0 /\ timedOut = FALSE

\* Start: the store and the client; then the connection, and the QR goroutine.
Opens ==
    /\ life = "opening"
    /\ \/ life' = "connecting" /\ field' = TRUE /\ store' = TRUE
       \/ life' = "failed" /\ UNCHANGED <<field, store>>
    /\ UNCHANGED <<paired, stopping, reconnecting, runDone, counted, rec, connected, losses, notice, timedOut>>
Connects ==
    /\ life = "connecting" /\ connected' = TRUE /\ life' = "up"
    /\ counted' = IF paired THEN counted ELSE counted \cup {0}
    /\ UNCHANGED <<paired, stopping, reconnecting, runDone, rec, field, store, losses, notice, timedOut>>
StartFails ==
    /\ life = "connecting" /\ life' = "failed" /\ runDone' = TRUE /\ connected' = FALSE
    /\ field' = FALSE /\ store' = FALSE
    /\ UNCHANGED <<paired, stopping, reconnecting, counted, rec, losses, notice, timedOut>>
QREnds ==
    /\ 0 \in counted /\ counted' = counted \ {0}   \* paired, or runCtx cancelled
    /\ UNCHANGED <<paired, life, stopping, reconnecting, runDone, rec, field, store, connected, losses, notice, timedOut>>

Loses ==
    /\ connected /\ losses < Losses /\ losses' = losses + 1 /\ connected' = FALSE /\ notice' = notice + 1
    /\ UNCHANGED <<paired, life, stopping, reconnecting, runDone, counted, rec, field, store, timedOut>>
EventHandler ==
    /\ notice > 0 /\ notice' = notice - 1
    /\ IF reconnecting \/ stopping THEN UNCHANGED <<reconnecting, counted, rec>>
       ELSE LET k == CHOOSE j \in Rec : rec[j] = "none"
            IN  reconnecting' = TRUE /\ counted' = counted \cup {k} /\ rec' = [rec EXCEPT ![k] = "check"]
    /\ UNCHANGED <<paired, life, stopping, runDone, field, store, connected, losses, timedOut>>

\* reconnectWithBackoff: the context, the client, Connect, and a pause before the next try.
Reconnect(k) ==
    \/ /\ rec[k] = "check"
       /\ rec' = [rec EXCEPT ![k] = IF runDone \/ ~field THEN "reset" ELSE "connect"]
       /\ UNCHANGED <<reconnecting, counted, connected>>
    \/ /\ rec[k] = "connect" /\ ~connected /\ connected' = TRUE /\ rec' = [rec EXCEPT ![k] = "reset"]
       /\ UNCHANGED <<reconnecting, counted>>
    \/ /\ rec[k] = "connect" /\ rec' = [rec EXCEPT ![k] = IF runDone THEN "reset" ELSE "check"]
       /\ UNCHANGED <<reconnecting, counted, connected>>
    \/ /\ rec[k] = "reset" /\ reconnecting' = FALSE /\ rec' = [rec EXCEPT ![k] = "done"]
       /\ UNCHANGED <<counted, connected>>
    \/ /\ rec[k] = "done" /\ k \in counted /\ counted' = counted \ {k} /\ UNCHANGED <<reconnecting, rec, connected>>
ReconnectStep(k) ==
    /\ Reconnect(k)
    /\ UNCHANGED <<paired, life, stopping, runDone, field, store, losses, notice, timedOut>>

StopMarks ==
    /\ life \in {"up", "failed"} /\ life' = "marked" /\ stopping' = TRUE
    /\ UNCHANGED <<paired, reconnecting, runDone, counted, rec, field, store, connected, losses, notice, timedOut>>
StopDisconnects ==
    /\ life = "marked" /\ life' = "waiting" /\ runDone' = TRUE /\ connected' = (connected /\ ~field)
    /\ UNCHANGED <<paired, stopping, reconnecting, counted, rec, field, store, losses, notice, timedOut>>
\* a Stop that does not wait
CloseStore_AtOnce ==
    /\ life = "waiting" /\ life' = "stopped" /\ UNCHANGED timedOut /\ field' = FALSE /\ store' = FALSE
    /\ UNCHANGED <<paired, stopping, reconnecting, runDone, counted, rec, connected, losses, notice>>
\* All goroutines are done, or the context of the caller is.
CloseStore ==
    /\ life = "waiting" /\ life' = "stopped" /\ timedOut' = (counted # {}) /\ field' = FALSE /\ store' = FALSE
    /\ UNCHANGED <<paired, stopping, reconnecting, runDone, counted, rec, connected, losses, notice>>

NativeNext ==
    \/ Opens \/ Connects \/ StartFails \/ QREnds \/ Loses \/ EventHandler
    \/ StopMarks \/ StopDisconnects \/ CloseStore
    \/ \E k \in Rec : ReconnectStep(k)
NativeFairness ==
    /\ WF_nativeVars(EventHandler) /\ WF_nativeVars(StopDisconnects) /\ WF_nativeVars(CloseStore)
    /\ \A k \in Rec : WF_nativeVars(ReconnectStep(k))
NativeSpec == NativeInit /\ [][NativeNext]_nativeVars /\ NativeFairness
-----------------------------------------------------------------------------
StoreOpenBelow == (\E k \in Rec : rec[k] = "connect") => store \/ timedOut
\* While a goroutine connects, the store that it uses is open, unless Stop ran out of time;
\* and once Stop waits, the wait group only gets smaller (whatsapp_native.go:216):
\* eventHandler, reconnectWithBackoff and Stop.
NativeSound ==
    [][/\ StoreOpenBelow'
       /\ life \in {"waiting", "stopped"} => counted' \subseteq counted]_nativeVars
=============================================================================

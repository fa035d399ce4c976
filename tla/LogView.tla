------------------------------ MODULE LogView ------------------------------
(***************************************************************************)
(* The gateway's log as the web interface shows it: a ring of the last     *)
(* lines of the running gateway (LogBuffer in web/backend/api/log.go), the *)
(* request for the lines after an offset (gatewayLogsData in gateway.go),  *)
(* and the page that asks again and again (use-gateway-logs.ts).  The      *)
(* request looks at the buffer twice, each time under its lock.            *)
(***************************************************************************)
EXTENDS Integers, Sequences, SequencesExt
CONSTANTS Capacity,   \* LogBuffer.cap
          MaxLines,   \* bound: lines of a run
          MaxRuns     \* bound: runs of the gateway, and clears
ASSUME LogAssumption == Capacity \in Nat \ {0} /\ MaxLines \in Nat /\ MaxRuns \in Nat
VARIABLES ring,      \* LogBuffer.lines: a line is its run and its number in the run
          total, runID,
          page,      \* what the page has: lines, offset, run and syncToken
          asked      \* the request that is answered: "none", "run", "lines" or "answer" is next
logVars == <<ring, total, runID, page, asked>>

NoRequest == [next |-> "none", offset |-> 0, run |-> 0, token |-> 0, lines |-> <<>>, total |-> 0, got |-> 0]
LogInit ==
    /\ ring = <<>> /\ total = 0 /\ runID = 0
    /\ page = [lines |-> <<>>, offset |-> 0, run |-> -1, token |-> 0]
    /\ asked = NoRequest
\* a ring that is one place further than the next line
AppendLine_OneOff ==
    /\ runID > 0 /\ total < MaxLines
    /\ ring' = IF Len(ring) < Capacity THEN Append(ring, <<runID, total + 1>>)
               ELSE [ring EXCEPT ![((total + 1) % Capacity) + 1] = <<runID, total + 1>>]
    /\ total' = total + 1 /\ UNCHANGED <<runID, page, asked>>
\* scanPipe and Append: the oldest line makes room
AppendLine ==
    /\ runID > 0 /\ total < MaxLines
    /\ ring' = IF Len(ring) < Capacity THEN Append(ring, <<runID, total + 1>>)
               ELSE [ring EXCEPT ![(total % Capacity) + 1] = <<runID, total + 1>>]
    /\ total' = total + 1 /\ UNCHANGED <<runID, page, asked>>
ResetRing == runID < MaxRuns /\ ring' = <<>> /\ total' = 0 /\ runID' = runID + 1
\* a new gateway process (startGatewayLocked)
Reset == ResetRing /\ UNCHANGED <<page, asked>>
\* the page's own clear: its later lines are those of the new run
Clear ==
    /\ ResetRing
    /\ page' = [lines |-> <<>>, offset |-> 0, run |-> runID + 1, token |-> page.token + 1]
    /\ UNCHANGED asked
AskLogs ==
    /\ asked.next = "none"
    /\ asked' = [NoRequest EXCEPT !.next = "run", !.offset = page.offset, !.run = page.run, !.token = page.token]
    /\ UNCHANGED <<ring, total, runID, page>>
\* gatewayLogsData: RunID; the offset of another run is 0
SeeRun ==
    /\ asked.next = "run"
    /\ asked' = IF runID = 0 THEN [asked EXCEPT !.next = "answer"]
                ELSE [asked EXCEPT !.next = "lines", !.offset = IF asked.run # runID THEN 0 ELSE asked.offset]
    /\ UNCHANGED <<ring, total, runID, page>>
\* LinesSince: what is after the offset, or all that is left of it
LinesSince(offset) ==
    LET new == Min({total - offset, Len(ring)})
    IN  IF offset >= total THEN <<>>
        ELSE IF total <= Capacity THEN SubSeq(ring, Len(ring) - new + 1, Len(ring))
        ELSE [i \in 1..new |-> ring[((total - new + i - 1) % Capacity) + 1]]
SeeLines ==
    /\ asked.next = "lines"
    /\ asked' = [asked EXCEPT !.next = "answer", !.lines = LinesSince(asked.offset), !.total = total, !.got = runID]
    /\ UNCHANGED <<ring, total, runID, page>>
\* the page drops an answer to what it asked before a clear; another run replaces what it shows
TakeAnswer ==
    /\ asked.next = "answer" /\ asked' = NoRequest
    /\ page' = IF asked.token # page.token THEN page
               ELSE IF asked.got # asked.run
                    THEN [page EXCEPT !.run = asked.got, !.lines = asked.lines, !.offset = asked.total]
               ELSE IF asked.lines # <<>>
                    THEN [page EXCEPT !.lines = page.lines \o asked.lines, !.offset = asked.total]
               ELSE page
    /\ UNCHANGED <<ring, total, runID>>
LogNext == AppendLine \/ Reset \/ Clear \/ AskLogs \/ SeeRun \/ SeeLines \/ TakeAnswer
LogSpec == LogInit /\ [][LogNext]_logVars
-----------------------------------------------------------------------------
\* The page shows lines of one run in the order they were written, and a line is missing between two
\* of them only if the buffer had no room to keep it until the page asked (LinesSince: "If offset is
\* too old (evicted), all buffered lines are returned").
ShownInOrder ==
    \A i \in 1..Len(page.lines) - 1 :
        LET this == page.lines[i]  next == page.lines[i + 1]
        IN  /\ this[1] = next[1] /\ this[2] < next[2]
            /\ next[2] > this[2] + 1 => Len(page.lines) - i >= Capacity
\* What the page shows of a run starts with the first line of the run that the buffer still had ("If
\* runID changed, reset offset to get all logs from new run").  (Does not hold: RunID and LinesSince
\* lock the buffer one after the other, and a reset in between leaves the offset of the run before.)
ShownFromStart ==
    page.lines # <<>> /\ Len(page.lines) < Capacity => page.lines[1][2] = 1
=============================================================================

-------------------------- MODULE ProviderFallback --------------------------
(***************************************************************************)
(* The fallback chain (pkg/providers/fallback.go), its cooldowns           *)
(* (cooldown.go), the classification of errors (error_classifier.go), the  *)
(* parsing of model names (model_ref.go), and the retries the agent loop   *)
(* puts around the chain.  Calls of several turns run at once and share    *)
(* the cooldowns.  Time is in seconds.                                     *)
(***************************************************************************)
EXTENDS Integers, Sequences, FiniteSets, SequencesExt
CONSTANTS Calls,     \* turns that call the model
          Configs,   \* configured models, primary first: sequences of <<provider, model>>, "" for none
          Errors,    \* what a provider may answer, see Wanted
          Instants   \* bound: the instants at which things happen

ASSUME ChainAssumption == Instants \subseteq Nat

VARIABLES now, entry,    \* CooldownTracker: provider -> cooldownEntry
          call,          \* what each call is at
          billed         \* provider -> when it last refused for billing, and has not answered since
chainVars == <<now, entry, call, billed>>

Reasons == {"auth", "rate_limit", "billing", "timeout", "format"}
\* An error: one of the two context errors or a text, with the first number that
\* looks like a status, and the groups of patterns its text matches.
Groups == {"image", "rate", "overloaded", "billing", "timeout", "auth", "format"}

ClassifyByStatus(s) ==
    CASE s \in {401, 403} -> "auth"
      [] s = 402 -> "billing"
      [] s = 429 -> "rate_limit"
      [] s = 400 -> "format"
      [] s \in {408, 500, 502, 503, 521, 522, 523, 524, 529} -> "timeout"
      [] OTHER -> ""
\* the groups are tried in this order, and overloaded counts as a rate limit
ClassifyByMessage(words) ==
    CASE words \cap {"rate", "overloaded"} # {} -> "rate_limit"
      [] "billing" \in words -> "billing"
      [] "timeout" \in words -> "timeout"
      [] "auth" \in words -> "auth"
      [] "format" \in words -> "format"
      [] OTHER -> ""
\* the reason, "" when the error is the user's abort or cannot be told
ClassifyError(e) ==
    CASE e.is = "canceled" -> ""
      [] e.is = "deadline" -> "timeout"
      [] "image" \in e.words -> "format"
      [] ClassifyByStatus(e.status) # "" -> ClassifyByStatus(e.status)
      [] OTHER -> ClassifyByMessage(e.words)
IsRetriable(reason) == reason # "format"
\* the loop's own test, on the text
IsTimeoutError(e) == e.is = "deadline" \/ "timeout" \in e.words

Aliases == [gpt |-> "openai", claude |-> "anthropic", glm |-> "zhipu", google |-> "gemini", qwen |-> "qwen-portal"]
NormalizeProvider(p) == IF p \in DOMAIN Aliases THEN Aliases[p] ELSE p
ParseModelRef(raw, default) ==
    [provider |-> NormalizeProvider(IF raw[1] = "" THEN default ELSE raw[1]), model |-> raw[2]]
\* empty models are passed over, and a model that is named twice is kept once
ResolveCandidates(raws, default) ==
    FoldLeft(LAMBDA cs, raw : LET ref == ParseModelRef(raw, default)
                              IN  IF raw[2] = "" \/ ref \in ToSet(cs) THEN cs ELSE Append(cs, ref), <<>>, raws)
Default == "openai"

Minutes(n) == 60 * n
Hours(n) == 3600 * n
FailureWindow == Hours(24)
Least(a, b) == IF a <= b THEN a ELSE b
Most(a, b) == IF a >= b THEN a ELSE b
CalculateStandardCooldown(n) == Least(Hours(1), Minutes(1) * 5 ^ Least(Most(1, n) - 1, 3))
CalculateBillingCooldown(n) == Least(Hours(24), Hours(5) * 2 ^ Least(Most(1, n) - 1, 10))

Unmarked == [r \in Reasons |-> 0]
Fresh == [errors |-> 0, counts |-> Unmarked, cooldownEnd |-> 0, disabledUntil |-> 0, last |-> 0]
Entry(p) == IF p \in DOMAIN entry THEN entry[p] ELSE Fresh
WithEntry(p, e) == [q \in DOMAIN entry \cup {p} |-> IF q = p THEN e ELSE entry[q]]
\* the entry after the counts of a day ago are dropped and this failure is counted
Counted(p, reason) ==
    LET e == Entry(p)
        old == e.last # 0 /\ now - e.last > FailureWindow
        errors == IF old THEN 0 ELSE e.errors
        counts == IF old THEN Unmarked ELSE e.counts
    IN  [e EXCEPT !.errors = errors + 1, !.counts = [counts EXCEPT ![reason] = @ + 1], !.last = now]
\* a tracker with one end for both kinds of refusal
MarkFailure_OneEnd(p, reason) ==
    LET e == Counted(p, reason)
        end == now + (IF reason = "billing" THEN CalculateBillingCooldown(e.counts[reason])
                      ELSE CalculateStandardCooldown(e.errors))
    IN  entry' = WithEntry(p, [e EXCEPT !.cooldownEnd = end, !.disabledUntil = end])
MarkFailure(p, reason) ==
    LET e == Counted(p, reason)
    IN  entry' = WithEntry(p, IF reason = "billing"
                        THEN [e EXCEPT !.disabledUntil = now + CalculateBillingCooldown(e.counts[reason])]
                        ELSE [e EXCEPT !.cooldownEnd = now + CalculateStandardCooldown(e.errors)])
MarkSuccess(p) ==
    entry' = IF p \in DOMAIN entry THEN [entry EXCEPT ![p] = [Fresh EXCEPT !.last = entry[p].last]] ELSE entry
IsAvailable(p) == p \notin DOMAIN entry \/ (entry[p].disabledUntil <= now /\ entry[p].cooldownEnd <= now)

NoCall == [at |-> "idle", cands |-> <<>>, i |-> 1, tried |-> <<>>, cancelled |-> FALSE, retry |-> 0, wakes |-> 0]
ChainInit == now = 1 /\ entry = <<>> /\ call = [c \in Calls |-> NoCall] /\ billed = <<>>
Turn(c, rest) == call' = [call EXCEPT ![c] = rest]
CallEnds(c, how) == Turn(c, [call[c] EXCEPT !.at = how])
Candidate(c) == call[c].cands[call[c].i]
\* the next candidate, with what became of this one
MoveOn(c, outcome) == Turn(c, [call[c] EXCEPT !.i = @ + 1, !.tried = Append(@, outcome), !.at = "pick"])

\* Execute starts, with the candidates the agent was made with
BeginCall(c, raws) ==
    /\ call[c].at = "idle"
    /\ LET cands == ResolveCandidates(raws, Default)
       IN  Turn(c, [NoCall EXCEPT !.at = IF cands = <<>> THEN "none" ELSE "pick", !.cands = cands])
    /\ UNCHANGED <<now, entry, billed>>
\* the turn's context is cancelled, wherever the call is
Cancel(c) ==
    /\ call[c].at \in {"pick", "run", "backoff"} /\ ~call[c].cancelled
    /\ Turn(c, [call[c] EXCEPT !.cancelled = TRUE])
    /\ UNCHANGED <<now, entry, billed>>
\* the head of the loop: stop, give up, pass over a provider that cools, or ask it
Pick(c) ==
    /\ call[c].at = "pick"
    /\ IF call[c].i > Len(call[c].cands) THEN CallEnds(c, "exhausted")
       ELSE IF call[c].cancelled THEN CallEnds(c, "canceled")
       ELSE IF ~IsAvailable(Candidate(c).provider) THEN MoveOn(c, "skipped")
       ELSE CallEnds(c, "run")
    /\ UNCHANGED <<now, entry, billed>>
AnsweredBy(c) ==
    /\ call[c].at = "run"
    /\ MarkSuccess(Candidate(c).provider)
    /\ CallEnds(c, "answered")
    /\ billed' = [p \in DOMAIN billed \ {Candidate(c).provider} |-> billed[p]]
    /\ UNCHANGED now
AttemptFailed(c, e) ==
    /\ call[c].at = "run"
    /\ LET reason == ClassifyError(e)
           p == Candidate(c).provider
           over == IF call[c].cancelled THEN "canceled"
                   ELSE IF reason = "" THEN "unclassified"
                   ELSE IF ~IsRetriable(reason) THEN "rejected" ELSE ""
       IN  IF over # "" THEN CallEnds(c, over) /\ UNCHANGED <<entry, billed>>
           ELSE /\ MarkFailure(p, reason)
                /\ MoveOn(c, IF IsTimeoutError(e) THEN "timeout" ELSE "failed")
                /\ billed' = IF reason # "billing" THEN billed
                             ELSE [q \in DOMAIN billed \cup {p} |-> IF q = p THEN now ELSE billed[q]]
    /\ UNCHANGED now
\* the loop: an exhausted chain whose text tells of a timeout is run again after five or ten seconds
BackOff(c) ==
    /\ call[c].at = "exhausted" /\ call[c].retry < 2 /\ "timeout" \in ToSet(call[c].tried)
    /\ Turn(c, [call[c] EXCEPT !.at = "backoff", !.retry = @ + 1, !.wakes = now + 5 * (call[c].retry + 1)])
    /\ UNCHANGED <<now, entry, billed>>
Retry(c) ==
    /\ call[c].at = "backoff" /\ now >= call[c].wakes
    /\ Turn(c, [call[c] EXCEPT !.at = "pick", !.i = 1, !.tried = <<>>])
    /\ UNCHANGED <<now, entry, billed>>
\* the turn is over; the agent's next one begins
NextTurn(c) ==
    /\ call[c].at \in {"none", "canceled", "answered", "unclassified", "rejected", "exhausted"}
    /\ Turn(c, NoCall)
    /\ UNCHANGED <<now, entry, billed>>
Pass(t) == now < t /\ now' = t /\ UNCHANGED <<entry, call, billed>>

ChainNext ==
    \/ \E c \in Calls : \/ \E raws \in Configs : BeginCall(c, raws)
                        \/ Cancel(c) \/ Pick(c) \/ AnsweredBy(c) \/ BackOff(c) \/ Retry(c) \/ NextTurn(c)
                        \/ \E e \in Errors : AttemptFailed(c, e)
    \/ \E t \in Instants : Pass(t)
ChainSpec == ChainInit /\ [][ChainNext]_chainVars
-----------------------------------------------------------------------------
\* A provider that refuses for billing is left alone for five hours at least, by every
\* call, whatever else it fails with meanwhile: only an answer of a call that was on its
\* way ends that earlier.  (MarkFailure writes one of two ends, IsAvailable asks both.)
BillingHolds ==
    [][\A c \in Calls : (call[c].at = "pick" /\ call'[c].at = "run" /\ Candidate(c).provider \in DOMAIN billed)
                            => now - billed[Candidate(c).provider] >= Hours(5)]_chainVars
\* What a provider's cooldown grows with is what it failed with since it last answered:
\* the errors are the sum of the reasons, after any order of failures, answers and days.
Total(counts) == counts["auth"] + counts["rate_limit"] + counts["billing"] + counts["timeout"] + counts["format"]
CountsAgree == \A p \in DOMAIN entry : entry[p].errors = Total(entry[p].counts)
\* The two of above, of CooldownTracker and FallbackChain.
ChainSound == []CountsAgree /\ BillingHolds
\* A retry after a timeout asks some provider.  (Does not hold with a fallback chain,
\* whose candidates all cool for a minute when the loop comes back after five seconds.)
RetryAsks ==
    [][\A c \in Calls : (call[c].at = "pick" /\ call'[c].at = "exhausted" /\ call[c].retry > 0)
                            => \E i \in DOMAIN call[c].tried : call[c].tried[i] # "skipped"]_chainVars
=============================================================================

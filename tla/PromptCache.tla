----------------------------- MODULE PromptCache ----------------------------
(***************************************************************************)
(* The cache of the system prompt (ContextBuilder, pkg/agent/context.go):  *)
(* turns of several goroutines ask for the prompt while the user and the   *)
(* tools write the files it is made of.  A read lock guards the check of   *)
(* the cache, the write lock a rebuild: first the baseline (which files    *)
(* exist, the latest modification time), then the files, one by one.       *)
(*                                                                         *)
(* A prompt is represented by the version of each file that it shows;      *)
(* version 0 stands for a file that does not exist.  Every write is given  *)
(* a later modification time than the ones before: two writes in one tick  *)
(* of the file system's clock, or a file restored with its old time, are   *)
(* beyond what the cache can see.                                          *)
(***************************************************************************)
EXTENDS Integers, Sequences, FiniteSets

CONSTANTS Sources,   \* AGENTS.md, SOUL.md, USER.md, IDENTITY.md, memory/MEMORY.md
          Skills,    \* the files under the skill roots
          Notes,     \* the daily notes, which GetMemoryContext adds to the prompt
          Turns,     \* the goroutines that build messages
          MaxWrites  \* bound: writes and deletions

ASSUME CacheAssumption == /\ MaxWrites \in Nat /\ Sources # {} /\ Sources \cap Skills = {}
                          /\ Notes \cap (Sources \cup Skills) = {}
                          /\ "none" \notin Turns

Tracked == Sources \cup Skills
Files   == Tracked \cup Notes
Nowhere == [f \in Files |-> 0]

VARIABLES
    file,   \* file[f]: 0, or the time of the last write of f, which tells its versions apart
    clock,  \* the time of the last write or deletion
    cached, \* the cached prompt and its baseline
    lock,   \* the turn that holds the write lock, or NoTurn
    build   \* build[t]: where turn t is, and what it has gathered
cacheVars == <<file, clock, cached, lock, build>>

NoTurn  == "none"
NoCache == [filled |-> FALSE, prompt |-> Nowhere, at |-> 0, existed |-> {}, skills |-> Nowhere]
Resting == [pc |-> "rest", base |-> NoCache, prompt |-> Nowhere, left |-> {}]

CacheInit == /\ file = Nowhere /\ clock = 0 /\ cached = NoCache /\ lock = NoTurn
             /\ build = [t \in Turns |-> Resting]

\* The user, an editor or a tool writes a file, or removes one.
WriteFile(f) == /\ clock < MaxWrites /\ clock' = clock + 1
                /\ file' = [file EXCEPT ![f] = clock + 1]
                /\ UNCHANGED <<cached, lock, build>>
RemoveFile(f) == /\ clock < MaxWrites /\ clock' = clock + 1 /\ file[f] # 0
                 /\ file' = [file EXCEPT ![f] = 0]
                 /\ UNCHANGED <<cached, lock, build>>

\* fileChangedSince: created, deleted, or modified after the baseline.
fileChangedSince(f) ==
    \/ (f \in cached.existed) # (file[f] # 0)
    \/ file[f] # 0 /\ file[f] > cached.at
\* skillFilesChangedSince compares each file with its time in the snapshot.
skillFilesChanged == \E f \in Skills : file[f] # cached.skills[f]
sourceFilesChanged == skillFilesChanged \/ \E f \in Sources : fileChangedSince(f)

\* The fast path, under the read lock: a turn gets the cached prompt ...
Hit(t) == /\ build[t].pc = "rest" /\ lock = NoTurn
          /\ cached.filled /\ ~sourceFilesChanged
          /\ UNCHANGED cacheVars
\* ... or waits for the write lock.
Miss(t) == /\ build[t].pc = "rest" /\ lock = NoTurn
           /\ ~(cached.filled /\ ~sourceFilesChanged)
           /\ build' = [build EXCEPT ![t].pc = "wait"]
           /\ UNCHANGED <<file, clock, cached, lock>>

\* With the lock it looks again: another turn may have built the prompt.
LookAgain(t) ==
    /\ build[t].pc = "wait" /\ lock = NoTurn
    /\ IF cached.filled /\ ~sourceFilesChanged
       THEN build' = [build EXCEPT ![t] = Resting] /\ UNCHANGED lock
       ELSE build' = [build EXCEPT ![t].pc = "baseline"] /\ lock' = t
    /\ UNCHANGED <<file, clock, cached>>

Latest == LET T == {file[f] : f \in Tracked} IN CHOOSE m \in T : \A n \in T : n <= m

\* buildCacheBaseline, before the first file is read.
Baseline(t) ==
    /\ build[t].pc = "baseline"
    /\ build' = [build EXCEPT ![t].pc = "read", ![t].left = Files,
           ![t].base = [NoCache EXCEPT !.at = Latest, !.existed = {f \in Sources : file[f] # 0},
                                       !.skills = [f \in Files |-> IF f \in Skills THEN file[f] ELSE 0]]]
    /\ UNCHANGED <<file, clock, cached, lock>>

\* BuildSystemPrompt reads the files one after the other.
ReadFile(t, f) ==
    /\ build[t].pc = "read" /\ f \in build[t].left
    /\ build' = [build EXCEPT ![t].left = @ \ {f}, ![t].prompt[f] = file[f]]
    /\ UNCHANGED <<file, clock, cached, lock>>

\* a baseline taken after the prompt was built
Store_LateBaseline(t) ==
    /\ build[t].pc = "read" /\ build[t].left = {}
    /\ cached' = [filled |-> TRUE, prompt |-> build[t].prompt, at |-> Latest,
                  existed |-> {f \in Sources : file[f] # 0},
                  skills |-> [f \in Files |-> IF f \in Skills THEN file[f] ELSE 0]]
    /\ build' = [build EXCEPT ![t] = Resting] /\ lock' = NoTurn
    /\ UNCHANGED <<file, clock>>
\* The prompt is kept with the baseline from before the build.
Store(t) ==
    /\ build[t].pc = "read" /\ build[t].left = {}
    /\ cached' = [build[t].base EXCEPT !.filled = TRUE, !.prompt = build[t].prompt]
    /\ build' = [build EXCEPT ![t] = Resting] /\ lock' = NoTurn
    /\ UNCHANGED <<file, clock>>

InvalidateCache == /\ lock = NoTurn /\ cached.filled /\ cached' = NoCache
                   /\ UNCHANGED <<file, clock, lock, build>>

CacheNext ==
    \/ \E f \in Files : WriteFile(f) \/ RemoveFile(f)
    \/ \E t \in Turns : \/ Hit(t) \/ Miss(t) \/ LookAgain(t) \/ Baseline(t) \/ Store(t)
                        \/ \E f \in Files : ReadFile(t, f)
    \/ InvalidateCache
-----------------------------------------------------------------------------
\* The variables keep their types, and only the holder of the lock builds.
CacheTypeOK ==
    /\ file \in [Files -> 0..MaxWrites] /\ clock \in 0..MaxWrites /\ lock \in Turns \cup {NoTurn}
    /\ cached.prompt \in [Files -> 0..MaxWrites] /\ cached.at \in 0..MaxWrites
    /\ \A t \in Turns : /\ build[t].left \subseteq Files /\ build[t].prompt \in [Files -> 0..MaxWrites]
                        /\ build[t].pc \in {"baseline", "read"} <=> lock = t

\* A prompt served from the cache shows every tracked file that exists as it is
\* now: no write can slip between the baseline and the files that are read
\* (context.go:179-184).  Only a file created and removed again during one build
\* may be shown although it is gone.
ServedFresh ==
    (cached.filled /\ ~sourceFilesChanged) =>
        \A f \in Tracked : file[f] # 0 => cached.prompt[f] = file[f]

\* The two of above, of BuildSystemPromptWithCache.
CacheSound == CacheTypeOK /\ ServedFresh

\* "The cache auto-invalidates when workspace source files change" (context.go:32),
\* said of all that the prompt is made of.  (Does not hold: the daily notes are read
\* into the prompt and are not tracked.)
ServedNotes == (cached.filled /\ ~sourceFilesChanged) => \A f \in Notes : cached.prompt[f] = file[f]

CacheSpec == CacheInit /\ [][CacheNext]_cacheVars
=============================================================================

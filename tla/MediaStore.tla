----------------------------- MODULE MediaStore -----------------------------
(***************************************************************************)
(* The files of messages: the media store and its cleaner                  *)
(* (pkg/media/store.go), what the adapters and the send_file tool put into *)
(* it, what the agent makes of a message's refs (pkg/agent/loop_media.go), *)
(* and the reload, which makes a new store.  A file's age counts up to     *)
(* just above MaxAge.                                                      *)
(***************************************************************************)
EXTENDS Integers, FiniteSets
CONSTANTS Refs,       \* ids of media, each used once
          Downloads,  \* temporary files, each name used once
          Sendable,   \* files of the workspace
          Scopes,     \* messages: channel, chat and message id
          MaxAge,     \* MediaCleanerConfig.MaxAge
          MaxReloads  \* bound: reloads of the configuration
\* Downloads go to the directory of temporary files.
ASSUME MediaAssumption == Downloads \cap Sendable = {} /\ MaxAge \in Nat /\ MaxReloads \in Nat

VARIABLES disk,        \* the files there are
          refs,        \* ref -> [path, age]
          scopeToRefs, refToScope,
          doomed,      \* the paths a cleanup took out of the maps and has yet to delete
          used,        \* refs and downloads that were given out
          orphans,     \* downloads whose store was replaced
          reloads,
          reading,     \* refs the agent has resolved to a path and not opened yet
          modelGot          \* what the model got of each ref: the image, a tag with the path, or nothing
mediaVars == <<disk, refs, scopeToRefs, refToScope, doomed, used, orphans, reloads, reading, modelGot>>
MediaInit ==
    /\ disk = Sendable /\ refs = <<>> /\ scopeToRefs = <<>> /\ refToScope = <<>>
    /\ doomed = {} /\ used = {} /\ orphans = {} /\ reloads = 0 /\ reading = {} /\ modelGot = <<>>

KeepFile(f, ks) == [k \in DOMAIN f \cap ks |-> f[k]]
Set(f, k, v) == [x \in DOMAIN f \cup {k} |-> IF x = k THEN v ELSE f[x]]
Recorded(r, path, scope) ==
    /\ r \in Refs \ used
    /\ refs' = Set(refs, r, [path |-> path, age |-> 0])
    /\ scopeToRefs' = Set(scopeToRefs, scope, (IF scope \in DOMAIN scopeToRefs THEN scopeToRefs[scope] ELSE {}) \cup {r})
    /\ refToScope' = Set(refToScope, r, scope)
\* Store: the file must exist; it is neither copied nor moved
StoreMedia(r, path, scope) == path \in disk /\ Recorded(r, path, scope)
\* An adapter has downloaded a file and stores it under the message it came with
StoreInbound(r, path, scope) ==
    /\ path \in Downloads \ used
    /\ disk' = disk \cup {path}
    /\ Recorded(r, path, scope)
    /\ used' = used \cup {r, path}
    /\ UNCHANGED <<doomed, orphans, reloads, reading, modelGot>>
\* send_file: the tool stores the file of the workspace itself
SendFile(r, path, scope) ==
    /\ path \in Sendable
    /\ StoreMedia(r, path, scope)
    /\ used' = used \cup {r}
    /\ UNCHANGED <<disk, doomed, orphans, reloads, reading, modelGot>>
\* the user, or a tool, writes the file again
WriteAgain(path) ==
    /\ path \in Sendable \ disk
    /\ disk' = disk \cup {path}
    /\ UNCHANGED <<refs, scopeToRefs, refToScope, doomed, used, orphans, reloads, reading, modelGot>>
Age ==
    /\ \E r \in DOMAIN refs : refs[r].age <= MaxAge
    /\ refs' = [r \in DOMAIN refs |-> [refs[r] EXCEPT !.age = IF @ > MaxAge THEN @ ELSE @ + 1]]
    /\ UNCHANGED <<disk, scopeToRefs, refToScope, doomed, used, orphans, reloads, reading, modelGot>>
Expired == {r \in DOMAIN refs : refs[r].age > MaxAge}
Paths(rs) == {refs[r].path : r \in rs}
\* a cleanup that takes the entries out of the maps and deletes no file
CleanExpired_OnlyMaps ==
    /\ Expired # {}
    /\ refs' = KeepFile(refs, DOMAIN refs \ Expired) /\ refToScope' = KeepFile(refToScope, DOMAIN refs \ Expired)
    /\ UNCHANGED <<disk, doomed, scopeToRefs, used, orphans, reloads, reading, modelGot>>
\* phase 1, under the lock
CleanExpired ==
    /\ Expired # {}
    /\ doomed' = doomed \cup Paths(Expired)
    /\ refs' = KeepFile(refs, DOMAIN refs \ Expired)
    /\ refToScope' = KeepFile(refToScope, DOMAIN refToScope \ Expired)
    /\ LET left == [s \in DOMAIN scopeToRefs |-> scopeToRefs[s] \ Expired]
       IN  scopeToRefs' = KeepFile(left, {s \in DOMAIN left : left[s] # {}})
    /\ UNCHANGED <<disk, used, orphans, reloads, reading, modelGot>>
\* phase 2, without it: a file that is gone already is no error
DeleteExpired(path) ==
    /\ path \in doomed
    /\ disk' = disk \ {path} /\ doomed' = doomed \ {path}
    /\ UNCHANGED <<refs, scopeToRefs, refToScope, used, orphans, reloads, reading, modelGot>>
\* ResolveWithMeta of a ref the message carries; one the store does not know is left out
ResolveMediaRefs(r) ==
    /\ r \in DOMAIN refs /\ r \notin {x[1] : x \in reading}
    /\ reading' = reading \cup {<<r, refs[r].path>>}
    /\ UNCHANGED <<disk, refs, scopeToRefs, refToScope, doomed, used, orphans, reloads, modelGot>>
\* the file, or nothing when it is gone; an image is sent whole unless it is too large, and of
\* anything else the text names the path
Outcome(path, kind) ==
    CASE path \notin disk -> "nothing"
      [] kind = "image" -> "image"
      [] kind = "large image" -> "nothing"
      [] kind \in {"audio", "file"} -> kind
OpenMedia(r, path, kind) ==
    /\ <<r, path>> \in reading
    /\ reading' = reading \ {<<r, path>>}
    /\ modelGot' = Set(modelGot, r, Outcome(path, kind))
    /\ UNCHANGED <<disk, refs, scopeToRefs, refToScope, doomed, used, orphans, reloads>>
\* a reload stops the cleaner and makes an empty store
ReloadStore ==
    /\ reloads < MaxReloads
    /\ reloads' = reloads + 1
    /\ orphans' = orphans \cup Paths(DOMAIN refs)
    /\ refs' = <<>> /\ scopeToRefs' = <<>> /\ refToScope' = <<>>
    /\ UNCHANGED <<disk, doomed, used, reading, modelGot>>
MediaNext ==
    \/ \E r \in Refs, s \in Scopes : \/ \E p \in Downloads : StoreInbound(r, p, s)
                                     \/ \E p \in Sendable : SendFile(r, p, s)
    \/ \E p \in Sendable : WriteAgain(p)
    \/ Age \/ CleanExpired \/ ReloadStore
    \/ \E p \in doomed : DeleteExpired(p)
    \/ \E r \in Refs : ResolveMediaRefs(r)
    \/ \E x \in reading, k \in {"image", "large image", "audio", "file"} : OpenMedia(x[1], x[2], k)
MediaSpec == MediaInit /\ [][MediaNext]_mediaVars
\* time passes, the cleaner's ticker fires, and a cleanup that began ends
MediaFairness == /\ WF_mediaVars(Age) /\ WF_mediaVars(CleanExpired)
                 /\ WF_mediaVars(\E p \in doomed : DeleteExpired(p))
LiveMedia == MediaSpec /\ MediaFairness
-----------------------------------------------------------------------------
\* A ref of a download that the store resolves has its file: an entry leaves the maps
\* before its file leaves the disk, whatever cleans and reloads meanwhile.
ResolvedExists == \A r \in DOMAIN refs : refs[r].path \in Downloads => refs[r].path \in disk
\* What the store promises, ResolvedExists included: a download is deleted some time, unless
\* a reload replaced the store that knew of it.
MediaSound ==
    /\ []ResolvedExists
    /\ \A p \in Downloads : (p \in disk) ~> (p \notin disk \/ p \in orphans)
\* Nothing here deletes a file of the workspace.  (Does not hold: send_file stores a file of the
\* workspace itself, and the cleaner deletes what it stores.)
WorkspaceKept == [][Sendable \cap disk \subseteq disk']_mediaVars
=============================================================================

----------------------------- MODULE Authoring ------------------------------
(***************************************************************************)
(* The authoring of Profiles with `devm profile create|fork|select|add|    *)
(* remove|refresh|publish` on one machine.  A Profile has a local record,  *)
(* the draft: an ordered list of Capsule Refs and the head version it was  *)
(* last seen at.  Drafts and the selection are files of their own, written *)
(* under profiles.lock by an atomic rename each; commands read them        *)
(* without the lock, talk to the control plane, and come back.             *)
(*                                                                         *)
(* Commands of this machine overlap and may be interrupted anywhere, and   *)
(* the same User publishes from other machines.  A Profile is its name:    *)
(* slugs are unique.  The Capsule Refs are the User's own (publication of  *)
(* others is refused before it is sent), reduced to their names.           *)
(***************************************************************************)
EXTENDS Naturals, Sequences, SequencesExt

CONSTANTS
    Authors,       \* the processes
    ProfileNames,
    Refs,          \* the Capsule Refs
    NoProfile,
    MaxVersions,   \* versions of a Profile
    MaxDraft,      \* Capsule Refs in a list
    MaxAuthored    \* commands of this machine

ASSUME AuthoringAssumption ==
    /\ NoProfile \notin ProfileNames
    /\ MaxVersions \in Nat /\ MaxDraft \in Nat \ {0} /\ MaxAuthored \in Nat

VARIABLES
    drafts,      \* profiles/<id>.toml
    selection,   \* profiles/selection.toml
    origins,     \* the key each Profile was created under
    versions,    \* profile_versions: the Capsule Refs of each, oldest first
    author,      \* what each process is doing
    authored     \* commands so far

authoringVars == <<drafts, selection, origins, versions, author, authored>>

Lists == {s \in UNION {[1..n -> Refs] : n \in 0..MaxDraft} : IsInjective(s)}
NoDraft == [head |-> 0, refs |-> <<>>, known |-> FALSE]
Draft(at, refs) == [head |-> at, refs |-> refs, known |-> TRUE]
Resting == [pc |-> "idle", name |-> NoProfile, key |-> <<>>, head |-> 0, refs |-> <<>>, seen |-> 0]

AuthoringTypeOK ==
    /\ drafts \in [ProfileNames -> [head : 0..MaxVersions, refs : Lists, known : BOOLEAN]]
    /\ selection \in ProfileNames \cup {NoProfile}
    /\ \A n \in ProfileNames : versions[n] \in Seq(Lists) /\ Len(versions[n]) <= MaxVersions
    /\ \A a \in Authors : author[a].pc \in {"idle", "create", "publish", "save", "select",
                                           "record", "remote", "merge"}

AuthoringInit ==
    /\ drafts = [n \in ProfileNames |-> NoDraft] /\ selection = NoProfile
    /\ origins = [n \in ProfileNames |-> <<>>]
    /\ versions = [n \in ProfileNames |-> <<>>]
    /\ author = [a \in Authors |-> Resting] /\ authored = 0

-----------------------------------------------------------------------------
(* What the files and the control plane answer.                            *)

(* getProfileVersion: no version, no Capsule Refs.                         *)
RefsAt(n, v) == IF v = 0 THEN <<>> ELSE versions[n][v]

(* openProfilesForUpdate: a process between its two files has the lock.    *)
ProfilesAreFree == \A a \in Authors : author[a].pc # "select"

(* Mutant: the draft may have moved on since it was read.                  *)
HeadIsAny(a) == TRUE

(* The head is still the one the command read (errLocalStateConflict).     *)
HeadIsAsRead(a) == drafts[author[a].name].head = author[a].head

(* reflect.DeepEqual under the lock: nothing is unpublished.               *)
DraftIsClean(a) == drafts[author[a].name].refs = RefsAt(author[a].name, author[a].head)

Begins(a, next) ==
    /\ author[a].pc = "idle" /\ authored < MaxAuthored
    /\ authored' = authored + 1
    /\ author' = [author EXCEPT ![a] = next]
Goes(a, pc) == author' = [author EXCEPT ![a].pc = pc]
Returns(a) == author' = [author EXCEPT ![a] = Resting]

-----------------------------------------------------------------------------
(* The commands.                                                           *)

runProfileCreate(a, n) ==
    /\ Begins(a, [Resting EXCEPT !.pc = "create", !.name = n, !.key = <<"create">>])
    /\ UNCHANGED <<drafts, selection, origins, versions>>

(* From a version, or from the selected draft.                             *)
runProfileFork(a, n) ==
    /\ \/ \E p \in ProfileNames : \E v \in DOMAIN versions[p] :
             Begins(a, [Resting EXCEPT !.pc = "create", !.name = n, !.refs = versions[p][v],
                                       !.key = <<"version", p, v>>])
       \/ /\ selection # NoProfile /\ drafts[selection].refs # <<>>
          /\ Begins(a, [Resting EXCEPT !.pc = "create", !.name = n, !.refs = drafts[selection].refs,
                                       !.key = <<"local", selection, drafts[selection].refs>>])
    /\ UNCHANGED <<drafts, selection, origins, versions>>

runProfilePublish(a) ==
    /\ selection # NoProfile /\ drafts[selection].refs # <<>>
    /\ Begins(a, [Resting EXCEPT !.pc = "publish", !.name = selection,
                                 !.head = drafts[selection].head, !.refs = drafts[selection].refs])
    /\ UNCHANGED <<drafts, selection, origins, versions>>

runProfileRefresh(a) ==
    /\ selection # NoProfile
    /\ Begins(a, [Resting EXCEPT !.pc = "remote", !.name = selection, !.head = drafts[selection].head])
    /\ UNCHANGED <<drafts, selection, origins, versions>>

(* The ones that only change files, each in one step under the lock.       *)
runProfileSelect(a, n) ==
    /\ ProfilesAreFree /\ drafts[n].known /\ selection' = n
    /\ Begins(a, Resting)
    /\ UNCHANGED <<drafts, origins, versions>>

Edits(a, refs) ==
    /\ ProfilesAreFree /\ selection # NoProfile
    /\ drafts' = [drafts EXCEPT ![selection].refs = refs]
    /\ Begins(a, Resting)
    /\ UNCHANGED <<selection, origins, versions>>

runProfileAdd(a, ref) ==
    LET refs == drafts[selection].refs IN
    selection # NoProfile /\ ~Contains(refs, ref) /\ Len(refs) < MaxDraft /\ Edits(a, Append(refs, ref))

runProfileRemove(a, ref) ==
    LET refs == drafts[selection].refs IN
    selection # NoProfile /\ \E i \in DOMAIN refs : refs[i] = ref /\ Edits(a, RemoveAt(refs, i))

-----------------------------------------------------------------------------
(* The control plane.                                                      *)

(* Store.CreateProfile: a known key replays, a known name conflicts.       *)
createRemoteProfile(a) ==
    LET n == author[a].name
        k == author[a].key IN
    /\ author[a].pc = "create"
    /\ \/ /\ origins[n] \in {<<>>, k}
          /\ origins' = [origins EXCEPT ![n] = k]
          /\ Goes(a, IF k = <<"create">> THEN "save" ELSE "publish")
       \/ origins[n] \notin {<<>>, k} /\ Returns(a) /\ UNCHANGED origins
    /\ UNCHANGED <<drafts, selection, versions, authored>>

(* Store.PublishProfileVersion: the key is the digest of what is expected  *)
(* and listed, so that a second request of it replays the version; another *)
(* one has to expect the head.  A fork goes on with a record of its own.   *)
publishProfileVersion(a) ==
    LET n == author[a].name
        v == author[a].head + 1
        answered == author' = [author EXCEPT ![a].seen = v,
                                 ![a].pc = IF author[a].key = <<>> THEN "record" ELSE "save"]
        replayed == v \in DOMAIN versions[n] /\ versions[n][v] = author[a].refs IN
    /\ author[a].pc = "publish"
    /\ \/ replayed /\ answered /\ UNCHANGED versions
       \/ /\ v = Len(versions[n]) + 1 /\ v <= MaxVersions /\ answered
          /\ versions' = [versions EXCEPT ![n] = Append(@, author[a].refs)]
       \/ v \in DOMAIN versions[n] /\ ~replayed /\ Returns(a) /\ UNCHANGED versions
    /\ UNCHANGED <<drafts, selection, origins, authored>>

(* getProfile, for the head of now.                                        *)
getProfile(a) ==
    /\ author[a].pc = "remote"
    /\ author' = [author EXCEPT ![a].pc = "merge", ![a].seen = Len(versions[author[a].name])]
    /\ UNCHANGED <<drafts, selection, origins, versions, authored>>

(* `devm` on another machine of the User creates or publishes.             *)
OtherMachine(n) ==
    /\ \/ origins[n] = <<>> /\ origins' = [origins EXCEPT ![n] = <<"create">>] /\ UNCHANGED versions
       \/ /\ origins[n] # <<>> /\ Len(versions[n]) < MaxVersions
          /\ \E refs \in Lists \ {<<>>} : versions' = [versions EXCEPT ![n] = Append(@, refs)]
          /\ UNCHANGED origins
    /\ UNCHANGED <<drafts, selection, author, authored>>

-----------------------------------------------------------------------------
(* Back to the files.                                                      *)

(* A record that is there stays as it is.                                  *)
SaveAuthoringProfile(a) ==
    LET n == author[a].name IN
    /\ author[a].pc = "save" /\ ProfilesAreFree
    /\ drafts' = [drafts EXCEPT ![n] = IF @.known THEN @ ELSE Draft(author[a].seen, author[a].refs)]
    /\ Goes(a, "select")
    /\ UNCHANGED <<selection, origins, versions, authored>>

writeProfileSelection(a) ==
    /\ author[a].pc = "select"
    /\ selection' = author[a].name
    /\ Returns(a)
    /\ UNCHANGED <<drafts, origins, versions, authored>>

(* UpdateAuthoringProfile at the end of a publication, whose version may   *)
(* be recorded already.                                                    *)
RecordPublication(a) ==
    /\ author[a].pc = "record" /\ ProfilesAreFree
    /\ drafts' = [drafts EXCEPT ![author[a].name].head =
                     IF @ # author[a].seen /\ HeadIsAsRead(a) THEN author[a].seen ELSE @]
    /\ Returns(a)
    /\ UNCHANGED <<selection, origins, versions, authored>>

(* And of a refresh: a clean draft takes the Capsule Refs of the new head, *)
(* one with edits keeps them and only moves its head.                      *)
MergeRefresh(a) ==
    LET n == author[a].name IN
    /\ author[a].pc = "merge" /\ ProfilesAreFree
    /\ drafts' = IF ~HeadIsAsRead(a) THEN drafts
                 ELSE [drafts EXCEPT ![n] = Draft(author[a].seen,
                          IF DraftIsClean(a) THEN RefsAt(n, author[a].seen) ELSE @.refs)]
    /\ Returns(a)
    /\ UNCHANGED <<selection, origins, versions, authored>>

(* A process dies, or an answer does not come.                             *)
Interrupted(a) ==
    /\ author[a].pc # "idle" /\ Returns(a)
    /\ UNCHANGED <<drafts, selection, origins, versions, authored>>

AuthoringNext ==
    \/ \E a \in Authors :
          \/ \E n \in ProfileNames : runProfileCreate(a, n) \/ runProfileFork(a, n) \/ runProfileSelect(a, n)
          \/ \E ref \in Refs : runProfileAdd(a, ref) \/ runProfileRemove(a, ref)
          \/ runProfilePublish(a) \/ runProfileRefresh(a)
          \/ createRemoteProfile(a) \/ publishProfileVersion(a) \/ getProfile(a)
          \/ SaveAuthoringProfile(a) \/ writeProfileSelection(a)
          \/ RecordPublication(a) \/ MergeRefresh(a) \/ Interrupted(a)
    \/ \E n \in ProfileNames : OtherMachine(n)

AuthoringSpec == AuthoringInit /\ [][AuthoringNext]_authoringVars

-----------------------------------------------------------------------------
KeepsDrafts ==
    /\ \A n \in ProfileNames : drafts[n].known =>
          /\ drafts'[n].known /\ drafts'[n].head >= drafts[n].head
          /\ \/ drafts'[n].refs = drafts[n].refs
             \/ drafts[n].refs = RefsAt(n, drafts[n].head)
             \/ \E a \in Authors, ref \in Refs : runProfileAdd(a, ref) \/ runProfileRemove(a, ref)
    /\ selection' # NoProfile => drafts'[selection'].known

(* Drafts are kept: only the User's own add and remove change what is not  *)
(* published yet, although a refresh, a publication, a second create or a  *)
(* fork of the same name read the draft before and write it after; no draft*)
(* goes back to an older head, from which its next publication would be    *)
(* refused; and what is selected is there.                                 *)
DraftsAreKept == [][KeepsDrafts]_authoringVars
=============================================================================

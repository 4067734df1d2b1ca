---------------------------- MODULE Provisioning ----------------------------
(***************************************************************************)
(* What a bare `devm` does in a repository of one User on one machine: it  *)
(* resolves the Project Binding, or else selects an SSH key and a Profile  *)
(* Version, packages and uploads a Project Seed, creates the Environment,  *)
(* binds the repository to it and waits for the creation to end.           *)
(* Several `devm` processes run at the same time, in the same repository   *)
(* or in others; they share config.toml and the Project Bindings (each     *)
(* rewritten under a file lock by an atomic rename, hence in one step) and *)
(* the control plane.  Every request carries an idempotency key that is a  *)
(* digest of what it asks for, so that a second run repeats the requests   *)
(* of the first.                                                           *)
(*                                                                         *)
(* A tree is the content a repository's Project Seed would have; its       *)
(* digest covers the origin URL, so that a tree is of one repository.  A   *)
(* Seed is registered once per digest and is named by its tree.            *)
(***************************************************************************)
EXTENDS Naturals, Sequences, FiniteSets

CONSTANTS
    Procs,       \* the `devm` processes
    Repos,       \* the canonical repository identities
    Trees,       \* the contents of working trees
    RepoOf,      \* the repository a tree is of
    PartsOf,     \* the parts of a tree's Seed, in upload order
    Unpackable,  \* trees without an origin, with a credential or with a file of another kind
    Oversized,   \* parts above the limit of their kind
    Overweight,  \* trees whose parts are together above the limit of a Seed
    FirstTree,   \* the tree a repository starts with
    Base,        \* the Environment name that the directory of every repository gives
    None,
    MaxFaults    \* how many of the Faults one behaviour has

ASSUME ProvisionAssumption ==
    /\ RepoOf \in [Trees -> Repos]
    /\ FirstTree \in [Repos -> Trees]
    /\ \A r \in Repos : RepoOf[FirstTree[r]] = r
    /\ DOMAIN PartsOf = Trees
    /\ \A t \in Trees : Len(PartsOf[t]) > 0
    /\ Unpackable \subseteq Trees /\ Overweight \subseteq Trees
    /\ Base \notin Repos
    /\ None \notin Trees
    /\ MaxFaults \in Nat

\* Every part of every Seed; equal content is one part, whichever Seed it is in.
Parts == UNION {{PartsOf[t][k] : k \in DOMAIN PartsOf[t]} : t \in Trees}

\* What may interfere, each at most once: a process dies, or times out with its create
\* request on the way; the User edits a tree, selects another Profile Version in
\* config.toml, publishes one, revokes the key; ten minutes pass; a creation fails.
Faults == {"crash", "late", "edit", "select", "publish", "revoke", "expire", "fail"}

VARIABLES
    config,    \* config.toml: whether a key and which Profile Version are selected
    binding,   \* projects/<identity>.toml: the Seed and the Environment
    pair,      \* the files of the machine's SSH key: none, its private half, or both
    tree,      \* the working tree of each repository
    key,       \* the ssh_keys row of this machine's key
    head,      \* the head version of the User's first Profile, 0 when there is none
    intents,   \* the upload_intents row of each part
    staged,    \* the parts whose staging object is stored
    final,     \* the parts copied to their immutable location
    seeds,     \* the project_seeds row of each tree
    envs,      \* the Environments created, in order
    late,      \* create requests that no process waits for
    run,       \* what each process is doing
    faults     \* the Faults that have happened

server == <<key, head, intents, staged, final, seeds, envs, late>>
local == <<config, binding, pair>>
provisionVars == <<config, binding, pair, tree, key, head, intents, staged, final, seeds, envs, late, run, faults>>

Body == [seed : Trees, version : Nat]
Request == [repo : Repos, name : {Base} \cup Repos, body : Body]

PCs == {"idle", "resolve", "config", "key", "public", "registerKey", "saveKey", "versions", "publish", "saveVersion",
        "package", "intent", "put", "register", "setSeed", "create", "bind", "poll"}

\* A process that does nothing.
Idle == [pc |-> "idle", repo |-> None, seed |-> None, hasKey |-> FALSE, version |-> 0,
         tree |-> None, part |-> 0, name |-> Base, env |-> 0]

ProvisionInit ==
    /\ config = [hasKey |-> FALSE, version |-> 0]
    /\ binding = [r \in Repos |-> [seed |-> None, env |-> 0]]
    /\ pair = "none"
    /\ tree = FirstTree
    /\ key = "absent"
    /\ head = 0
    /\ intents = [x \in Parts |-> "none"]
    /\ staged = {}
    /\ final = {}
    /\ seeds = [t \in Trees |-> [registered |-> FALSE, env |-> 0]]
    /\ envs = <<>>
    /\ late = {}
    /\ run = [p \in Procs |-> Idle]
    /\ faults = {}

-----------------------------------------------------------------------------
(* The steps of a run *)

At(p, pc) == run[p].pc = pc

Goto(p, pc) == run' = [run EXCEPT ![p].pc = pc]

\* A run that ends, connected or with an error: nothing of it stays in memory.
Ends(p) == run' = [run EXCEPT ![p] = Idle]

\* Where runBare goes on from, given what this run has in memory.
FirstMissing(l) ==
    CASE ~l.hasKey -> "key"
      [] l.hasKey /\ l.version = 0 -> "versions"
      [] l.hasKey /\ l.version # 0 /\ l.seed = None -> "package"
      [] OTHER -> "create"

\* Takes the run to the first thing it lacks, with `l` in memory.
Continue(p, l) == run' = [run EXCEPT ![p] = [l EXCEPT !.pc = FirstMissing(l)]]

\* The Project Binding of a repository; a repository without one has the empty binding.
ReadProject(r) == binding[r]

\* A User runs `devm` in a repository: the Project Binding is read.
runBare(p, r) ==
    LET b == ReadProject(r) IN
    /\ At(p, "idle")
    /\ run' = [run EXCEPT ![p] = [Idle EXCEPT !.repo = r, !.seed = b.seed, !.env = b.env,
                                              !.pc = IF b.env # 0 THEN "resolve" ELSE "config"]]
    /\ UNCHANGED <<local, server, tree, faults>>

getLifecycleEnvironment(i) == envs[i].status

\* The bound Environment is active and the run connects; or its creation is resumed; or
\* the creation failed, which leaves it `creating` without an active Operation.
resumeEnvironmentCreate(p) ==
    /\ At(p, "resolve")
    /\ IF getLifecycleEnvironment(run[p].env) = "creating" THEN Goto(p, "poll") ELSE Ends(p)
    /\ UNCHANGED <<local, server, tree, faults>>

\* EnsureConfig and ReadConfig.
ReadConfig(p) ==
    /\ At(p, "config")
    /\ Continue(p, [run[p] EXCEPT !.hasKey = config.hasKey, !.version = config.version])
    /\ UNCHANGED <<local, server, tree, faults>>

\* SSH setup finds the pair or begins to generate one.  A half that was left behind, or that
\* another process has just written, is not replaced, and the run is refused.
ensureSSHSetup(p) ==
    /\ At(p, "key")
    /\ CASE pair = "none"  -> pair' = "half" /\ Goto(p, "public")
         [] pair = "half"  -> Ends(p) /\ UNCHANGED pair
         [] pair = "whole" -> Goto(p, "registerKey") /\ UNCHANGED pair
    /\ UNCHANGED <<config, binding, server, tree, faults>>

\* The public half follows; SSHSetup has what may go wrong with it.
WritePublicKey(p) ==
    /\ At(p, "public")
    /\ pair' = "whole"
    /\ Goto(p, "registerKey")
    /\ UNCHANGED <<config, binding, server, tree, faults>>

\* The row that has the fingerprint, revoked or not, answers a registration.
GetOwnedSSHKeyByFingerprint == key # "absent"

\* The registration of the machine's key: replayed by its key, or by its fingerprint.
RegisterSSHKey == key' = IF GetOwnedSSHKeyByFingerprint THEN key ELSE "active"

\* Whether the machine's key is among the User's keys that are not revoked.
ListActiveOwnedSSHKeys(k) == k = "active"

\* SSH setup registers the key; the run then looks for it among the active ones.
ensureLifecycleSSHKeyIDs(p) ==
    /\ At(p, "registerKey")
    /\ RegisterSSHKey
    /\ IF ListActiveOwnedSSHKeys(key') THEN Goto(p, "saveKey") ELSE Ends(p)
    /\ UNCHANGED <<local, tree, head, intents, staged, final, seeds, envs, late, faults>>

\* config.toml read again under state.lock, one field of it set, and renamed into place.
UpdateConfig(p, field, value) == config' = [config EXCEPT ![field] = value]

SaveKeySelection(p) ==
    /\ At(p, "saveKey")
    /\ UpdateConfig(p, "hasKey", TRUE)
    /\ Continue(p, [run[p] EXCEPT !.hasKey = TRUE])
    /\ UNCHANGED <<binding, pair, server, tree, faults>>

\* The head of the first Profile that has one; without one a version must be published.
ListLifecycleProfiles(p) ==
    /\ At(p, "versions")
    /\ run' = [run EXCEPT ![p].version = head, ![p].pc = IF head # 0 THEN "saveVersion" ELSE "publish"]
    /\ UNCHANGED <<local, server, tree, faults>>

\* The Default Profile and its first, empty version, both under keys that every run of this
\* User repeats: whoever comes second is given the first version again.
PublishDefault(p) ==
    /\ At(p, "publish")
    /\ head' = IF head = 0 THEN 1 ELSE head
    /\ run' = [run EXCEPT ![p].version = 1, ![p].pc = "saveVersion"]
    /\ UNCHANGED <<local, tree, key, intents, staged, final, seeds, envs, late, faults>>

SaveVersionSelection(p) ==
    /\ At(p, "saveVersion")
    /\ UpdateConfig(p, "version", run[p].version)
    /\ Continue(p, run[p])
    /\ UNCHANGED <<binding, pair, server, tree, faults>>

-----------------------------------------------------------------------------
(* The Project Seed *)

\* Reads the working tree, unless it is refused; the content of the Seed is fixed from here on.
Package(p) ==
    /\ At(p, "package")
    /\ IF tree[run[p].repo] \in Unpackable THEN Ends(p)
       ELSE run' = [run EXCEPT ![p].tree = tree[run[p].repo], ![p].part = 1, ![p].pc = "intent"]
    /\ UNCHANGED <<local, server, tree, faults>>

PartOf(p) == PartsOf[run[p].tree][run[p].part]

\* The Upload Intent of a part is reserved, or replayed: the key is a digest of the kind and
\* the digest of the part and nothing else.
GetUploadIntentRegistration(x) == intents[x] # "none"

InsertUploadIntent(x) == intents' = [intents EXCEPT ![x] = "open"]

ReserveUploadIntent(x) ==
    IF GetUploadIntentRegistration(x) THEN UNCHANGED intents ELSE InsertUploadIntent(x)

\* An Intent that is replayed is not signed again.
SignsNewOnly(x) == intents[x] = "none"

\* An expiry in the past cannot be signed.
Signable(x) == intents'[x] # "expired"

CreateUploadIntent(p) ==
    /\ At(p, "intent")
    /\ IF PartOf(p) \in Oversized THEN Ends(p) /\ UNCHANGED intents
       ELSE /\ ReserveUploadIntent(PartOf(p))
            /\ IF Signable(PartOf(p)) THEN Goto(p, "put") ELSE Ends(p)
    /\ UNCHANGED <<local, tree, key, head, staged, final, seeds, envs, late, faults>>

\* The signed URL of a part is refused by the store from its Intent's expiry on.
presignedExpiry(x) == intents[x] = "expired"

\* The content is put at the signed URL.
PutSeedPart(p) ==
    /\ At(p, "put")
    /\ IF presignedExpiry(PartOf(p))
       THEN /\ Ends(p)
            /\ UNCHANGED staged
       ELSE /\ staged' = staged \cup {PartOf(p)}
            /\ run' = [run EXCEPT ![p].part = @ + 1,
                                  ![p].pc = IF run[p].part = Len(PartsOf[run[p].tree]) THEN "register" ELSE "intent"]
    /\ UNCHANGED <<local, tree, key, head, intents, final, seeds, envs, late, faults>>

\* The parts of a Seed that its registration verifies and copies.
VerifiedParts(t) == {PartsOf[t][k] : k \in DOMAIN PartsOf[t]}

\* The part's Intent, expired or not, and its staged object.
GetOwnedUploadIntentByDigest(x) == intents[x] # "none"

InspectUpload(x) == x \in staged

\* Verify: the part has an Intent and a staged object that agrees with it.
Verified(x) == GetOwnedUploadIntentByDigest(x) /\ InspectUpload(x)

\* Each part is copied to its immutable key as it is verified, unless it is there already.
FinalizeUpload(parts) == final' = final \cup parts

\* The Seed is inserted, or answered by its registration or by its digest.
InsertProjectSeed(t) == seeds' = [seeds EXCEPT ![t].registered = TRUE]

RegisterProjectSeed(p) ==
    LET t == run[p].tree IN
    /\ At(p, "register")
    /\ IF t \notin Overweight /\ \A x \in VerifiedParts(t) : Verified(x)
       THEN /\ FinalizeUpload(VerifiedParts(t))
            /\ InsertProjectSeed(t)
            /\ Goto(p, "setSeed")
       ELSE /\ \E parts \in SUBSET {x \in VerifiedParts(t) : Verified(x)} : FinalizeUpload(parts)
            /\ Ends(p)
            /\ UNCHANGED seeds
    /\ UNCHANGED <<local, tree, key, head, intents, staged, envs, late, faults>>

\* The last Seed registered replaces the one that is bound.
TakesAnySeed(b, t) == TRUE

\* Whether a binding takes a Seed: it has none yet, or this one.
TakesSeed(b, t) == b.seed \in {None, t}

\* A Project Binding read again under state.lock, one field set, and renamed into place.
updateProject(r, field, value) == binding' = [binding EXCEPT ![r][field] = value]

SetProjectSeed(p) ==
    LET r == run[p].repo
        t == run[p].tree IN
    /\ At(p, "setSeed")
    /\ IF TakesSeed(binding[r], t)
       THEN /\ updateProject(r, "seed", t)
            /\ Continue(p, [run[p] EXCEPT !.seed = t])
       ELSE /\ Ends(p)
            /\ UNCHANGED binding
    /\ UNCHANGED <<config, pair, server, tree, faults>>

-----------------------------------------------------------------------------
(* The creation *)

\* The Environments a create request's idempotency key names: at most one.
ByKey(q) == {i \in DOMAIN envs : envs[i].repo = q.repo /\ envs[i].name = q.name}

\* The key was used with this input.
Replays(q) == \E i \in ByKey(q) : envs[i].body = q.body

\* Another Environment has the slug.
NameIsTaken(q) == ByKey(q) = {} /\ \E i \in DOMAIN envs : envs[i].name = q.name

\* The key and the slug are free, the Seed is registered and of no Environment, and the key is active.
Accepts(q) ==
    /\ ByKey(q) = {} /\ ~NameIsTaken(q)
    /\ seeds[q.body.seed].registered /\ seeds[q.body.seed].env = 0
    /\ key = "active"

\* The Environment, its Operation and the claim on the Seed are inserted in one transaction.
ReserveEnvironmentCreation(q) ==
    /\ envs' = Append(envs, [repo |-> q.repo, name |-> q.name, body |-> q.body, status |-> "creating"])
    /\ seeds' = [seeds EXCEPT ![q.body.seed].env = Len(envs) + 1]

\* The name with the repository's own suffix, a digest of its identity.
conflictEnvironmentName(r) == r

CreateRequest(p) ==
    [repo |-> run[p].repo, name |-> run[p].name, body |-> [seed |-> run[p].seed, version |-> run[p].version]]

\* The request is accepted or replayed and the run binds; or the name is taken and the run
\* asks again with the repository's own suffix; or the request is refused and the run ends.
createLifecycleEnvironment(p) ==
    LET q == CreateRequest(p) IN
    /\ At(p, "create")
    /\ \/ /\ Accepts(q)
          /\ ReserveEnvironmentCreation(q)
          /\ run' = [run EXCEPT ![p].env = Len(envs) + 1, ![p].pc = "bind"]
       \/ /\ ~Accepts(q) /\ Replays(q)
          /\ run' = [run EXCEPT ![p].env = CHOOSE i \in ByKey(q) : TRUE, ![p].pc = "bind"]
          /\ UNCHANGED <<envs, seeds>>
       \/ /\ ~Accepts(q) /\ ~Replays(q)
          /\ IF NameIsTaken(q) /\ q.name = Base
             THEN run' = [run EXCEPT ![p].name = conflictEnvironmentName(run[p].repo)]
             ELSE Ends(p)
          /\ UNCHANGED <<envs, seeds>>
    /\ UNCHANGED <<local, tree, key, head, intents, staged, final, late, faults>>

\* The repository is bound to its Environment, unless it is bound to another one.
BindProject(p) ==
    LET r == run[p].repo IN
    /\ At(p, "bind")
    /\ IF binding[r].env \in {0, run[p].env}
       THEN /\ updateProject(r, "env", run[p].env)
            /\ Goto(p, "poll")
       ELSE /\ Ends(p)
            /\ UNCHANGED binding
    /\ UNCHANGED <<config, pair, server, tree, faults>>

\* The Operation is polled until it is terminal, or for ten minutes: the run ends either
\* way, connected only when the Environment is active.
pollEnvironmentCreate(p) ==
    /\ At(p, "poll")
    /\ Ends(p)
    /\ UNCHANGED <<local, server, tree, faults>>

\* The workflow ends the creation.
CreationSucceeds(i) ==
    /\ envs[i].status = "creating"
    /\ envs' = [envs EXCEPT ![i].status = "active"]
    /\ UNCHANGED <<local, key, head, intents, staged, final, seeds, late, tree, run, faults>>

-----------------------------------------------------------------------------
(* Interference *)

Fault(f) == /\ f \notin faults
            /\ Cardinality(faults) < MaxFaults
            /\ faults' = faults \cup {f}

\* A process is killed, or the answer to its last request is lost.
Crash(p) ==
    /\ ~At(p, "idle") /\ Fault("crash")
    /\ Ends(p)
    /\ UNCHANGED <<local, server, tree>>

\* A process gives its create request up while the request is on the way.
GiveUp(p) ==
    /\ At(p, "create") /\ Fault("late")
    /\ late' = late \cup {CreateRequest(p)}
    /\ Ends(p)
    /\ UNCHANGED <<local, key, head, intents, staged, final, seeds, envs, tree>>

\* The control plane takes a request that nobody waits for.
LateRequest(q) ==
    /\ q \in late
    /\ late' = late \ {q}
    /\ IF Accepts(q) THEN ReserveEnvironmentCreation(q) ELSE UNCHANGED <<envs, seeds>>
    /\ UNCHANGED <<local, key, head, intents, staged, final, tree, run, faults>>

EditTree(t) ==
    /\ t # tree[RepoOf[t]] /\ Fault("edit")
    /\ tree' = [tree EXCEPT ![RepoOf[t]] = t]
    /\ UNCHANGED <<local, server, run>>

SelectVersion(v) ==
    /\ config.version # 0 /\ v # config.version /\ Fault("select")
    /\ config' = [config EXCEPT !.version = v]
    /\ UNCHANGED <<binding, pair, server, tree, run>>

PublishVersion ==
    /\ head # 0 /\ Fault("publish")
    /\ head' = head + 1
    /\ UNCHANGED <<local, key, intents, staged, final, seeds, envs, late, tree, run>>

RevokeOwnedSSHKey ==
    /\ key = "active" /\ Fault("revoke")
    /\ key' = "revoked"
    /\ UNCHANGED <<local, head, intents, staged, final, seeds, envs, late, tree, run>>

\* Ten minutes after its creation an Upload Intent has expired.
Expire ==
    /\ Fault("expire")
    /\ intents' = [x \in Parts |-> IF intents[x] = "open" THEN "expired" ELSE intents[x]]
    /\ UNCHANGED <<local, key, head, staged, final, seeds, envs, late, tree, run>>

CreationFails(i) ==
    /\ envs[i].status = "creating" /\ Fault("fail")
    /\ envs' = [envs EXCEPT ![i].status = "failed"]
    /\ UNCHANGED <<local, key, head, intents, staged, final, seeds, late, tree, run>>

Interference ==
    \/ \E p \in Procs : Crash(p) \/ GiveUp(p)
    \/ \E t \in Trees : EditTree(t)
    \/ \E v \in 1..head : SelectVersion(v)
    \/ PublishVersion
    \/ RevokeOwnedSSHKey
    \/ Expire
    \/ \E i \in DOMAIN envs : CreationFails(i)

-----------------------------------------------------------------------------
ProcessStep(p) ==
    \/ resumeEnvironmentCreate(p)
    \/ ReadConfig(p)
    \/ ensureSSHSetup(p)
    \/ WritePublicKey(p)
    \/ ensureLifecycleSSHKeyIDs(p)
    \/ SaveKeySelection(p)
    \/ ListLifecycleProfiles(p)
    \/ PublishDefault(p)
    \/ SaveVersionSelection(p)
    \/ Package(p)
    \/ CreateUploadIntent(p)
    \/ PutSeedPart(p)
    \/ RegisterProjectSeed(p)
    \/ SetProjectSeed(p)
    \/ createLifecycleEnvironment(p)
    \/ BindProject(p)
    \/ pollEnvironmentCreate(p)

ServerStep ==
    \/ \E i \in DOMAIN envs : CreationSucceeds(i)
    \/ \E q \in late : LateRequest(q)

ProvisionNext ==
    \/ \E p \in Procs : ProcessStep(p)
    \/ \E p \in Procs, r \in Repos : runBare(p, r)
    \/ ServerStep
    \/ Interference

\* A process that runs goes on; a User runs `devm` again in each repository while a process
\* can be started there; the control plane answers.
ProvisionFairness ==
    /\ \A p \in Procs : WF_provisionVars(ProcessStep(p))
    /\ \A r \in Repos : SF_provisionVars(\E p \in Procs : runBare(p, r))
    /\ WF_provisionVars(ServerStep)

ProvisionSpec == ProvisionInit /\ [][ProvisionNext]_provisionVars /\ ProvisionFairness

-----------------------------------------------------------------------------
(* Properties *)

\* Types.  A Seed is claimed by one Environment and that Environment was created with it: a
\* claim is never moved, whichever of two creates of one Seed comes first.
ProvisionTypeOK ==
    /\ config \in [hasKey : BOOLEAN, version : 0..2]
    /\ binding \in [Repos -> [seed : Trees \cup {None}, env : 0..Len(envs)]]
    /\ pair \in {"none", "half", "whole"}
    /\ tree \in [Repos -> Trees]
    /\ key \in {"absent", "active", "revoked"}
    /\ head \in 0..2
    /\ intents \in [Parts -> {"none", "open", "expired"}]
    /\ staged \subseteq Parts /\ final \subseteq Parts
    /\ seeds \in [Trees -> [registered : BOOLEAN, env : 0..Len(envs)]]
    /\ \A i \in DOMAIN envs : /\ envs[i].repo \in Repos /\ envs[i].body \in Body
                              /\ envs[i].status \in {"creating", "active", "failed"}
                              /\ seeds[envs[i].body.seed].env = i
    /\ late \subseteq Request
    /\ \A p \in Procs : run[p].pc \in PCs /\ run[p].env \in 0..Len(envs)
    /\ faults \subseteq Faults

\* A repository is bound to an Environment that was created for it with the very Seed that is
\* bound, although the tree may be edited between two runs and both may be under way; and
\* every part of the Seed of an Environment is at its final key when the Environment is
\* accepted: the workflow that applies it never looks for a part that is only staged.
BindingIsItsOwn ==
    /\ \A r \in Repos :
          binding[r].env # 0 => /\ envs[binding[r].env].repo = r
                                /\ envs[binding[r].env].body.seed = binding[r].seed
    /\ \A i \in DOMAIN envs :
          LET seed == envs[i].body.seed IN
          seeds[seed].registered /\ {PartsOf[seed][k] : k \in DOMAIN PartsOf[seed]} \subseteq final

\* What the keys do not cover: a repeated run then asks for something else, or in vain.
Decisive == {"select", "publish", "revoke", "expire"}

\* A death left the private half of the machine's key alone: every later run is refused.
PairIsLeftHalf == pair = "half" /\ \A p \in Procs : ~At(p, "public")

\* No Seed of the tree can be made: it is not packaged, or too large.
SeedIsRefused(t) == t \in Unpackable \cup Overweight \/ VerifiedParts(t) \cap Oversized # {}

\* A User who repeats `devm` after whatever was interrupted, edited or raced ends with the
\* repository bound, as long as no selection changes, no key is revoked and no Upload Intent
\* expires in between; or is refused from then on, by half a key pair or by the very tree.
RepositoriesAreBound ==
    [](faults \cap Decisive = {}) =>
        \A r \in Repos :
            \/ <>(binding[r].env # 0)
            \/ <>[](binding[r].env = 0 /\ PairIsLeftHalf)
            \/ <>[](binding[r].seed = None /\ SeedIsRefused(tree[r]))
=============================================================================

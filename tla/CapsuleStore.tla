---------------------------- MODULE CapsuleStore ----------------------------
(***************************************************************************)
(* Capsules in the bucket, their tags, and the guest's cache of them.      *)
(*                                                                         *)
(* `devm capsule publish` puts the objects of a Capsule one by one, each   *)
(* with If-None-Match, the index last, and then asks the control plane to  *)
(* point a tag at the Capsule's digest.  Publications of Capsules that     *)
(* share layers overlap, and any of them may die.  A workflow resolves a   *)
(* tag and has the guest load the Capsule: from its cache, or by a Pull    *)
(* under read grants that last fifteen minutes, with a worker per layer.   *)
(* Two loads of one guest may overlap: each opens the cache (an OCI image  *)
(* layout on the disk) for itself.                                         *)
(*                                                                         *)
(* A Capsule stands for its digest; an object or a blob for its key, which *)
(* is the digest of its content.  The index object is the only one whose   *)
(* key does not determine its content.                                     *)
(***************************************************************************)
EXTENDS Naturals, Sequences, FiniteSets

CONSTANTS
    Publishers,    \* the processes that publish, all of them `devm`
    Loads,         \* the guest's requests that load a Capsule
    Owners,
    OwnerOf,       \* whose publisher one is
    Direct,        \* the Owners who also put objects with a client of their own
    GuestOwner,    \* the Owner of the guest's Environment
    Capsules,
    LayersOf,      \* the layers of a Capsule, in the order of its Components
    Parallelism,   \* how many layers one Pull reads at a time
    Nothing,
    MaxMishaps     \* how many of the Mishaps one behaviour has

ASSUME CapsuleAssumption ==
    /\ OwnerOf \in [Publishers -> Owners]
    /\ GuestOwner \in Owners /\ Direct \subseteq Owners
    /\ Nothing \notin Capsules
    /\ Cardinality(Capsules) > 1
    /\ Parallelism \in Nat \ {0}
    /\ MaxMishaps \in Nat

\* What may go wrong, each at most once: a publisher dies, or the answer to its last
\* request is lost; an object is put that is of no publication; the guest restarts; the
\* grants of a load expire; an object in the bucket, or a blob in the cache, is not what its
\* key says.
Mishaps == {"die", "direct", "restart", "expire", "alter", "damage"}

Layers == UNION {{LayersOf[c][k] : k \in DOMAIN LayersOf[c]} : c \in Capsules}
ASSUME LayersAssumption == LayersOf \in [Capsules -> Seq(Layers)]

Config(c) == <<"config", c>>
Manifest(c) == <<"manifest", c>>
Index(c) == <<"index", c>>
Layer(l) == <<"layer", l>>

BlobsOf(c) == {Config(c), Manifest(c)} \cup {Layer(LayersOf[c][k]) : k \in DOMAIN LayersOf[c]}
Blobs == UNION {BlobsOf(c) : c \in Capsules}
Objects == Blobs \cup {Index(c) : c \in Capsules}

VARIABLES
    bucket,    \* the objects under each Owner's prefix
    tag,       \* capsule_tags: the Capsule that each Owner's tag names
    push,      \* what each publisher is doing
    blobs,     \* the blobs in the guest's cache
    cached,    \* the cache's index.json: the Capsule whose manifest a digest names
    load,      \* what each load is doing
    mishaps    \* the Mishaps that have happened

cache == <<blobs, cached>>
capsuleVars == <<bucket, tag, push, blobs, cached, load, mishaps>>

Content == {"absent", "stored", "altered"}

NoPush == [next |-> 0, capsule |-> Nothing]
NoLoad == [pc |-> "rest", target |-> Nothing, named |-> Nothing, memory |-> [c \in Capsules |-> Nothing],
           valid |-> FALSE, scan |-> 1, workers |-> {}, holding |-> {}, failed |-> "no"]

CapsuleInit ==
    /\ bucket = [o \in Owners |-> [x \in Objects |-> "absent"]]
    /\ tag = [o \in Owners |-> Nothing]
    /\ push = [p \in Publishers |-> NoPush]
    /\ blobs = [b \in Blobs |-> "absent"]
    /\ cached = [c \in Capsules |-> Nothing]
    /\ load = [g \in Loads |-> NoLoad]
    /\ mishaps = {}

-----------------------------------------------------------------------------
(* Publication *)

LayerObjects(c) == [k \in DOMAIN LayersOf[c] |-> Layer(LayersOf[c][k])]

\* The index is put before what it names.
IndexFirst(c) == <<Index(c), Config(c)>> \o LayerObjects(c) \o <<Manifest(c)>>

\* The order in which the objects of a Capsule are put.
UploadOrder(c) == <<Config(c)>> \o LayerObjects(c) \o <<Manifest(c), Index(c)>>

\* CompileNamed builds the Capsule; the same tree gives the same digest everywhere.
BuildCapsule(p, c) ==
    /\ push[p] = NoPush
    /\ push' = [push EXCEPT ![p] = [next |-> 1, capsule |-> c]]
    /\ UNCHANGED <<bucket, tag, cache, load, mishaps>>

\* An object under the prefix of its User, whom the key names.
capsuleObjectKey(o, x) == bucket[o][x]

\* HeadObject, under the prefix of the User who asks; of an index: the User has the Capsule.
ownsCapsuleObject(o, x) == capsuleObjectKey(o, x) # "absent"
OwnsCapsule(o, c) == ownsCapsuleObject(o, Index(c))

\* A write grant signs If-None-Match: an object that is there is refused.
IfNoneMatch(o, x) == capsuleObjectKey(o, x) = "absent"

\* A refused object is read back under a read grant, and will do if it has the content that
\* was to be written.
MatchesExisting(o, x) == ownsCapsuleObject(o, x) /\ capsuleObjectKey(o, x) = "stored"

writeGrantedObject(o, x) == IfNoneMatch(o, x) \/ MatchesExisting(o, x)

\* The next object is put under a write grant of its own.
WriteObject(p) ==
    LET s == push[p]
        order == UploadOrder(s.capsule) IN
    /\ s # NoPush /\ s.next <= Len(order)
    /\ IF writeGrantedObject(OwnerOf[p], order[s.next])
       THEN /\ bucket' = [bucket EXCEPT ![OwnerOf[p]][order[s.next]] = "stored"]
            /\ push' = [push EXCEPT ![p].next = @ + 1]
       ELSE /\ push' = [push EXCEPT ![p] = NoPush]
            /\ UNCHANGED bucket
    /\ UNCHANGED <<tag, cache, load, mishaps>>

\* The row of the tag is inserted or retargeted.
UpsertCapsuleTag(o, c) == tag' = [tag EXCEPT ![o] = c]

\* A tag is pointed only at a Capsule its User has.
PutCapsuleTag(o, c) == IF OwnsCapsule(o, c) THEN UpsertCapsuleTag(o, c) ELSE UNCHANGED tag

PublishTag(p) ==
    LET s == push[p] IN
    /\ s # NoPush /\ s.next = Len(UploadOrder(s.capsule)) + 1
    /\ PutCapsuleTag(OwnerOf[p], s.capsule)
    /\ push' = [push EXCEPT ![p] = NoPush]
    /\ UNCHANGED <<bucket, cache, load, mishaps>>

\* A client of the API points a tag at any digest.
Retag(o, c) ==
    /\ PutCapsuleTag(o, c)
    /\ UNCHANGED <<bucket, push, cache, load, mishaps>>

-----------------------------------------------------------------------------
(* A load *)

Loading(g, pc) == load[g].pc = pc
Moved(g, pc) == load' = [load EXCEPT ![g].pc = pc]

\* Every failure is for good.
NeverTransient(kind) == FALSE

\* A grant that expired is transient: the workflow asks again, with fresh grants.  What
\* disagrees with its digest is permanent.
Transient(kind) == kind = "expired"

Failed(g, kind) == Moved(g, IF Transient(kind) THEN "mint" ELSE "refused")

GetCapsuleTag(o) == tag[o]

\* The workflow resolves the tag of the Environment's Owner.
ResolveCapsuleTag(g) ==
    /\ load[g].pc \in {"rest", "loaded", "refused"} /\ load[g].workers = {}
    /\ GetCapsuleTag(GuestOwner) # Nothing
    /\ load' = [load EXCEPT ![g] = [NoLoad EXCEPT !.pc = "mint", !.target = GetCapsuleTag(GuestOwner)]]
    /\ UNCHANGED <<bucket, tag, push, cache, mishaps>>

Other(c) == CHOOSE d \in Capsules : d # c

\* The Capsule whose manifest the index object of `c` names.
findManifestDescriptor(c) == IF bucket[GuestOwner][Index(c)] = "altered" THEN Other(c) ELSE c

\* The keys of a Capsule's objects are read from its index and from the manifest it names,
\* which is verified; a config or a layer is not read.
CapsuleReadKeys(c) == capsuleObjectKey(GuestOwner, Manifest(findManifestDescriptor(c)))

\* A grant is minted for each key; without the manifest the request is retried, and one
\* that is not what its digest says is refused for good.
MaterializationReadGrants(g) ==
    LET found == CapsuleReadKeys(load[g].target) IN
    /\ Loading(g, "mint")
    /\ found # "absent"
    /\ load' = [load EXCEPT ![g].pc = IF found = "stored" THEN "open" ELSE "refused", ![g].valid = TRUE,
                            ![g].scan = 1, ![g].failed = "no"]
    /\ UNCHANGED <<bucket, tag, push, cache, mishaps>>

\* The config of a Capsule is in the cache and index.json does not name the Capsule: a Pull
\* is under way, or was interrupted, or another load rewrote index.json.
HalfCached(c) == cached[c] = Nothing /\ blobs[Config(c)] # "absent"

\* The guest opens its cache, which reads index.json; a Capsule that is in it is not pulled.
\* Without an entry Resolve looks among the blobs, where the Capsule's digest is the one of
\* its config, and what it finds is no manifest: refused.
OpenCapsuleCache(g) ==
    LET c == load[g].target IN
    /\ Loading(g, "open")
    /\ load' = [load EXCEPT ![g].memory = cached, ![g].named = cached[c],
                            ![g].pc = CASE cached[c] # Nothing -> "parse"
                                        [] HalfCached(c)       -> "refused"
                                        [] OTHER               -> "index"]
    /\ UNCHANGED <<bucket, tag, push, cache, mishaps>>

\* The index object is read; only the manifest it names can be checked.
ReadIndex(g) ==
    /\ Loading(g, "index")
    /\ IF load[g].valid
       THEN load' = [load EXCEPT ![g].named = findManifestDescriptor(load[g].target), ![g].pc = "manifest"]
       ELSE Failed(g, "expired")
    /\ UNCHANGED <<bucket, tag, push, cache, mishaps>>

\* What becomes of a read of an object under its grant.
ReadBlob(g, b) ==
    CASE ~load[g].valid -> "expired"
      [] load[g].valid /\ bucket[GuestOwner][b] = "stored" -> "no"
      [] OTHER -> "invalid"

\* A blob of the cache is hashed each time it is read.
fetchVerified(b) == IF blobs[b] = "stored" THEN "no" ELSE "invalid"

FetchBlob(g, b) == IF blobs[b] # "absent" THEN fetchVerified(b) ELSE ReadBlob(g, b)

FetchManifest(g) ==
    /\ Loading(g, "manifest")
    /\ LET error == FetchBlob(g, Manifest(load[g].named)) IN
       IF error = "no" THEN Moved(g, "config") ELSE Failed(g, error)
    /\ UNCHANGED <<bucket, tag, push, cache, mishaps>>

\* The digest of the config is the Capsule that was asked for.
ComputedDigestMatches(g) == load[g].named = load[g].target

\* A blob is stored by a rename, unless it is there.
PushLocalBlob(b) == blobs' = [blobs EXCEPT ![b] = IF @ = "absent" THEN "stored" ELSE @]

FetchConfig(g) ==
    LET b == Config(load[g].named)
        error == FetchBlob(g, b) IN
    /\ Loading(g, "config")
    /\ IF error = "no" /\ ComputedDigestMatches(g)
       THEN PushLocalBlob(b) /\ Moved(g, "layers")
       ELSE Failed(g, IF error = "no" THEN "invalid" ELSE error) /\ UNCHANGED blobs
    /\ UNCHANGED <<bucket, tag, push, cached, mishaps>>

-----------------------------------------------------------------------------
(* The layers of a Pull *)

Descriptors(g) == LayerObjects(load[g].named)

\* The next layer: one that is cached is verified, for any other a worker is started.
ScanLayer(g) ==
    LET b == Descriptors(g)[load[g].scan] IN
    /\ Loading(g, "layers") /\ load[g].failed = "no" /\ load[g].scan \in DOMAIN Descriptors(g)
    /\ load' = [load EXCEPT ![g].scan = @ + 1,
                            ![g].workers = IF blobs[b] = "absent" THEN @ \cup {b} ELSE @,
                            ![g].failed = IF blobs[b] = "absent" THEN @ ELSE fetchVerified(b)]
    /\ UNCHANGED <<bucket, tag, push, cache, mishaps>>

HasSlot(g) == Cardinality(load[g].holding) < Parallelism

\* A worker takes a slot of the semaphore; or ends, when the group was cancelled.
AcquireSlot(g, b) ==
    /\ b \in load[g].workers \ load[g].holding
    /\ \/ /\ HasSlot(g)
          /\ load' = [load EXCEPT ![g].holding = @ \cup {b}]
       \/ /\ load[g].failed # "no"
          /\ load' = [load EXCEPT ![g].workers = @ \ {b}]
    /\ UNCHANGED <<bucket, tag, push, cache, mishaps>>

\* A worker reads its layer and stores it; the first error cancels the group, and a worker
\* that was reading may still store its layer.
FetchLayer(g, b) ==
    LET error == ReadBlob(g, b) IN
    /\ b \in load[g].holding
    /\ load' = [load EXCEPT ![g].workers = @ \ {b}, ![g].holding = @ \ {b},
                            ![g].failed = IF @ = "no" THEN error ELSE @]
    /\ \/ error = "no" /\ PushLocalBlob(b)
       \/ (error # "no" \/ load[g].failed # "no") /\ UNCHANGED blobs
    /\ UNCHANGED <<bucket, tag, push, cached, mishaps>>

\* The Pull goes on once every layer has been looked at.
ScannedIsEnough(g) == load[g].failed = "no" /\ load[g].scan > Len(Descriptors(g))

\* group.Wait: every layer has been looked at, and every worker has ended without an error.
LayersArePulled(g) == load[g].failed = "no" /\ load[g].scan > Len(Descriptors(g)) /\ load[g].workers = {}

\* waitForPullWorkers: the Pull returns with its error once every worker has ended.
WorkersHaveEnded(g) == load[g].failed # "no" /\ load[g].workers = {}

\* The manifest is stored when all that it names is.
StoreManifest(g) ==
    /\ Loading(g, "layers") /\ LayersArePulled(g)
    /\ PushLocalBlob(Manifest(load[g].named))
    /\ Moved(g, "tag")
    /\ UNCHANGED <<bucket, tag, push, cached, mishaps>>

PullFails(g) ==
    /\ Loading(g, "layers") /\ WorkersHaveEnded(g)
    /\ Failed(g, load[g].failed)
    /\ UNCHANGED <<bucket, tag, push, cache, mishaps>>

\* index.json is rewritten from what this load read when it opened the cache.
TagManifest(g) ==
    /\ Loading(g, "tag")
    /\ cached' = [load[g].memory EXCEPT ![load[g].target] = load[g].named]
    /\ Moved(g, "parse")
    /\ UNCHANGED <<bucket, tag, push, blobs, mishaps>>

\* Every blob of the cached Capsule is verified, and that it is the Capsule of the Lock.
Parse(g) ==
    /\ Loading(g, "parse")
    /\ IF load[g].named = load[g].target /\ \A b \in BlobsOf(load[g].named) : fetchVerified(b) = "no"
       THEN Moved(g, "loaded")
       ELSE Failed(g, "invalid")
    /\ UNCHANGED <<bucket, tag, push, cache, mishaps>>

-----------------------------------------------------------------------------
(* What goes wrong *)

Mishap(m) ==
    /\ m \notin mishaps /\ Cardinality(mishaps) < MaxMishaps
    /\ mishaps' = mishaps \cup {m}

PublisherDies(p) ==
    /\ push[p] # NoPush /\ Mishap("die")
    /\ push' = [push EXCEPT ![p] = NoPush]
    /\ UNCHANGED <<bucket, tag, cache, load>>

\* An object is put under a write grant that its Owner asked for, whatever it is.
PutDirectly(o, x, content) ==
    /\ IfNoneMatch(o, x) /\ Mishap("direct")
    /\ bucket' = [bucket EXCEPT ![o][x] = content]
    /\ UNCHANGED <<tag, push, cache, load>>

\* The guest restarts and its loads are gone; the workflow asks again, and canAdvance refuses
\* for good, because readiness began anew.
GuestRestarts ==
    /\ Mishap("restart")
    /\ load' = [g \in Loads |-> IF load[g].pc \in {"rest", "loaded", "refused"} THEN load[g]
                                ELSE [NoLoad EXCEPT !.pc = "refused", !.target = load[g].target, !.failed = "restarted"]]
    /\ UNCHANGED <<bucket, tag, push, cache>>

GrantsExpire(g) ==
    /\ load[g].valid /\ Mishap("expire")
    /\ load' = [load EXCEPT ![g].valid = FALSE]
    /\ UNCHANGED <<bucket, tag, push, cache>>

\* An object of the bucket is not what its key says.
AlterObject(x) ==
    /\ bucket[GuestOwner][x] = "stored" /\ Mishap("alter")
    /\ bucket' = [bucket EXCEPT ![GuestOwner][x] = "altered"]
    /\ UNCHANGED <<tag, push, cache, load>>

DamageBlob(b) ==
    /\ blobs[b] = "stored" /\ Mishap("damage")
    /\ blobs' = [blobs EXCEPT ![b] = "altered"]
    /\ UNCHANGED <<bucket, tag, push, cached, load>>

-----------------------------------------------------------------------------
LoadStep(g) ==
    \/ MaterializationReadGrants(g)
    \/ OpenCapsuleCache(g)
    \/ ReadIndex(g)
    \/ FetchManifest(g)
    \/ FetchConfig(g)
    \/ ScanLayer(g)
    \/ \E b \in load[g].workers : AcquireSlot(g, b) \/ FetchLayer(g, b)
    \/ StoreManifest(g)
    \/ PullFails(g)
    \/ TagManifest(g)
    \/ Parse(g)

CapsuleNext ==
    \/ \E p \in Publishers, c \in Capsules : BuildCapsule(p, c)
    \/ \E p \in Publishers : WriteObject(p) \/ PublishTag(p) \/ PublisherDies(p)
    \/ \E o \in Owners, c \in Capsules : Retag(o, c)
    \/ \E o \in Direct, x \in Objects, content \in {"stored", "altered"} : PutDirectly(o, x, content)
    \/ \E g \in Loads : ResolveCapsuleTag(g) \/ LoadStep(g) \/ GrantsExpire(g)
    \/ GuestRestarts
    \/ \E x \in Objects : AlterObject(x)
    \/ \E b \in Blobs : DamageBlob(b)

\* The workflow retries, and what the guest began goes on.
CapsuleFairness == \A g \in Loads : WF_capsuleVars(LoadStep(g))

CapsuleSpec == CapsuleInit /\ [][CapsuleNext]_capsuleVars /\ CapsuleFairness

-----------------------------------------------------------------------------
(* Properties *)

\* Types, and the semaphore: a Pull never reads more layers at a time than its
\* parallelism, however its workers are scheduled.
CapsuleTypeOK ==
    /\ bucket \in [Owners -> [Objects -> Content]]
    /\ tag \in [Owners -> Capsules \cup {Nothing}]
    /\ \A p \in Publishers : push[p] = NoPush \/ push[p].next \in 1..(Len(UploadOrder(push[p].capsule)) + 1)
    /\ blobs \in [Blobs -> Content]
    /\ cached \in [Capsules -> Capsules \cup {Nothing}]
    /\ \A g \in Loads : /\ load[g].holding \subseteq load[g].workers /\ load[g].workers \subseteq Blobs
                        /\ Cardinality(load[g].holding) <= Parallelism
    /\ mishaps \subseteq Mishaps

\* A tag names a Capsule that can be pulled: all its objects are under its Owner's prefix,
\* whichever publications died on the way, whoever pointed the tag at it and whatever other
\* Owners put; an Owner's own client can put an index alone.
TagIsPullable ==
    \A o \in Owners \ Direct :
        tag[o] # Nothing => \A x \in BlobsOf(tag[o]) \cup {Index(tag[o])} : bucket[o][x] # "absent"

\* A digest in the cache's index names the manifest of the Capsule with that digest, even when
\* an index object of the bucket names another one, and that Capsule is in the cache whole,
\* although two loads write the cache at once and the guest may restart between any two
\* writes: a load that finds it needs no grant.
CachedIsWhole ==
    \A c \in Capsules : cached[c] # Nothing => cached[c] = c /\ \A b \in BlobsOf(c) : blobs[b] # "absent"

\* Why a load may be refused: content is not what its digest says, the guest restarted
\* under it, or a Pull of its Capsule left the config and no entry of index.json.
MayBeRefused(g) ==
    \/ mishaps \cap {"alter", "damage"} # {}
    \/ load[g].failed = "restarted"
    \/ HalfCached(load[g].target)

\* A load ends, with the Capsule unless it may be refused: grants that expire before the
\* config is stored cost a retry and nothing else.
LoadsEnd ==
    \A g \in Loads : load[g].pc \notin {"rest", "loaded", "refused"} ~>
                         (load[g].pc = "loaded" \/ (load[g].pc = "refused" /\ MayBeRefused(g)))
=============================================================================

------------------------------ MODULE SSHSetup ------------------------------
(***************************************************************************)
(* SSH setup on the User's machine, which `devm ssh setup` and every bare  *)
(* `devm` run: find an Ed25519 pair in the SSH directory or generate one   *)
(* in two files, register its public half, write devm's own SSH config and *)
(* put one Include line at the top of the User's primary SSH config.  Two  *)
(* processes may do so at once, with no lock; the User may save the        *)
(* primary config meanwhile, in place or through a rename.                 *)
(*                                                                         *)
(* A pair is known by who generated it.  The primary config is its Include *)
(* line and the User's own lines, by the number of the User's last save    *)
(* they are of (0 when they are gone); `inode` numbers the files that had  *)
(* its name.                                                               *)
(***************************************************************************)
EXTENDS Naturals

CONSTANTS
    Setups,      \* the processes
    Nobody,      \* no process
    MaxSaves,    \* how often the User saves the primary config
    MaxDeaths    \* how many processes die, or fail to write the primary config

ASSUME SetupAssumption ==
    /\ Nobody \notin Setups
    /\ MaxSaves \in Nat \ {0} /\ MaxDeaths \in Nat

Attempts == 3    \* how often the edit of the primary config is tried

VARIABLES
    private,     \* who generated id_devm
    public,      \* who generated id_devm.pub
    registered,  \* the pairs with an active ssh_keys row
    withdrawn,   \* the pairs that were taken back when their public half was already there
    primary,     \* the primary SSH config
    inode,       \* the file that has its name
    saves,       \* how often the User saved it
    setup,       \* what each process is doing
    deaths       \* processes that died, or failed to write it, so far

keyFiles == <<private, public, registered, withdrawn>>
sshConfig == <<primary, inode, saves>>
setupVars == <<private, public, registered, withdrawn, primary, inode, saves, setup, deaths>>

Empty == [include |-> FALSE, user |-> 0]
AtRest == [pc |-> "rest", pair |-> Nobody, original |-> Empty, inode |-> 0, attempt |-> 1]

SetupInit ==
    /\ private = Nobody /\ public = Nobody
    /\ registered = {} /\ withdrawn = {}
    /\ primary = [include |-> FALSE, user |-> 1] /\ inode = 1 /\ saves = 1
    /\ setup = [s \in Setups |-> AtRest]
    /\ deaths = 0

In(s, pc) == setup[s].pc = pc
Moves(s, pc) == setup' = [setup EXCEPT ![s].pc = pc]
Stops(s) == setup' = [setup EXCEPT ![s] = AtRest]

-----------------------------------------------------------------------------
(* The key *)

\* A .pub file with a regular sibling is a key; without one the pair is to be generated.
DiscoverEd25519Keys(s) ==
    /\ In(s, "rest")
    /\ setup' = [setup EXCEPT ![s].pair = IF private # Nobody THEN public ELSE Nobody,
                              ![s].pc = IF private # Nobody /\ public # Nobody THEN "register" ELSE "generate"]
    /\ UNCHANGED <<keyFiles, sshConfig, deaths>>

\* Neither half exists, as far as Lstat can tell.
NeitherExists == private = Nobody /\ public = Nobody

GenerateDedicatedSSHKey(s) ==
    /\ In(s, "generate")
    /\ IF NeitherExists THEN Moves(s, "private") ELSE Stops(s)
    /\ UNCHANGED <<keyFiles, sshConfig, deaths>>

\* A file that exists is written over.
CreatesAnyway(file) == TRUE

\* O_EXCL: a file is created only where there is none.
CreatesExclusively(file) == file = Nobody

\* A creation that fails, in its syncs too, removes what it created: nobody else makes
\* anything of a private half alone.
WritePrivateHalf(s) ==
    /\ In(s, "private")
    /\ \/ CreatesExclusively(private) /\ private' = s /\ Moves(s, "public")
       \/ UNCHANGED private /\ Stops(s)
    /\ UNCHANGED <<public, registered, withdrawn, sshConfig, deaths>>

\* The public half is created and written, and others see it; or that fails.
WritePublicHalf(s) ==
    /\ In(s, "public")
    /\ \/ CreatesExclusively(public) /\ public' = s /\ Moves(s, "sync")
       \/ UNCHANGED public /\ Moves(s, "withdraw")
    /\ UNCHANGED <<private, registered, withdrawn, sshConfig, deaths>>

\* The file and its directory are synced; or a sync fails, and the file is removed if it is
\* still the one this process created.
SyncPublicHalf(s) ==
    /\ In(s, "sync")
    /\ \/ /\ setup' = [setup EXCEPT ![s].pair = s, ![s].pc = "register"]
          /\ UNCHANGED <<public, withdrawn>>
       \/ /\ public' = IF public = s THEN Nobody ELSE public
          /\ withdrawn' = withdrawn \cup {s}
          /\ Moves(s, "withdraw")
    /\ UNCHANGED <<private, registered, sshConfig, deaths>>

\* Without its public half, the private half is removed, by the same rule.
RemovePrivateHalf(s) ==
    /\ In(s, "withdraw")
    /\ private' = IF private = s THEN Nobody ELSE private
    /\ Stops(s)
    /\ UNCHANGED <<public, registered, withdrawn, sshConfig, deaths>>

\* The public half is registered, or is found among the registered keys; then devm's own
\* config is renamed into place.
EnsureSSHKeyRegistered(s) ==
    /\ In(s, "register")
    /\ registered' = registered \cup {setup[s].pair}
    /\ Moves(s, "prepare")
    /\ UNCHANGED <<private, public, withdrawn, sshConfig, deaths>>

-----------------------------------------------------------------------------
(* The Include line *)

\* What an edit makes of a config: one Include line, then the User's own lines.
WithInclude(content) == [content EXCEPT !.include = TRUE]

\* Opens the primary config and reads it.
PrepareSSHInclude(s) ==
    /\ In(s, "prepare")
    /\ setup' = [setup EXCEPT ![s].original = primary, ![s].inode = inode, ![s].pc = "check"]
    /\ UNCHANGED <<keyFiles, sshConfig, deaths>>

\* The name still names the open file, and the file has not changed.
StillOriginal(s) == inode = setup[s].inode /\ primary = setup[s].original

MayRetry(s) == setup[s].attempt < Attempts

\* The edit is due; or there is nothing to do; or the config changed and is read again.
CheckSSHInclude(s) ==
    /\ In(s, "check")
    /\ IF StillOriginal(s)
       THEN IF WithInclude(setup[s].original) = setup[s].original THEN Stops(s) ELSE Moves(s, "truncate")
       ELSE IF MayRetry(s)
            THEN setup' = [setup EXCEPT ![s].attempt = @ + 1, ![s].pc = "prepare"]
            ELSE Stops(s)
    /\ UNCHANGED <<keyFiles, sshConfig, deaths>>

\* The open file is cut to nothing: it is the primary config as long as it has its name.
TruncateSSHConfig(s) ==
    /\ In(s, "truncate")
    /\ primary' = IF inode = setup[s].inode THEN Empty ELSE primary
    /\ Moves(s, "write")
    /\ UNCHANGED <<keyFiles, inode, saves, deaths>>

\* What a file reads after `new` is written from its start: `old` shows behind a shorter
\* `new`, which is harmless when `new` is how `old` begins.
Overlay(new, old) ==
    CASE old = Empty \/ old = new -> new
      [] old # Empty /\ old.include /\ new.user = 0 -> old
      [] OTHER -> [include |-> TRUE, user |-> 0]

\* What of the edited content is written: all of it, or, when the write fails, nothing or
\* the Include line and not all of the User's lines.
Written(s, whole) ==
    IF whole THEN {Overlay(WithInclude(setup[s].original), primary)}
    ELSE {primary, Overlay(WithInclude(Empty), primary)}

\* The edited content is written from the start of the open file; a failure is reported.
WriteSSHConfig(s) ==
    /\ In(s, "write")
    /\ \E whole \in BOOLEAN :
          /\ whole \/ deaths < MaxDeaths
          /\ deaths' = IF whole THEN deaths ELSE deaths + 1
          /\ IF inode = setup[s].inode THEN primary' \in Written(s, whole) ELSE UNCHANGED primary
    /\ Stops(s)
    /\ UNCHANGED <<keyFiles, inode, saves>>

-----------------------------------------------------------------------------
\* The User saves the primary config, as it reads now and with one more line: over the
\* open file, or by renaming a new one into place.
UserSaves(renames) ==
    /\ saves < MaxSaves
    /\ saves' = saves + 1
    /\ primary' = [primary EXCEPT !.user = saves + 1]
    /\ inode' = IF renames THEN inode + 1 ELSE inode
    /\ UNCHANGED <<keyFiles, setup, deaths>>

Dies(s) ==
    /\ ~In(s, "rest") /\ deaths < MaxDeaths
    /\ deaths' = deaths + 1
    /\ Stops(s)
    /\ UNCHANGED <<keyFiles, sshConfig>>

SetupStep(s) ==
    \/ DiscoverEd25519Keys(s)
    \/ GenerateDedicatedSSHKey(s)
    \/ WritePrivateHalf(s)
    \/ WritePublicHalf(s)
    \/ SyncPublicHalf(s)
    \/ RemovePrivateHalf(s)
    \/ EnsureSSHKeyRegistered(s)
    \/ PrepareSSHInclude(s)
    \/ CheckSSHInclude(s)
    \/ TruncateSSHConfig(s)
    \/ WriteSSHConfig(s)

SetupNext ==
    \/ \E s \in Setups : SetupStep(s) \/ Dies(s)
    \/ \E renames \in BOOLEAN : UserSaves(renames)

SetupSpec == SetupInit /\ [][SetupNext]_setupVars

-----------------------------------------------------------------------------
(* Properties *)

\* Types, and the bound on the attempts of an edit.
SetupTypeOK ==
    /\ {private, public} \subseteq Setups \cup {Nobody}
    /\ registered \subseteq Setups /\ withdrawn \subseteq Setups
    /\ primary \in [include : BOOLEAN, user : 0..MaxSaves]
    /\ inode \in 1..MaxSaves /\ saves \in 1..MaxSaves /\ deaths \in 0..MaxDeaths
    /\ \A s \in Setups : setup[s].attempt \in 1..Attempts

\* The private half on disk is the one of every registered public half, although two
\* processes generate at once, one may die between the two files, and one may take its
\* private half back: the Environments would refuse the User's own key.  Only a pair that
\* is taken back, when a sync of its public half fails, after another process found it is
\* registered for nothing.
RegisteredPairMatches == \A k \in registered \ withdrawn : private = k /\ public = k
=============================================================================

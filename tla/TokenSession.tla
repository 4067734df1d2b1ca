---------------------------- MODULE TokenSession ----------------------------
(***************************************************************************)
(* The login session of `devm`: tokens.json, which every command of the    *)
(* User reads and any of them may refresh.  The identity provider's        *)
(* refresh tokens are used once: it answers a refresh with the next pair,  *)
(* and refuses a token it has seen.  Commands serialize on an exclusive    *)
(* flock of tokens.lock, which the kernel releases when a process dies,    *)
(* and hold it across the provider's answer.                               *)
(*                                                                         *)
(* A pair is the number of its refresh token; `session` numbers the logins *)
(* (a login starts a family of tokens of its own).                         *)
(***************************************************************************)
EXTENDS Naturals

CONSTANTS
    Commands,    \* the processes: each runs a login, a logout or a command that needs a token
    MaxPairs,    \* how many pairs the provider issues
    MaxLosses    \* how many processes die, or lose an answer of the provider

ASSUME TokenAssumption == MaxPairs \in Nat /\ MaxLosses \in Nat

NoPair == [refresh |-> 0, session |-> 0]

VARIABLES
    stored,    \* tokens.json: the pair in it, NoPair without the file
    fresh,     \* whether its access token is valid for two more minutes
    spent,     \* the provider: the refresh tokens that were used
    issued,    \* the provider: how many pairs were issued
    logins,    \* the provider: how many sessions were authorized
    holder,    \* who holds tokens.lock
    command,   \* what each process is doing
    losses     \* deaths and lost answers so far

tokenVars == <<stored, fresh, spent, issued, logins, holder, command, losses>>

Rests == [pc |-> "idle", pair |-> NoPair]

TokenInit ==
    /\ stored = NoPair /\ fresh = FALSE
    /\ spent = {} /\ issued = 0 /\ logins = 0
    /\ holder = {}
    /\ command = [c \in Commands |-> Rests]
    /\ losses = 0

Is(c, pc) == command[c].pc = pc

\* A command ends: the deferred close releases the lock.
Finish(c) ==
    /\ command' = [command EXCEPT ![c] = Rests]
    /\ holder' = holder \ {c}

Step(c, pc, pair) ==
    /\ command' = [command EXCEPT ![c] = [pc |-> pc, pair |-> pair]]
    /\ UNCHANGED holder

-----------------------------------------------------------------------------
(* The provider *)

\* The provider issues the next pair of a session.
Issue(s) == [refresh |-> issued + 1, session |-> s]

\* The provider takes a refresh token the first time it sees it.
Unspent(pair) == pair.refresh \notin spent

-----------------------------------------------------------------------------
(* The commands *)

\* tokens.lock is taken once nobody holds it.
LockIsFree(c) == holder = {}

\* Takes the lock and then does what comes first under it.
Acquire(c, pc) ==
    /\ LockIsFree(c)
    /\ holder' = holder \cup {c}
    /\ command' = [command EXCEPT ![c].pc = pc]

\* A command needs an access token, and waits for the lock.
FreshAccessToken(c) ==
    /\ Is(c, "idle")
    /\ Step(c, "lock", NoPair)
    /\ UNCHANGED <<stored, fresh, spent, issued, logins, losses>>

LockSession(c) ==
    /\ Is(c, "lock")
    /\ Acquire(c, "load")
    /\ UNCHANGED <<stored, fresh, spent, issued, logins, losses>>

\* The lock is released before the provider is asked.
LoadsAndUnlocks(c) ==
    /\ Is(c, "load")
    /\ holder' = holder \ {c}
    /\ command' = [command EXCEPT ![c] = IF stored = NoPair \/ fresh THEN Rests ELSE [pc |-> "refresh", pair |-> stored]]
    /\ UNCHANGED <<stored, fresh, spent, issued, logins, losses>>

\* The credentials are read: there are none, or the access token will do, or the stored
\* refresh token is to be used.
LoadTokenCredentials(c) ==
    /\ Is(c, "load")
    /\ IF stored = NoPair \/ fresh THEN Finish(c) ELSE Step(c, "refresh", stored)
    /\ UNCHANGED <<stored, fresh, spent, issued, logins, losses>>

\* The provider rotates the pair, or refuses a token it has seen: login is required.
Refresh(c) ==
    /\ Is(c, "refresh")
    /\ IF Unspent(command[c].pair)
       THEN /\ issued < MaxPairs
            /\ spent' = spent \cup {command[c].pair.refresh}
            /\ issued' = issued + 1
            /\ Step(c, "rotate", Issue(command[c].pair.session))
       ELSE /\ Finish(c)
            /\ UNCHANGED <<spent, issued>>
    /\ UNCHANGED <<stored, fresh, logins, losses>>

\* The rotated pair replaces tokens.json by a rename.
WriteRotated(c) ==
    /\ Is(c, "rotate")
    /\ stored' = command[c].pair /\ fresh' = TRUE
    /\ Finish(c)
    /\ UNCHANGED <<spent, issued, logins, losses>>

\* `devm login`: a device code is asked for and shown.
Authorize(c) ==
    /\ Is(c, "idle")
    /\ Step(c, "poll", NoPair)
    /\ UNCHANGED <<stored, fresh, spent, issued, logins, losses>>

\* The User approves in the browser and the next poll gets a pair of a new session.
PollApproved(c) ==
    /\ Is(c, "poll")
    /\ issued < MaxPairs
    /\ issued' = issued + 1 /\ logins' = logins + 1
    /\ Step(c, "persist", Issue(logins + 1))
    /\ UNCHANGED <<stored, fresh, spent, losses>>

\* The code is denied or expires.
PollRefused(c) ==
    /\ Is(c, "poll")
    /\ Finish(c)
    /\ UNCHANGED <<stored, fresh, spent, issued, logins, losses>>

\* When a login may write its pair.
MayPersist(c) == Is(c, "persist") /\ LockIsFree(c)

\* The pair of a login is written under the lock, whatever is stored.
PersistCredentials(c) ==
    /\ MayPersist(c)
    /\ stored' = command[c].pair /\ fresh' = TRUE
    /\ Finish(c)
    /\ UNCHANGED <<spent, issued, logins, losses>>

\* When `devm logout` may remove tokens.json.
MayDelete(c) == Is(c, "idle") /\ LockIsFree(c)

Delete(c) ==
    /\ MayDelete(c)
    /\ stored' = NoPair /\ fresh' = FALSE
    /\ UNCHANGED <<spent, issued, logins, holder, command, losses>>

\* The access token comes within two minutes of its expiry.
AccessTokenAges ==
    /\ fresh /\ fresh' = FALSE
    /\ UNCHANGED <<stored, spent, issued, logins, holder, command, losses>>

\* A process dies, or the provider's answer is lost and the command fails; the lock goes.
Lose(c) ==
    /\ ~Is(c, "idle") /\ losses < MaxLosses
    /\ losses' = losses + 1
    /\ Finish(c)
    /\ UNCHANGED <<stored, fresh, spent, issued, logins>>

CommandStep(c) ==
    \/ LockSession(c)
    \/ LoadTokenCredentials(c)
    \/ Refresh(c)
    \/ WriteRotated(c)
    \/ PollApproved(c)
    \/ PollRefused(c)
    \/ PersistCredentials(c)

TokenNext ==
    \/ \E c \in Commands : CommandStep(c) \/ FreshAccessToken(c) \/ Authorize(c) \/ Delete(c) \/ Lose(c)
    \/ AccessTokenAges

TokenSpec == TokenInit /\ [][TokenNext]_tokenVars

-----------------------------------------------------------------------------
(* Properties *)

\* Types, and one process at a time behind the lock.
TokenTypeOK ==
    /\ stored \in [refresh : 0..issued, session : 0..logins]
    /\ fresh \in BOOLEAN
    /\ spent \subseteq 1..issued /\ issued \in 0..MaxPairs /\ logins \in 0..issued
    /\ holder \subseteq Commands
    /\ \A c, d \in holder : c = d
    /\ \A c \in Commands : command[c].pc \in {"idle", "lock", "load", "refresh", "rotate", "poll", "persist"}
    /\ losses \in 0..MaxLosses

\* A login has just been approved and writes its pair.
LoginWrites == \E c \in Commands : Is(c, "persist") /\ stored' = command[c].pair

KeepsSession ==
    /\ stored' # stored =>
          /\ stored = NoPair => LoginWrites
          /\ stored' # NoPair => stored'.session = stored.session \/ LoginWrites
    /\ (losses = 0 /\ holder = {} /\ stored # NoPair => Unspent(stored))'

\* A refresh rotates the session that is stored: although it waits for the provider in
\* between, it never puts the tokens of an earlier login over those of a later one, and it
\* does not bring back a session that was logged out.  And the session it leaves is alive:
\* whenever nobody has the lock the stored refresh token was not used before, unless a
\* process died or an answer was lost after the provider had rotated the pair.
SessionIsIntact == [][KeepsSession]_tokenVars
=============================================================================

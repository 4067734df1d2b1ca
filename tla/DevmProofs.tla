----------------------------- MODULE DevmProofs -----------------------------
(***************************************************************************)
(* Proofs about the four state machines of the CLI (SSH setup, the token   *)
(* session, the authoring of Profiles, and a bare `devm`), for any number  *)
(* of processes and any bounds.  They share no variable; each has its own  *)
(* inductive invariant, and nothing is assumed but what the modules assume *)
(* of their constants.                                                     *)
(***************************************************************************)
EXTENDS SSHSetup, TokenSession, Authoring, Provisioning, SequenceTheorems, TLAPS

-----------------------------------------------------------------------------
(* SSH setup: types *)

SetupPCs == {"rest", "generate", "private", "public", "sync", "withdraw", "register", "prepare", "check", "truncate", "write"}
Contents == [include : BOOLEAN, user : 0..MaxSaves]

\* The types of SetupTypeOK, with those of the processes; each rename of the User has a save.
SetupTyped ==
    /\ private \in Setups \cup {Nobody} /\ public \in Setups \cup {Nobody}
    /\ registered \subseteq Setups /\ withdrawn \subseteq Setups
    /\ primary \in Contents
    /\ inode \in 1..saves /\ saves \in 1..MaxSaves /\ deaths \in 0..MaxDeaths
    /\ setup \in [Setups -> [pc : SetupPCs, pair : Setups \cup {Nobody}, original : Contents,
                             inode : 0..MaxSaves, attempt : 1..Attempts]]

\* The public half is written last, and taken back first, by the process whose private half
\* is there; what a process is about to register is the pair on disk or one taken back.
PairIsWhole ==
    /\ public # Nobody => private = public
    /\ registered \subseteq {public} \cup withdrawn
    /\ \A s \in Setups : In(s, "public") \/ In(s, "withdraw") => private = s /\ public = Nobody
    /\ \A s \in Setups : In(s, "sync") => private = s /\ public = s
    /\ \A s \in Setups : In(s, "register") => setup[s].pair \in ({public} \cup withdrawn) \ {Nobody}

SetupInv == SetupTyped /\ PairIsWhole

USE SetupAssumption DEF Attempts

LEMMA EmptyIsContents == Empty \in Contents
  BY DEF Empty, Contents

LEMMA AtRestTyped ==
  AtRest \in [pc : SetupPCs, pair : Setups \cup {Nobody}, original : Contents,
              inode : 0..MaxSaves, attempt : 1..Attempts]
  BY EmptyIsContents DEF AtRest, SetupPCs

\* What is written from the start of a file is a config again.
LEMMA OverlayType ==
  ASSUME NEW new \in Contents, NEW old \in Contents
  PROVE  Overlay(WithInclude(new), old) \in Contents
  <1>1. WithInclude(new) \in Contents
    BY DEF WithInclude, Contents
  <1>2. [include |-> TRUE, user |-> 0] \in Contents
    BY DEF Contents
  <1> QED
    BY <1>1, <1>2 DEF Overlay

LEMMA SetupTypedStep == SetupTyped /\ PairIsWhole /\ [SetupNext]_setupVars => SetupTyped'
  <1> SUFFICES ASSUME SetupTyped, PairIsWhole, [SetupNext]_setupVars PROVE SetupTyped'
    OBVIOUS
  <1> USE AtRestTyped DEF SetupTyped, SetupPCs, In, Moves, Stops, keyFiles, sshConfig
  <1>1. ASSUME NEW s \in Setups, DiscoverEd25519Keys(s) PROVE SetupTyped'
    BY <1>1 DEF DiscoverEd25519Keys
  <1>2. ASSUME NEW s \in Setups, GenerateDedicatedSSHKey(s) PROVE SetupTyped'
    BY <1>2 DEF GenerateDedicatedSSHKey
  <1>3. ASSUME NEW s \in Setups, WritePrivateHalf(s) PROVE SetupTyped'
    BY <1>3 DEF WritePrivateHalf
  <1>4. ASSUME NEW s \in Setups, WritePublicHalf(s) PROVE SetupTyped'
    BY <1>4 DEF WritePublicHalf
  <1>5. ASSUME NEW s \in Setups, EnsureSSHKeyRegistered(s) PROVE SetupTyped'
    BY <1>5 DEF EnsureSSHKeyRegistered, PairIsWhole
  <1>6. ASSUME NEW s \in Setups, PrepareSSHInclude(s) PROVE SetupTyped'
    BY <1>6 DEF PrepareSSHInclude
  <1>7. ASSUME NEW s \in Setups, CheckSSHInclude(s) PROVE SetupTyped'
    BY <1>7 DEF CheckSSHInclude, MayRetry
  <1>8. ASSUME NEW s \in Setups, TruncateSSHConfig(s) PROVE SetupTyped'
    BY <1>8, EmptyIsContents DEF TruncateSSHConfig
  <1>9. ASSUME NEW s \in Setups, WriteSSHConfig(s) PROVE SetupTyped'
    <2>1. primary' \in Contents
      BY <1>9, OverlayType, EmptyIsContents DEF WriteSSHConfig, Written
    <2> QED
      BY <1>9, <2>1 DEF WriteSSHConfig
  <1>10. ASSUME NEW s \in Setups, Dies(s) PROVE SetupTyped'
    BY <1>10 DEF Dies
  <1>11. ASSUME NEW renames \in BOOLEAN, UserSaves(renames) PROVE SetupTyped'
    BY <1>11 DEF UserSaves, Contents
  <1>12. ASSUME NEW s \in Setups, SyncPublicHalf(s) PROVE SetupTyped'
    BY <1>12 DEF SyncPublicHalf
  <1>13. ASSUME NEW s \in Setups, RemovePrivateHalf(s) PROVE SetupTyped'
    BY <1>13 DEF RemovePrivateHalf
  <1>14. ASSUME UNCHANGED setupVars PROVE SetupTyped'
    BY <1>14 DEF setupVars
  <1> QED
    BY <1>1, <1>2, <1>3, <1>4, <1>5, <1>6, <1>7, <1>8, <1>9, <1>10, <1>11, <1>12, <1>13, <1>14 DEF SetupNext, SetupStep

LEMMA PairIsWholeStep == SetupTyped /\ PairIsWhole /\ [SetupNext]_setupVars => PairIsWhole'
  <1> SUFFICES ASSUME SetupTyped, PairIsWhole, [SetupNext]_setupVars PROVE PairIsWhole'
    OBVIOUS
  <1> USE DEF SetupTyped, SetupPCs, PairIsWhole, In, Moves, Stops, AtRest, keyFiles, sshConfig
  <1>1. ASSUME NEW s \in Setups, DiscoverEd25519Keys(s) PROVE PairIsWhole'
    BY <1>1 DEF DiscoverEd25519Keys
  <1>2. ASSUME NEW s \in Setups, GenerateDedicatedSSHKey(s) PROVE PairIsWhole'
    BY <1>2 DEF GenerateDedicatedSSHKey
  <1>3. ASSUME NEW s \in Setups, WritePrivateHalf(s) PROVE PairIsWhole'
    BY <1>3 DEF WritePrivateHalf, CreatesExclusively
  <1>4. ASSUME NEW s \in Setups, WritePublicHalf(s) PROVE PairIsWhole'
    BY <1>4 DEF WritePublicHalf, CreatesExclusively
  <1>5. ASSUME NEW s \in Setups, EnsureSSHKeyRegistered(s) PROVE PairIsWhole'
    BY <1>5 DEF EnsureSSHKeyRegistered
  <1>6. ASSUME NEW s \in Setups, PrepareSSHInclude(s) PROVE PairIsWhole'
    BY <1>6 DEF PrepareSSHInclude
  <1>7. ASSUME NEW s \in Setups, CheckSSHInclude(s) PROVE PairIsWhole'
    BY <1>7 DEF CheckSSHInclude
  <1>8. ASSUME NEW s \in Setups, TruncateSSHConfig(s) PROVE PairIsWhole'
    BY <1>8 DEF TruncateSSHConfig
  <1>9. ASSUME NEW s \in Setups, WriteSSHConfig(s) PROVE PairIsWhole'
    BY <1>9 DEF WriteSSHConfig
  <1>10. ASSUME NEW s \in Setups, Dies(s) PROVE PairIsWhole'
    BY <1>10 DEF Dies
  <1>11. ASSUME NEW renames \in BOOLEAN, UserSaves(renames) PROVE PairIsWhole'
    BY <1>11 DEF UserSaves
  <1>12. ASSUME NEW s \in Setups, SyncPublicHalf(s) PROVE PairIsWhole'
    BY <1>12 DEF SyncPublicHalf
  <1>13. ASSUME NEW s \in Setups, RemovePrivateHalf(s) PROVE PairIsWhole'
    BY <1>13 DEF RemovePrivateHalf
  <1>14. ASSUME UNCHANGED setupVars PROVE PairIsWhole'
    BY <1>14 DEF setupVars
  <1> QED
    BY <1>1, <1>2, <1>3, <1>4, <1>5, <1>6, <1>7, <1>8, <1>9, <1>10, <1>11, <1>12, <1>13, <1>14 DEF SetupNext, SetupStep

LEMMA SetupInvInit == SetupInit => SetupInv
  <1> SUFFICES ASSUME SetupInit PROVE SetupInv
    OBVIOUS
  <1>0. primary \in Contents
    BY DEF SetupInit, Contents
  <1>a. setup \in [Setups -> [pc : SetupPCs, pair : Setups \cup {Nobody}, original : Contents,
                              inode : 0..MaxSaves, attempt : 1..Attempts]]
    BY AtRestTyped DEF SetupInit
  <1>1. SetupTyped
    <2>1. inode \in 1..saves /\ saves \in 1..MaxSaves /\ deaths \in 0..MaxDeaths
      BY DEF SetupInit
    <2>2. registered \subseteq Setups /\ withdrawn \subseteq Setups
      BY DEF SetupInit
    <2>3. private \in Setups \cup {Nobody} /\ public \in Setups \cup {Nobody}
      BY DEF SetupInit
    <2> QED
      BY <1>0, <1>a, <2>1, <2>2, <2>3 DEF SetupTyped
  <1>2. PairIsWhole
    BY DEF SetupInit, PairIsWhole, In, AtRest
  <1> QED
    BY <1>1, <1>2 DEF SetupInv

\* The inductive invariant: the types and the two halves of a pair.
THEOREM SetupInvariant == SetupSpec => []SetupInv
  <1>1. SetupInv /\ [SetupNext]_setupVars => SetupInv'
    BY SetupTypedStep, PairIsWholeStep DEF SetupInv
  <1> QED
    BY <1>1, SetupInvInit, PTL DEF SetupSpec

\* The types hold, and no edit is tried more often than Attempts.
THEOREM SetupTypeCorrect == SetupSpec => []SetupTypeOK
  <1>1. SetupInv => SetupTypeOK
    BY DEF SetupInv, SetupTyped, SetupTypeOK, Contents
  <1> QED
    BY <1>1, SetupInvariant, PTL

\* The private half on disk is the one of every registered public half, but for the pairs
\* that their own process took back.
THEOREM RegisteredPairsMatch == SetupSpec => []RegisteredPairMatches
  <1>1. SetupInv => RegisteredPairMatches
    BY DEF SetupInv, SetupTyped, PairIsWhole, RegisteredPairMatches
  <1> QED
    BY <1>1, SetupInvariant, PTL

HIDE SetupAssumption DEF Attempts

-----------------------------------------------------------------------------
(* The token session *)

TokenPCs == {"idle", "lock", "load", "refresh", "rotate", "poll", "persist"}

\* The types of TokenTypeOK, with those of the processes; only NoPair has no refresh token.
TokenTyped ==
    /\ stored \in [refresh : 0..issued, session : 0..logins]
    /\ stored # NoPair => stored.refresh \in 1..issued
    /\ fresh \in BOOLEAN
    /\ spent \subseteq 1..issued /\ issued \in 0..MaxPairs /\ logins \in 0..issued
    /\ command \in [Commands -> [pc : TokenPCs, pair : [refresh : 0..issued, session : 0..logins]]]
    /\ losses \in 0..MaxLosses

\* tokens.lock is held by one process, from before it reads the pair until after it writes.
LockIsHeld ==
    /\ holder = {c \in Commands : command[c].pc \in {"load", "refresh", "rotate"}}
    /\ \A c, d \in holder : c = d

\* The pair being refreshed is the stored one, and the rotated one is of its session.
RefreshIsCurrent ==
    \A c \in Commands :
        /\ Is(c, "refresh") => stored # NoPair /\ command[c].pair = stored
        /\ Is(c, "rotate") => stored # NoPair /\ command[c].pair.session = stored.session

Carries(c) == command[c].pc \in {"rotate", "persist"}

\* A pair on its way to tokens.json is the only copy of a token that nobody has used.
CarriedIsNew ==
    /\ \A c \in Commands : Carries(c) =>
          /\ command[c].pair.refresh \in 1..issued
          /\ command[c].pair.refresh \notin spent
          /\ command[c].pair.refresh # stored.refresh
    /\ \A c, d \in Commands : Carries(c) /\ Carries(d) /\ c # d =>
          command[c].pair.refresh # command[d].pair.refresh

\* The stored token is used up only while the process that used it still has its answer.
StoredLives ==
    losses = 0 /\ stored # NoPair /\ (\A c \in Commands : ~Is(c, "rotate")) => Unspent(stored)

TokenInv == TokenTyped /\ LockIsHeld /\ RefreshIsCurrent /\ CarriedIsNew /\ StoredLives

USE TokenAssumption

LEMMA TokenTypedStep == TokenTyped /\ RefreshIsCurrent /\ CarriedIsNew /\ [TokenNext]_tokenVars => TokenTyped'
  <1> SUFFICES ASSUME TokenTyped, RefreshIsCurrent, CarriedIsNew, [TokenNext]_tokenVars PROVE TokenTyped'
    OBVIOUS
  <1> USE DEF Is, Finish, Step, Rests, NoPair, Issue, Unspent, LockIsFree, Acquire, MayPersist, MayDelete, TokenPCs, TokenTyped
  <1>1. ASSUME NEW c \in Commands, LockSession(c) PROVE TokenTyped'
    BY <1>1 DEF LockSession
  <1>2. ASSUME NEW c \in Commands, LoadTokenCredentials(c) PROVE TokenTyped'
    BY <1>2 DEF LoadTokenCredentials
  <1>3. ASSUME NEW c \in Commands, Refresh(c) PROVE TokenTyped'
    <2>1. CASE Unspent(command[c].pair)
      <3>1. issued' = issued + 1 /\ issued' \in 0..MaxPairs /\ UNCHANGED <<stored, fresh, logins, losses>>
        BY <1>3, <2>1 DEF Refresh
      <3>2. command' = [command EXCEPT ![c] = [pc |-> "rotate", pair |-> Issue(command[c].pair.session)]]
        BY <1>3, <2>1 DEF Refresh
      <3>3. Issue(command[c].pair.session) \in [refresh : 0..issued', session : 0..logins]
        BY <3>1
      <3>4. spent' \subseteq 1..issued'
        <4> HIDE DEF NoPair
        <4>1. stored # NoPair /\ command[c].pair = stored
          BY <1>3 DEF Refresh, RefreshIsCurrent
        <4>2. command[c].pair.refresh \in 1..issued
          BY <4>1
        <4>3. spent' = spent \cup {command[c].pair.refresh}
          BY <1>3, <2>1 DEF Refresh
        <4>4. \A i \in 1..issued : i \in 1..issued'
          BY <3>1
        <4> QED
          BY <4>2, <4>3, <4>4
      <3> HIDE DEF Issue
      <3>5. \A d \in Commands : command'[d] \in [pc : TokenPCs, pair : [refresh : 0..issued', session : 0..logins]]
        BY <3>1, <3>2, <3>3
      <3> QED
        BY <3>1, <3>2, <3>4, <3>5
    <2>2. CASE ~Unspent(command[c].pair)
      <3>1. Rests \in [pc : TokenPCs, pair : [refresh : 0..issued, session : 0..logins]]
        OBVIOUS
      <3>2. command' = [command EXCEPT ![c] = Rests] /\ UNCHANGED <<stored, fresh, spent, issued, logins, losses>>
        BY <1>3, <2>2 DEF Refresh
      <3> HIDE DEF Rests, NoPair
      <3> QED
        BY <3>1, <3>2
    <2> QED
      BY <2>1, <2>2
  <1>4. ASSUME NEW c \in Commands, WriteRotated(c) PROVE TokenTyped'
    BY <1>4 DEF WriteRotated, CarriedIsNew, Carries
  <1>5. ASSUME NEW c \in Commands, PollApproved(c) PROVE TokenTyped'
    BY <1>5 DEF PollApproved
  <1>6. ASSUME NEW c \in Commands, PollRefused(c) PROVE TokenTyped'
    BY <1>6 DEF PollRefused
  <1>7. ASSUME NEW c \in Commands, PersistCredentials(c) PROVE TokenTyped'
    BY <1>7 DEF PersistCredentials, CarriedIsNew, Carries
  <1>8. ASSUME NEW c \in Commands, FreshAccessToken(c) PROVE TokenTyped'
    BY <1>8 DEF FreshAccessToken
  <1>9. ASSUME NEW c \in Commands, Authorize(c) PROVE TokenTyped'
    BY <1>9 DEF Authorize
  <1>10. ASSUME NEW c \in Commands, Delete(c) PROVE TokenTyped'
    <2>1. NoPair \in [refresh : 0..issued, session : 0..logins]
      OBVIOUS
    <2> QED
      BY <1>10, <2>1 DEF Delete
  <1>11. ASSUME NEW c \in Commands, Lose(c) PROVE TokenTyped'
    BY <1>11 DEF Lose
  <1>12. ASSUME AccessTokenAges PROVE TokenTyped'
    BY <1>12 DEF AccessTokenAges
  <1>13. ASSUME UNCHANGED tokenVars PROVE TokenTyped'
    BY <1>13 DEF tokenVars
  <1> QED
    BY <1>1, <1>2, <1>3, <1>4, <1>5, <1>6, <1>7, <1>8, <1>9, <1>10, <1>11, <1>12, <1>13 DEF TokenNext, CommandStep

LEMMA LockIsHeldStep == TokenTyped /\ LockIsHeld /\ [TokenNext]_tokenVars => LockIsHeld'
  <1> SUFFICES ASSUME TokenTyped, LockIsHeld, [TokenNext]_tokenVars PROVE LockIsHeld'
    OBVIOUS
  <1> USE DEF Is, Finish, Step, Rests, NoPair, Issue, Unspent, LockIsFree, Acquire, MayPersist, MayDelete, TokenPCs, TokenTyped, LockIsHeld
  <1>1. ASSUME NEW c \in Commands, LockSession(c) PROVE LockIsHeld'
    BY <1>1 DEF LockSession
  <1>2. ASSUME NEW c \in Commands, LoadTokenCredentials(c) PROVE LockIsHeld'
    BY <1>2 DEF LoadTokenCredentials
  <1>3. ASSUME NEW c \in Commands, Refresh(c) PROVE LockIsHeld'
    BY <1>3 DEF Refresh
  <1>4. ASSUME NEW c \in Commands, WriteRotated(c) PROVE LockIsHeld'
    BY <1>4 DEF WriteRotated
  <1>5. ASSUME NEW c \in Commands, PollApproved(c) PROVE LockIsHeld'
    BY <1>5 DEF PollApproved
  <1>6. ASSUME NEW c \in Commands, PollRefused(c) PROVE LockIsHeld'
    BY <1>6 DEF PollRefused
  <1>7. ASSUME NEW c \in Commands, PersistCredentials(c) PROVE LockIsHeld'
    BY <1>7 DEF PersistCredentials
  <1>8. ASSUME NEW c \in Commands, FreshAccessToken(c) PROVE LockIsHeld'
    BY <1>8 DEF FreshAccessToken
  <1>9. ASSUME NEW c \in Commands, Authorize(c) PROVE LockIsHeld'
    BY <1>9 DEF Authorize
  <1>10. ASSUME NEW c \in Commands, Delete(c) PROVE LockIsHeld'
    BY <1>10 DEF Delete
  <1>11. ASSUME NEW c \in Commands, Lose(c) PROVE LockIsHeld'
    BY <1>11 DEF Lose
  <1>12. ASSUME AccessTokenAges PROVE LockIsHeld'
    BY <1>12 DEF AccessTokenAges
  <1>13. ASSUME UNCHANGED tokenVars PROVE LockIsHeld'
    BY <1>13 DEF tokenVars
  <1> QED
    BY <1>1, <1>2, <1>3, <1>4, <1>5, <1>6, <1>7, <1>8, <1>9, <1>10, <1>11, <1>12, <1>13 DEF TokenNext, CommandStep

LEMMA RefreshIsCurrentStep == TokenTyped /\ LockIsHeld /\ RefreshIsCurrent /\ [TokenNext]_tokenVars => RefreshIsCurrent'
  <1> SUFFICES ASSUME TokenTyped, LockIsHeld, RefreshIsCurrent, [TokenNext]_tokenVars PROVE RefreshIsCurrent'
    OBVIOUS
  <1> USE DEF Is, Finish, Step, Rests, NoPair, Issue, Unspent, LockIsFree, Acquire, MayPersist, MayDelete, TokenPCs, TokenTyped, LockIsHeld, RefreshIsCurrent
  <1>1. ASSUME NEW c \in Commands, LockSession(c) PROVE RefreshIsCurrent'
    BY <1>1 DEF LockSession
  <1>2. ASSUME NEW c \in Commands, LoadTokenCredentials(c) PROVE RefreshIsCurrent'
    BY <1>2 DEF LoadTokenCredentials
  <1>3. ASSUME NEW c \in Commands, Refresh(c) PROVE RefreshIsCurrent'
    BY <1>3 DEF Refresh
  <1>4. ASSUME NEW c \in Commands, WriteRotated(c) PROVE RefreshIsCurrent'
    BY <1>4 DEF WriteRotated
  <1>5. ASSUME NEW c \in Commands, PollApproved(c) PROVE RefreshIsCurrent'
    BY <1>5 DEF PollApproved
  <1>6. ASSUME NEW c \in Commands, PollRefused(c) PROVE RefreshIsCurrent'
    BY <1>6 DEF PollRefused
  <1>7. ASSUME NEW c \in Commands, PersistCredentials(c) PROVE RefreshIsCurrent'
    BY <1>7 DEF PersistCredentials
  <1>8. ASSUME NEW c \in Commands, FreshAccessToken(c) PROVE RefreshIsCurrent'
    BY <1>8 DEF FreshAccessToken
  <1>9. ASSUME NEW c \in Commands, Authorize(c) PROVE RefreshIsCurrent'
    BY <1>9 DEF Authorize
  <1>10. ASSUME NEW c \in Commands, Delete(c) PROVE RefreshIsCurrent'
    BY <1>10 DEF Delete
  <1>11. ASSUME NEW c \in Commands, Lose(c) PROVE RefreshIsCurrent'
    BY <1>11 DEF Lose
  <1>12. ASSUME AccessTokenAges PROVE RefreshIsCurrent'
    BY <1>12 DEF AccessTokenAges
  <1>13. ASSUME UNCHANGED tokenVars PROVE RefreshIsCurrent'
    BY <1>13 DEF tokenVars
  <1> QED
    BY <1>1, <1>2, <1>3, <1>4, <1>5, <1>6, <1>7, <1>8, <1>9, <1>10, <1>11, <1>12, <1>13 DEF TokenNext, CommandStep

LEMMA CarriedIsNewStep == TokenTyped /\ LockIsHeld /\ RefreshIsCurrent /\ CarriedIsNew /\ [TokenNext]_tokenVars => CarriedIsNew'
  <1> SUFFICES ASSUME TokenTyped, LockIsHeld, RefreshIsCurrent, CarriedIsNew, [TokenNext]_tokenVars PROVE CarriedIsNew'
    OBVIOUS
  <1> USE DEF Is, Finish, Step, Rests, NoPair, Issue, Unspent, LockIsFree, Acquire, MayPersist, MayDelete, TokenPCs, TokenTyped, LockIsHeld, RefreshIsCurrent, CarriedIsNew, Carries
  <1>1. ASSUME NEW c \in Commands, LockSession(c) PROVE CarriedIsNew'
    BY <1>1 DEF LockSession
  <1>2. ASSUME NEW c \in Commands, LoadTokenCredentials(c) PROVE CarriedIsNew'
    BY <1>2 DEF LoadTokenCredentials
  <1>3. ASSUME NEW c \in Commands, Refresh(c) PROVE CarriedIsNew'
    BY <1>3 DEF Refresh
  <1>4. ASSUME NEW c \in Commands, WriteRotated(c) PROVE CarriedIsNew'
    BY <1>4 DEF WriteRotated
  <1>5. ASSUME NEW c \in Commands, PollApproved(c) PROVE CarriedIsNew'
    BY <1>5 DEF PollApproved
  <1>6. ASSUME NEW c \in Commands, PollRefused(c) PROVE CarriedIsNew'
    BY <1>6 DEF PollRefused
  <1>7. ASSUME NEW c \in Commands, PersistCredentials(c) PROVE CarriedIsNew'
    BY <1>7 DEF PersistCredentials
  <1>8. ASSUME NEW c \in Commands, FreshAccessToken(c) PROVE CarriedIsNew'
    BY <1>8 DEF FreshAccessToken
  <1>9. ASSUME NEW c \in Commands, Authorize(c) PROVE CarriedIsNew'
    BY <1>9 DEF Authorize
  <1>10. ASSUME NEW c \in Commands, Delete(c) PROVE CarriedIsNew'
    BY <1>10 DEF Delete
  <1>11. ASSUME NEW c \in Commands, Lose(c) PROVE CarriedIsNew'
    BY <1>11 DEF Lose
  <1>12. ASSUME AccessTokenAges PROVE CarriedIsNew'
    BY <1>12 DEF AccessTokenAges
  <1>13. ASSUME UNCHANGED tokenVars PROVE CarriedIsNew'
    BY <1>13 DEF tokenVars
  <1> QED
    BY <1>1, <1>2, <1>3, <1>4, <1>5, <1>6, <1>7, <1>8, <1>9, <1>10, <1>11, <1>12, <1>13 DEF TokenNext, CommandStep

LEMMA StoredLivesStep == TokenTyped /\ LockIsHeld /\ RefreshIsCurrent /\ CarriedIsNew /\ StoredLives /\ [TokenNext]_tokenVars => StoredLives'
  <1> SUFFICES ASSUME TokenTyped, LockIsHeld, RefreshIsCurrent, CarriedIsNew, StoredLives, [TokenNext]_tokenVars PROVE StoredLives'
    OBVIOUS
  <1> USE DEF Is, Finish, Step, Rests, NoPair, Issue, Unspent, LockIsFree, Acquire, MayPersist, MayDelete, TokenPCs, TokenTyped, LockIsHeld, StoredLives
  <1>1. ASSUME NEW c \in Commands, LockSession(c) PROVE StoredLives'
    BY <1>1 DEF LockSession
  <1>2. ASSUME NEW c \in Commands, LoadTokenCredentials(c) PROVE StoredLives'
    BY <1>2 DEF LoadTokenCredentials
  <1>3. ASSUME NEW c \in Commands, Refresh(c) PROVE StoredLives'
    BY <1>3 DEF Refresh, RefreshIsCurrent
  <1>4. ASSUME NEW c \in Commands, WriteRotated(c) PROVE StoredLives'
    BY <1>4 DEF WriteRotated, CarriedIsNew, Carries
  <1>5. ASSUME NEW c \in Commands, PollApproved(c) PROVE StoredLives'
    BY <1>5 DEF PollApproved
  <1>6. ASSUME NEW c \in Commands, PollRefused(c) PROVE StoredLives'
    BY <1>6 DEF PollRefused
  <1>7. ASSUME NEW c \in Commands, PersistCredentials(c) PROVE StoredLives'
    BY <1>7 DEF PersistCredentials, CarriedIsNew, Carries
  <1>8. ASSUME NEW c \in Commands, FreshAccessToken(c) PROVE StoredLives'
    BY <1>8 DEF FreshAccessToken
  <1>9. ASSUME NEW c \in Commands, Authorize(c) PROVE StoredLives'
    BY <1>9 DEF Authorize
  <1>10. ASSUME NEW c \in Commands, Delete(c) PROVE StoredLives'
    BY <1>10 DEF Delete
  <1>11. ASSUME NEW c \in Commands, Lose(c) PROVE StoredLives'
    BY <1>11 DEF Lose
  <1>12. ASSUME AccessTokenAges PROVE StoredLives'
    BY <1>12 DEF AccessTokenAges
  <1>13. ASSUME UNCHANGED tokenVars PROVE StoredLives'
    BY <1>13 DEF tokenVars
  <1> QED
    BY <1>1, <1>2, <1>3, <1>4, <1>5, <1>6, <1>7, <1>8, <1>9, <1>10, <1>11, <1>12, <1>13 DEF TokenNext, CommandStep

LEMMA TokenInvInit == TokenInit => TokenInv
  <1> SUFFICES ASSUME TokenInit PROVE TokenInv
    OBVIOUS
  <1>1. NoPair \in [refresh : 0..issued, session : 0..logins] /\ Rests \in [pc : TokenPCs, pair : {NoPair}]
    BY DEF TokenInit, NoPair, Rests, TokenPCs
  <1>2. TokenTyped
    <2>1. command \in [Commands -> [pc : TokenPCs, pair : [refresh : 0..issued, session : 0..logins]]]
      BY <1>1 DEF TokenInit
    <2>2. issued \in 0..MaxPairs /\ logins \in 0..issued /\ losses \in 0..MaxLosses
      BY DEF TokenInit
    <2> QED
      BY <1>1, <2>1, <2>2 DEF TokenInit, TokenTyped
  <1>3. LockIsHeld /\ RefreshIsCurrent /\ CarriedIsNew /\ StoredLives
    BY DEF TokenInit, LockIsHeld, RefreshIsCurrent, CarriedIsNew, Carries, StoredLives, Is, Rests
  <1> QED
    BY <1>2, <1>3 DEF TokenInv

\* The inductive invariant: the lock, and where the live refresh token of the session is.
THEOREM TokenInvariant == TokenSpec => []TokenInv
  <1>1. TokenInv /\ [TokenNext]_tokenVars => TokenInv'
    BY TokenTypedStep, LockIsHeldStep, RefreshIsCurrentStep, CarriedIsNewStep, StoredLivesStep DEF TokenInv
  <1> QED
    BY <1>1, TokenInvInit, PTL DEF TokenSpec

\* The types hold, and one process at a time is behind tokens.lock.
THEOREM TokenTypeCorrect == TokenSpec => []TokenTypeOK
  <1>1. TokenInv => TokenTypeOK
    BY DEF TokenInv, TokenTyped, LockIsHeld, TokenTypeOK, TokenPCs
  <1> QED
    BY <1>1, TokenInvariant, PTL

\* A refresh never touches another session than the stored one, and leaves it alive.
THEOREM SessionStaysIntact == TokenSpec => SessionIsIntact
  <1>1. TokenInv /\ TokenInv' /\ [TokenNext]_tokenVars => [KeepsSession]_tokenVars
    <2> SUFFICES ASSUME TokenInv, TokenInv', TokenNext PROVE KeepsSession
      BY DEF KeepsSession
    <2>1. (losses = 0 /\ holder = {} /\ stored # NoPair => Unspent(stored))'
      BY DEF TokenInv, StoredLives, LockIsHeld, Is
    <2>2. ASSUME NEW c \in Commands, WriteRotated(c)
          PROVE  stored # NoPair /\ stored'.session = stored.session
      BY <2>2 DEF WriteRotated, TokenInv, RefreshIsCurrent
    <2>3. ASSUME NEW c \in Commands, PersistCredentials(c) PROVE LoginWrites
      BY <2>3 DEF PersistCredentials, MayPersist, LoginWrites
    <2>4. ASSUME NEW c \in Commands, Delete(c) PROVE stored' = NoPair
      BY <2>4 DEF Delete
    <2>5. \/ \E c \in Commands : WriteRotated(c) \/ PersistCredentials(c) \/ Delete(c)
          \/ stored' = stored
      BY DEF TokenNext, CommandStep, LockSession, LoadTokenCredentials, Refresh, PollApproved, PollRefused,
             FreshAccessToken, Authorize, Lose, AccessTokenAges
    <2> QED
      BY <2>1, <2>2, <2>3, <2>4, <2>5 DEF KeepsSession
  <1> QED
    BY <1>1, TokenInvariant, PTL DEF TokenSpec, SessionIsIntact

HIDE TokenAssumption

-----------------------------------------------------------------------------
(* The authoring of Profiles *)

AuthorPCs == {"idle", "create", "publish", "save", "select", "record", "remote", "merge"}
Drafts == [head : 0..MaxVersions, refs : Lists, known : BOOLEAN]
Keys == {<<>>, <<"create">>} \cup ({"version"} \X ProfileNames \X (1..MaxVersions))
                             \cup ({"local"} \X ProfileNames \X Lists)

AuthorStates == [pc : AuthorPCs, name : ProfileNames \cup {NoProfile}, key : Keys,
                 head : 0..MaxVersions, refs : Lists, seen : 0..MaxVersions]

\* The types of AuthoringTypeOK.
FilesTyped ==
    /\ drafts \in [ProfileNames -> Drafts]
    /\ selection \in ProfileNames \cup {NoProfile}
    /\ versions \in [ProfileNames -> Seq(Lists)]
    /\ \A n \in ProfileNames : Len(versions[n]) <= MaxVersions

\* A command that runs is about a Profile.
AuthorsTyped ==
    /\ author \in [Authors -> AuthorStates]
    /\ \A a \in Authors : author[a].pc # "idle" => author[a].name \in ProfileNames

AuthoringTyped == FilesTyped /\ AuthorsTyped

\* A command that is to write a draft again has read it, and drafts are never removed.
DraftIsThere ==
    /\ \A a \in Authors :
          author[a].pc \in {"select", "record", "remote", "merge"} \/ (author[a].pc = "publish" /\ author[a].key = <<>>)
             => drafts[author[a].name].known
    /\ \A a \in Authors : author[a].pc = "create" => author[a].key # <<>>
    /\ selection # NoProfile => drafts[selection].known

\* Heads are of versions that are published, and a command comes back with a later head
\* than the one it left with.
HeadsArePublished ==
    /\ \A n \in ProfileNames : drafts[n].head <= Len(versions[n])
    /\ \A a \in Authors :
          /\ author[a].pc = "create" => author[a].head = 0 /\ author[a].seen = 0
          /\ author[a].pc \in {"save", "merge", "record"} => author[a].seen <= Len(versions[author[a].name])
          /\ author[a].pc \in {"remote", "publish"} => author[a].head <= Len(versions[author[a].name])
          /\ author[a].pc \in {"merge", "record"} => author[a].head <= author[a].seen

AuthoringInv == AuthoringTyped /\ DraftIsThere /\ HeadsArePublished

USE AuthoringAssumption

LEMMA ListIsSeq ==
  ASSUME NEW s
  PROVE  s \in Lists <=> s \in Seq(Refs) /\ Len(s) <= MaxDraft /\ IsInjective(s)
  <1>1. ASSUME s \in Lists PROVE s \in Seq(Refs) /\ Len(s) <= MaxDraft /\ IsInjective(s)
    <2>1. PICK n \in 0..MaxDraft : s \in [1..n -> Refs]
      BY <1>1 DEF Lists
    <2>2. s \in Seq(Refs) /\ Len(s) = n
      BY <2>1
    <2> QED
      BY <1>1, <2>2 DEF Lists
  <1>2. ASSUME s \in Seq(Refs), Len(s) <= MaxDraft, IsInjective(s) PROVE s \in Lists
    <2>1. Len(s) \in 0..MaxDraft /\ s \in [1..Len(s) -> Refs]
      BY <1>2, LenProperties
    <2> QED
      BY <1>2, <2>1 DEF Lists
  <1> QED
    BY <1>1, <1>2

LEMMA EmptyIsList == <<>> \in Lists
  <1>1. IsInjective(<<>>)
    BY DEF IsInjective
  <1>2. <<>> \in Seq(Refs) /\ Len(<<>>) <= MaxDraft
    OBVIOUS
  <1> QED
    BY <1>1, <1>2, ListIsSeq, Zenon

\* `devm profile add` appends a Capsule Ref that is not listed.
LEMMA AddKeepsList ==
  ASSUME NEW s \in Lists, NEW ref \in Refs, ~Contains(s, ref), Len(s) < MaxDraft
  PROVE  Append(s, ref) \in Lists
  <1>1. s \in Seq(Refs) /\ IsInjective(s)
    BY ListIsSeq
  <1>2. Append(s, ref) \in Seq(Refs) /\ Len(Append(s, ref)) = Len(s) + 1
    BY <1>1, AppendProperties
  <1>3. \A i \in 1..Len(s) : Append(s, ref)[i] = s[i] /\ s[i] # ref
    BY <1>1, AppendProperties DEF Contains
  <1>4. Append(s, ref)[Len(s) + 1] = ref
    BY <1>1, AppendProperties
  <1>5. \A i, j \in 1..Len(s) : s[i] = s[j] => i = j
    BY <1>1 DEF IsInjective
  <1>6. IsInjective(Append(s, ref))
    BY <1>1, <1>2, <1>3, <1>4, <1>5 DEF IsInjective
  <1>7. Len(Append(s, ref)) <= MaxDraft
    BY <1>1, <1>2
  <1> QED
    BY <1>2, <1>6, <1>7, ListIsSeq, Zenon

\* `devm profile remove` closes the gap.
LEMMA RemoveKeepsList ==
  ASSUME NEW s \in Lists, NEW i \in DOMAIN s
  PROVE  RemoveAt(s, i) \in Lists
  <1> DEFINE front == SubSeq(s, 1, i - 1)
             back == SubSeq(s, i + 1, Len(s))
  <1>1. s \in Seq(Refs) /\ IsInjective(s) /\ Len(s) <= MaxDraft /\ Len(s) \in Nat
    BY ListIsSeq
  <1>2. i \in 1..Len(s)
    BY <1>1
  <1>3. front \in Seq(Refs) /\ Len(front) = i - 1 /\ \A k \in 1..i - 1 : front[k] = s[k]
    BY <1>1, <1>2, SubSeqProperties
  <1>4. back \in Seq(Refs) /\ Len(back) = Len(s) - i /\ \A k \in 1..Len(s) - i : back[k] = s[i + k]
    BY <1>1, <1>2, SubSeqProperties
  <1> HIDE DEF front, back
  <1>5. front \o back \in Seq(Refs) /\ Len(front \o back) = Len(s) - 1
    BY <1>1, <1>2, <1>3, <1>4, ConcatProperties
  <1>6. \A k \in 1..Len(s) - 1 : (front \o back)[k] = s[IF k < i THEN k ELSE k + 1]
    <2> SUFFICES ASSUME NEW k \in 1..Len(s) - 1 PROVE (front \o back)[k] = s[IF k < i THEN k ELSE k + 1]
      OBVIOUS
    <2>1. CASE k < i
      BY <1>1, <1>2, <1>3, <1>4, <2>1, ConcatProperties
    <2>2. CASE ~(k < i)
      <3>1. (front \o back)[k] = back[k - (i - 1)]
        <4>1. k \in 1..(Len(front) + Len(back)) /\ ~(k <= Len(front))
          BY <1>1, <1>2, <1>3, <1>4, <2>2
        <4>2. (front \o back)[k] = back[k - Len(front)]
          BY <1>3, <1>4, <4>1, ConcatProperties
        <4> QED
          BY <1>3, <4>2
      <3>2. k - (i - 1) \in 1..Len(s) - i /\ i + (k - (i - 1)) = k + 1
        BY <1>1, <1>2, <2>2
      <3> QED
        BY <1>4, <3>1, <3>2, <2>2
    <2> QED
      BY <2>1, <2>2
  <1>7. \A j, k \in 1..Len(s) : s[j] = s[k] => j = k
    BY <1>1 DEF IsInjective
  <1>8. IsInjective(front \o back)
    <2>1. DOMAIN (front \o back) = 1..Len(s) - 1
      BY <1>1, <1>5
    <2>2. ASSUME NEW j \in 1..Len(s) - 1, NEW k \in 1..Len(s) - 1, (front \o back)[j] = (front \o back)[k]
          PROVE  j = k
      <3> DEFINE at(m) == IF m < i THEN m ELSE m + 1
      <3>1. at(j) \in 1..Len(s) /\ at(k) \in 1..Len(s)
        BY <1>1, <1>2
      <3>2. s[at(j)] = s[at(k)]
        BY <1>6, <2>2
      <3>3. at(j) = at(k)
        BY <1>7, <3>1, <3>2
      <3> QED
        BY <3>3, <1>1, <1>2
    <2> QED
      BY <2>1, <2>2 DEF IsInjective
  <1>9. RemoveAt(s, i) = front \o back
    BY DEF RemoveAt, front, back
  <1>10. Len(front \o back) <= MaxDraft
    BY <1>1, <1>5
  <1> QED
    BY <1>5, <1>8, <1>9, <1>10, ListIsSeq, Zenon

LEMMA RestingTyped == Resting \in AuthorStates /\ Resting.pc = "idle"
  BY EmptyIsList DEF Resting, AuthorPCs, Keys, AuthorStates

\* A published version is a list of Capsule Refs.
LEMMA RefsAtType ==
  ASSUME FilesTyped, NEW n \in ProfileNames, NEW v \in 0..Len(versions[n])
  PROVE  RefsAt(n, v) \in Lists
  BY EmptyIsList DEF RefsAt, FilesTyped

LEMMA BecomesTyped ==
  ASSUME AuthorsTyped, NEW a \in Authors, NEW next \in AuthorStates,
         next.pc # "idle" => next.name \in ProfileNames,
         author' = [author EXCEPT ![a] = next]
  PROVE  AuthorsTyped'
  BY DEF AuthorsTyped

LEMMA GoesTyped ==
  ASSUME AuthorsTyped, NEW a \in Authors, author[a].pc # "idle", NEW pc \in AuthorPCs, NEW seen \in 0..MaxVersions,
         \/ author' = [author EXCEPT ![a].pc = pc]
         \/ author' = [author EXCEPT ![a].seen = seen, ![a].pc = pc]
         \/ author' = [author EXCEPT ![a].pc = pc, ![a].seen = seen]
  PROVE  AuthorsTyped'
  BY DEF AuthorsTyped, AuthorStates

\* A fork begins as a create does, with a list and a key of its own.
ForkState(n, refs, k) == [Resting EXCEPT !.pc = "create", !.name = n, !.refs = refs, !.key = k]

LEMMA ForkBegins ==
  ASSUME FilesTyped, NEW a \in Authors, NEW n \in ProfileNames, runProfileFork(a, n)
  PROVE  \E refs \in Lists, k \in Keys \ {<<>>} : author' = [author EXCEPT ![a] = ForkState(n, refs, k)]
  <1>1. ASSUME NEW p \in ProfileNames, NEW v \in DOMAIN versions[p]
        PROVE  versions[p][v] \in Lists /\ <<"version", p, v>> \in Keys \ {<<>>}
    BY <1>1 DEF FilesTyped, Keys
  <1>2. ASSUME selection # NoProfile
        PROVE  drafts[selection].refs \in Lists /\ <<"local", selection, drafts[selection].refs>> \in Keys \ {<<>>}
    BY <1>2 DEF FilesTyped, Keys, Drafts
  <1> QED
    BY <1>1, <1>2, Zenon DEF runProfileFork, Begins, ForkState

LEMMA ForkStateTyped ==
  ASSUME NEW n \in ProfileNames, NEW refs \in Lists, NEW k \in Keys
  PROVE  /\ ForkState(n, refs, k) \in AuthorStates
         /\ ForkState(n, refs, k).pc = "create" /\ ForkState(n, refs, k).name = n /\ ForkState(n, refs, k).key = k
         /\ ForkState(n, refs, k).head = 0 /\ ForkState(n, refs, k).seen = 0
  <1>1. "create" \in AuthorPCs
    BY DEF AuthorPCs
  <1>2. ForkState(n, refs, k) \in AuthorStates
    BY <1>1, RestingTyped DEF AuthorStates, ForkState
  <1> QED
    BY <1>2 DEF ForkState, Resting

\* The control plane's answer to a create.
LEMMA CreateGoes ==
  ASSUME NEW a \in Authors, createRemoteProfile(a)
  PROVE  /\ author[a].pc = "create"
         /\ \/ author' = [author EXCEPT ![a] = Resting]
            \/ author' = [author EXCEPT ![a].pc = "save"]
            \/ author' = [author EXCEPT ![a].pc = "publish"]
         /\ UNCHANGED <<drafts, selection, versions>>
  BY Zenon DEF createRemoteProfile, Goes, Returns

\* A version is added at the end.
Grows(n, refs) ==
    /\ Len(versions[n]) + 1 <= MaxVersions
    /\ versions' = [versions EXCEPT ![n] = Append(@, refs)]

\* The control plane's answer to a publication: the version after the head the command has read.
Answers(a, pc) == author' = [author EXCEPT ![a].seen = author[a].head + 1, ![a].pc = pc]

LEMMA PublishGoes ==
  ASSUME NEW a \in Authors, publishProfileVersion(a)
  PROVE  LET n == author[a].name IN
         /\ author[a].pc = "publish"
         /\ UNCHANGED <<drafts, selection>>
         /\ \/ author' = [author EXCEPT ![a] = Resting] /\ UNCHANGED versions
            \/ /\ \/ author[a].key = <<>> /\ Answers(a, "record")
                  \/ author[a].key # <<>> /\ Answers(a, "save")
               /\ \/ author[a].head + 1 \in DOMAIN versions[n] /\ UNCHANGED versions
                  \/ author[a].head + 1 = Len(versions[n]) + 1 /\ Grows(n, author[a].refs)
  BY Zenon DEF publishProfileVersion, Returns, Answers, Grows

LEMMA VersionsGrow ==
  ASSUME FilesTyped, NEW n \in ProfileNames, NEW refs \in Lists, Grows(n, refs)
  PROVE  /\ versions' \in [ProfileNames -> Seq(Lists)]
         /\ \A m \in ProfileNames : Len(versions'[m]) = IF m = n THEN Len(versions[m]) + 1 ELSE Len(versions[m])
         /\ \A m \in ProfileNames : Len(versions'[m]) <= MaxVersions
  <1>1. Append(versions[n], refs) \in Seq(Lists) /\ Len(Append(versions[n], refs)) = Len(versions[n]) + 1
    BY DEF FilesTyped
  <1>2. versions' = [versions EXCEPT ![n] = Append(versions[n], refs)] /\ Len(versions[n]) + 1 <= MaxVersions
    BY DEF Grows
  <1> QED
    BY <1>1, <1>2 DEF FilesTyped

\* No version goes, whoever publishes.
Longer == \A m \in ProfileNames : Len(versions[m]) \in Nat /\ Len(versions'[m]) \in Nat /\ Len(versions'[m]) >= Len(versions[m])

LEMMA VersionsStay ==
  ASSUME FilesTyped
  PROVE  /\ UNCHANGED versions => Longer
         /\ \A n \in ProfileNames, refs \in Lists : Grows(n, refs) => Longer
  <1>1. ASSUME UNCHANGED versions PROVE Longer
    BY <1>1 DEF Longer, FilesTyped
  <1>2. ASSUME NEW n \in ProfileNames, NEW refs \in Lists, Grows(n, refs) PROVE Longer
    <2>1. \A m \in ProfileNames : Len(versions[m]) \in Nat
      BY DEF FilesTyped
    <2>2. \A m \in ProfileNames : Len(versions'[m]) = IF m = n THEN Len(versions[m]) + 1 ELSE Len(versions[m])
      BY <1>2, VersionsGrow
    <2> QED
      BY <2>1, <2>2 DEF Longer
  <1> QED
    BY <1>1, <1>2

LEMMA OtherMachineGrows ==
  ASSUME FilesTyped, NEW n \in ProfileNames, OtherMachine(n)
  PROVE  /\ UNCHANGED <<drafts, selection, author>>
         /\ UNCHANGED versions \/ \E refs \in Lists : Grows(n, refs)
  <1>1. Len(versions[n]) < MaxVersions => Len(versions[n]) + 1 <= MaxVersions
    BY DEF FilesTyped
  <1> QED
    BY <1>1, Zenon DEF OtherMachine, Grows

\* A publication that is answered is there.
LEMMA PublishedIsThere ==
  ASSUME FilesTyped, AuthorsTyped, NEW a \in Authors, publishProfileVersion(a)
  PROVE  /\ author[a].name \in ProfileNames
         /\ author[a].refs \in Lists
         /\ UNCHANGED versions \/ Grows(author[a].name, author[a].refs)
         /\ Longer
         /\ \/ author' = [author EXCEPT ![a] = Resting]
            \/ /\ (author[a].key = <<>> /\ Answers(a, "record")) \/ (author[a].key # <<>> /\ Answers(a, "save"))
               /\ author[a].head + 1 <= Len(versions'[author[a].name])
               /\ author[a].head + 1 \in 0..MaxVersions
  <1>1. author[a].name \in ProfileNames /\ author[a].refs \in Lists /\ author[a].head \in 0..MaxVersions
    BY PublishGoes DEF AuthorsTyped, AuthorStates
  <1>2. UNCHANGED versions \/ Grows(author[a].name, author[a].refs)
    BY PublishGoes
  <1>3. Longer
    BY <1>1, <1>2, VersionsStay
  <1>4. ASSUME author[a].head + 1 \in DOMAIN versions[author[a].name], UNCHANGED versions
        PROVE  /\ author[a].head + 1 <= Len(versions'[author[a].name])
               /\ author[a].head + 1 \in 0..MaxVersions
    BY <1>1, <1>4 DEF FilesTyped
  <1>5. ASSUME author[a].head + 1 = Len(versions[author[a].name]) + 1, Grows(author[a].name, author[a].refs)
        PROVE  /\ author[a].head + 1 <= Len(versions'[author[a].name])
               /\ author[a].head + 1 \in 0..MaxVersions
    <2>1. Len(versions'[author[a].name]) = Len(versions[author[a].name]) + 1
      BY <1>1, <1>5, VersionsGrow
    <2> QED
      BY <1>1, <1>5, <2>1, VersionsGrow
  <1>6. CASE author' = [author EXCEPT ![a] = Resting]
    BY <1>1, <1>2, <1>3, <1>6
  <1>7. CASE author' # [author EXCEPT ![a] = Resting]
    <2>1. (author[a].key = <<>> /\ Answers(a, "record")) \/ (author[a].key # <<>> /\ Answers(a, "save"))
      BY <1>7, PublishGoes
    <2>2. \/ author[a].head + 1 \in DOMAIN versions[author[a].name] /\ UNCHANGED versions
          \/ author[a].head + 1 = Len(versions[author[a].name]) + 1 /\ Grows(author[a].name, author[a].refs)
      BY <1>7, PublishGoes
    <2> QED
      BY <1>1, <1>2, <1>3, <1>4, <1>5, <2>1, <2>2
  <1> QED
    BY <1>6, <1>7

LEMMA FilesTypedStep == FilesTyped /\ AuthorsTyped /\ HeadsArePublished /\ [AuthoringNext]_authoringVars => FilesTyped'
  <1> SUFFICES ASSUME FilesTyped, AuthorsTyped, HeadsArePublished, [AuthoringNext]_authoringVars PROVE FilesTyped'
    OBVIOUS
  <1> USE DEF FilesTyped, Begins, Goes, Returns
  <1>1. ASSUME NEW a \in Authors, NEW n \in ProfileNames, runProfileCreate(a, n) PROVE FilesTyped'
    BY <1>1 DEF runProfileCreate
  <1>2. ASSUME NEW a \in Authors, NEW n \in ProfileNames, runProfileFork(a, n) PROVE FilesTyped'
    BY <1>2 DEF runProfileFork
  <1>3. ASSUME NEW a \in Authors, NEW n \in ProfileNames, runProfileSelect(a, n) PROVE FilesTyped'
    BY <1>3 DEF runProfileSelect
  <1>4. ASSUME NEW a \in Authors, NEW ref \in Refs, runProfileAdd(a, ref) PROVE FilesTyped'
    BY <1>4, AddKeepsList DEF runProfileAdd, Edits, Drafts
  <1>5. ASSUME NEW a \in Authors, NEW ref \in Refs, runProfileRemove(a, ref) PROVE FilesTyped'
    <2>1. PICK i \in DOMAIN drafts[selection].refs : Edits(a, RemoveAt(drafts[selection].refs, i))
      BY <1>5 DEF runProfileRemove
    <2>2. selection \in ProfileNames /\ drafts[selection].refs \in Lists
      BY <1>5 DEF runProfileRemove, Drafts
    <2>3. RemoveAt(drafts[selection].refs, i) \in Lists
      BY <2>2, RemoveKeepsList
    <2> QED
      BY <2>1, <2>2, <2>3 DEF Edits, Drafts
  <1>6. ASSUME NEW a \in Authors, runProfilePublish(a) PROVE FilesTyped'
    BY <1>6 DEF runProfilePublish
  <1>7. ASSUME NEW a \in Authors, runProfileRefresh(a) PROVE FilesTyped'
    BY <1>7 DEF runProfileRefresh
  <1>8. ASSUME NEW a \in Authors, createRemoteProfile(a) PROVE FilesTyped'
    BY <1>8, CreateGoes DEF createRemoteProfile, FilesTyped
  <1>9. ASSUME NEW a \in Authors, publishProfileVersion(a) PROVE FilesTyped'
    <2>1. UNCHANGED <<drafts, selection>>
      BY <1>9, PublishGoes
    <2> QED
      BY <1>9, <2>1, PublishedIsThere, VersionsGrow
  <1>10. ASSUME NEW a \in Authors, getProfile(a) PROVE FilesTyped'
    BY <1>10 DEF getProfile
  <1>11. ASSUME NEW a \in Authors, SaveAuthoringProfile(a) PROVE FilesTyped'
    BY <1>11 DEF SaveAuthoringProfile, Drafts, Draft, AuthorsTyped, AuthorStates
  <1>12. ASSUME NEW a \in Authors, writeProfileSelection(a) PROVE FilesTyped'
    BY <1>12 DEF writeProfileSelection, AuthorsTyped
  <1>13. ASSUME NEW a \in Authors, RecordPublication(a) PROVE FilesTyped'
    BY <1>13 DEF RecordPublication, Drafts, AuthorsTyped, AuthorStates
  <1>14. ASSUME NEW a \in Authors, MergeRefresh(a) PROVE FilesTyped'
    BY <1>14, RefsAtType DEF MergeRefresh, HeadsArePublished, Drafts, Draft, AuthorsTyped, AuthorStates
  <1>15. ASSUME NEW a \in Authors, Interrupted(a) PROVE FilesTyped'
    BY <1>15 DEF Interrupted
  <1>16. ASSUME NEW n \in ProfileNames, OtherMachine(n) PROVE FilesTyped'
    BY <1>16, OtherMachineGrows, VersionsGrow DEF OtherMachine, FilesTyped
  <1>17. ASSUME UNCHANGED authoringVars PROVE FilesTyped'
    BY <1>17 DEF authoringVars, FilesTyped
  <1> QED
    BY <1>1, <1>2, <1>3, <1>4, <1>5, <1>6, <1>7, <1>8, <1>9, <1>10, <1>11, <1>12, <1>13, <1>14, <1>15, <1>16, <1>17 DEF AuthoringNext

LEMMA AuthorsTypedStep == FilesTyped /\ AuthorsTyped /\ [AuthoringNext]_authoringVars => AuthorsTyped'
  <1> SUFFICES ASSUME FilesTyped, AuthorsTyped, [AuthoringNext]_authoringVars PROVE AuthorsTyped'
    OBVIOUS
  <1> USE DEF Begins, Goes, Returns
  <1>1. ASSUME NEW a \in Authors, NEW n \in ProfileNames, runProfileCreate(a, n) PROVE AuthorsTyped'
    <2> DEFINE next == [Resting EXCEPT !.pc = "create", !.name = n, !.key = <<"create">>]
    <2>1. <<"create">> \in Keys /\ "create" \in AuthorPCs
      BY DEF AuthorPCs, Keys
    <2>4. next \in AuthorStates
      BY <2>1, RestingTyped DEF AuthorStates
    <2>2. next.name = n
      BY DEF Resting
    <2>3. author' = [author EXCEPT ![a] = next]
      BY <1>1 DEF runProfileCreate
    <2> HIDE DEF next
    <2> QED
      BY <2>2, <2>3, <2>4, BecomesTyped
  <1>2. ASSUME NEW a \in Authors, NEW n \in ProfileNames, runProfileFork(a, n) PROVE AuthorsTyped'
    <2>1. PICK refs \in Lists, k \in Keys \ {<<>>} : author' = [author EXCEPT ![a] = ForkState(n, refs, k)]
      BY <1>2, ForkBegins
    <2>2. ForkState(n, refs, k) \in AuthorStates /\ ForkState(n, refs, k).name = n
      BY ForkStateTyped
    <2> QED
      BY <2>1, <2>2, BecomesTyped
  <1>3. ASSUME NEW a \in Authors, NEW n \in ProfileNames, runProfileSelect(a, n) PROVE AuthorsTyped'
    BY <1>3, BecomesTyped, RestingTyped DEF runProfileSelect
  <1>4. ASSUME NEW a \in Authors, NEW ref \in Refs, runProfileAdd(a, ref) PROVE AuthorsTyped'
    BY <1>4, BecomesTyped, RestingTyped DEF runProfileAdd, Edits
  <1>5. ASSUME NEW a \in Authors, NEW ref \in Refs, runProfileRemove(a, ref) PROVE AuthorsTyped'
    BY <1>5, BecomesTyped, RestingTyped DEF runProfileRemove, Edits
  <1>6. ASSUME NEW a \in Authors, runProfilePublish(a) PROVE AuthorsTyped'
    <2> DEFINE next == [Resting EXCEPT !.pc = "publish", !.name = selection,
                                       !.head = drafts[selection].head, !.refs = drafts[selection].refs]
    <2>1. selection \in ProfileNames /\ drafts[selection] \in Drafts
      BY <1>6 DEF runProfilePublish, FilesTyped
    <2>2. next \in AuthorStates
      <3>1. "publish" \in AuthorPCs
        BY DEF AuthorPCs
      <3> QED
        BY <2>1, <3>1, RestingTyped DEF AuthorStates, Drafts
    <2>3. next.name = selection
      BY DEF Resting
    <2>4. author' = [author EXCEPT ![a] = next]
      BY <1>6 DEF runProfilePublish
    <2> HIDE DEF next
    <2> QED
      BY <2>1, <2>2, <2>3, <2>4, BecomesTyped
  <1>7. ASSUME NEW a \in Authors, runProfileRefresh(a) PROVE AuthorsTyped'
    <2> DEFINE next == [Resting EXCEPT !.pc = "remote", !.name = selection, !.head = drafts[selection].head]
    <2>1. selection \in ProfileNames /\ drafts[selection] \in Drafts
      BY <1>7 DEF runProfileRefresh, FilesTyped
    <2>2. next \in AuthorStates
      <3>1. "remote" \in AuthorPCs
        BY DEF AuthorPCs
      <3> QED
        BY <2>1, <3>1, RestingTyped DEF AuthorStates, Drafts
    <2>3. next.name = selection
      BY DEF Resting
    <2>4. author' = [author EXCEPT ![a] = next]
      BY <1>7 DEF runProfileRefresh
    <2> HIDE DEF next
    <2> QED
      BY <2>1, <2>2, <2>3, <2>4, BecomesTyped
  <1>8. ASSUME NEW a \in Authors, createRemoteProfile(a) PROVE AuthorsTyped'
    <2>1. "save" \in AuthorPCs /\ "publish" \in AuthorPCs /\ 0 \in 0..MaxVersions
      BY DEF AuthorPCs
    <2> QED
      BY <1>8, <2>1, CreateGoes, GoesTyped, BecomesTyped, RestingTyped
  <1>9. ASSUME NEW a \in Authors, publishProfileVersion(a) PROVE AuthorsTyped'
    <2>1. "record" \in AuthorPCs /\ "save" \in AuthorPCs /\ author[a].pc # "idle"
      BY <1>9, PublishGoes DEF AuthorPCs
    <2> QED
      BY <1>9, <2>1, PublishedIsThere, BecomesTyped, RestingTyped, GoesTyped DEF Answers
  <1>10. ASSUME NEW a \in Authors, getProfile(a) PROVE AuthorsTyped'
    <2>1. Len(versions[author[a].name]) \in 0..MaxVersions
      BY <1>10 DEF getProfile, FilesTyped, AuthorsTyped
    <2> QED
      <3>1. "merge" \in AuthorPCs /\ author[a].pc # "idle"
        BY <1>10 DEF getProfile, AuthorPCs
      <3>2. author' = [author EXCEPT ![a].pc = "merge", ![a].seen = Len(versions[author[a].name])]
        BY <1>10 DEF getProfile
      <3> QED
        BY <2>1, <3>1, <3>2, GoesTyped
  <1>11. ASSUME NEW a \in Authors, SaveAuthoringProfile(a) PROVE AuthorsTyped'
    <2>1. "select" \in AuthorPCs /\ 0 \in 0..MaxVersions
      BY DEF AuthorPCs
    <2> QED
      BY <1>11, <2>1, GoesTyped DEF SaveAuthoringProfile
  <1>12. ASSUME NEW a \in Authors, writeProfileSelection(a) PROVE AuthorsTyped'
    BY <1>12, BecomesTyped, RestingTyped DEF writeProfileSelection
  <1>13. ASSUME NEW a \in Authors, RecordPublication(a) PROVE AuthorsTyped'
    BY <1>13, BecomesTyped, RestingTyped DEF RecordPublication
  <1>14. ASSUME NEW a \in Authors, MergeRefresh(a) PROVE AuthorsTyped'
    BY <1>14, BecomesTyped, RestingTyped DEF MergeRefresh
  <1>15. ASSUME NEW a \in Authors, Interrupted(a) PROVE AuthorsTyped'
    BY <1>15, BecomesTyped, RestingTyped DEF Interrupted
  <1>16. ASSUME NEW n \in ProfileNames, OtherMachine(n) PROVE AuthorsTyped'
    BY <1>16 DEF OtherMachine, AuthorsTyped
  <1>17. ASSUME UNCHANGED authoringVars PROVE AuthorsTyped'
    BY <1>17 DEF authoringVars, AuthorsTyped
  <1> QED
    BY <1>1, <1>2, <1>3, <1>4, <1>5, <1>6, <1>7, <1>8, <1>9, <1>10, <1>11, <1>12, <1>13, <1>14, <1>15, <1>16, <1>17 DEF AuthoringNext

LEMMA DraftIsThereStep == FilesTyped /\ AuthorsTyped /\ DraftIsThere /\ [AuthoringNext]_authoringVars => DraftIsThere'
  <1> SUFFICES ASSUME FilesTyped, AuthorsTyped, DraftIsThere, [AuthoringNext]_authoringVars PROVE DraftIsThere'
    OBVIOUS
  <1>1. ASSUME NEW a \in Authors, NEW n \in ProfileNames, runProfileCreate(a, n) PROVE DraftIsThere'
    BY <1>1 DEF runProfileCreate, FilesTyped, AuthorsTyped, Begins, Goes, Returns, Drafts, AuthorStates, DraftIsThere, Resting
  <1>2. ASSUME NEW a \in Authors, NEW n \in ProfileNames, runProfileFork(a, n) PROVE DraftIsThere'
    <2>1. PICK refs \in Lists, k \in Keys \ {<<>>} : author' = [author EXCEPT ![a] = ForkState(n, refs, k)]
      BY <1>2, ForkBegins
    <2>2. UNCHANGED <<drafts, selection, versions>>
      BY <1>2 DEF runProfileFork
    <2> QED
      BY <2>1, <2>2, ForkStateTyped DEF AuthorsTyped, DraftIsThere
  <1>3. ASSUME NEW a \in Authors, NEW n \in ProfileNames, runProfileSelect(a, n) PROVE DraftIsThere'
    BY <1>3 DEF runProfileSelect, FilesTyped, AuthorsTyped, Begins, Goes, Returns, Drafts, AuthorStates, DraftIsThere, Resting
  <1>4. ASSUME NEW a \in Authors, NEW ref \in Refs, runProfileAdd(a, ref) PROVE DraftIsThere'
    BY <1>4 DEF runProfileAdd, FilesTyped, AuthorsTyped, Begins, Goes, Returns, Drafts, AuthorStates, DraftIsThere, Resting, Edits
  <1>5. ASSUME NEW a \in Authors, NEW ref \in Refs, runProfileRemove(a, ref) PROVE DraftIsThere'
    BY <1>5 DEF runProfileRemove, FilesTyped, AuthorsTyped, Begins, Goes, Returns, Drafts, AuthorStates, DraftIsThere, Resting, Edits
  <1>6. ASSUME NEW a \in Authors, runProfilePublish(a) PROVE DraftIsThere'
    BY <1>6 DEF runProfilePublish, FilesTyped, AuthorsTyped, Begins, Goes, Returns, Drafts, AuthorStates, DraftIsThere, Resting
  <1>7. ASSUME NEW a \in Authors, runProfileRefresh(a) PROVE DraftIsThere'
    BY <1>7 DEF runProfileRefresh, FilesTyped, AuthorsTyped, Begins, Goes, Returns, Drafts, AuthorStates, DraftIsThere, Resting
  <1>8. ASSUME NEW a \in Authors, createRemoteProfile(a) PROVE DraftIsThere'
    <2>1. author[a].key # <<>>
      BY <1>8, CreateGoes DEF DraftIsThere
    <2>2. UNCHANGED <<drafts, selection, versions>> /\ author[a].pc = "create"
      BY <1>8, CreateGoes
    <2>3. CASE author' = [author EXCEPT ![a] = Resting]
      BY <2>2, <2>3, RestingTyped DEF AuthorsTyped, DraftIsThere
    <2>4. CASE author' = [author EXCEPT ![a].pc = "save"]
      BY <2>2, <2>4 DEF AuthorsTyped, AuthorStates, FilesTyped, DraftIsThere
    <2>5. CASE author' = [author EXCEPT ![a].pc = "publish"]
      BY <2>1, <2>2, <2>5 DEF AuthorsTyped, AuthorStates, FilesTyped, DraftIsThere
    <2> QED
      BY <1>8, <2>3, <2>4, <2>5, CreateGoes
  <1>9. ASSUME NEW a \in Authors, publishProfileVersion(a) PROVE DraftIsThere'
    <2>1. author[a].pc = "publish" /\ UNCHANGED <<drafts, selection>>
      BY <1>9, PublishGoes
    <2> QED
      <3>0. Longer /\ author[a].name \in ProfileNames /\ author[a].head \in Nat
        BY <1>9, PublishedIsThere DEF AuthorsTyped, AuthorStates
      <3>1. CASE author' = [author EXCEPT ![a] = Resting]
        BY <2>1, <3>0, <3>1, RestingTyped DEF AuthorsTyped, AuthorStates, DraftIsThere, Answers
      <3>2. CASE author[a].key = <<>> /\ Answers(a, "record")
        BY <2>1, <3>0, <3>2 DEF AuthorsTyped, AuthorStates, DraftIsThere, Answers
      <3>3. CASE author[a].key # <<>> /\ Answers(a, "save")
        BY <2>1, <3>0, <3>3 DEF AuthorsTyped, AuthorStates, DraftIsThere, Answers
      <3> QED
        BY <1>9, <3>1, <3>2, <3>3, PublishedIsThere
  <1>10. ASSUME NEW a \in Authors, getProfile(a) PROVE DraftIsThere'
    <2>1. UNCHANGED <<drafts, selection>> /\ author[a].pc = "remote"
      BY <1>10 DEF getProfile
    <2>2. /\ \A b \in Authors \ {a} : author'[b] = author[b]
          /\ author'[a].pc = "merge" /\ author'[a].name = author[a].name
      BY <1>10 DEF getProfile, AuthorsTyped, AuthorStates
    <2> QED
      BY <2>1, <2>2 DEF DraftIsThere
  <1>11. ASSUME NEW a \in Authors, SaveAuthoringProfile(a) PROVE DraftIsThere'
    BY <1>11 DEF SaveAuthoringProfile, FilesTyped, AuthorsTyped, Begins, Goes, Returns, Drafts, AuthorStates, DraftIsThere, Resting, Draft
  <1>12. ASSUME NEW a \in Authors, writeProfileSelection(a) PROVE DraftIsThere'
    BY <1>12 DEF writeProfileSelection, FilesTyped, AuthorsTyped, Begins, Goes, Returns, Drafts, AuthorStates, DraftIsThere, Resting
  <1>13. ASSUME NEW a \in Authors, RecordPublication(a) PROVE DraftIsThere'
    BY <1>13 DEF RecordPublication, FilesTyped, AuthorsTyped, Begins, Goes, Returns, Drafts, AuthorStates, DraftIsThere, Resting
  <1>14. ASSUME NEW a \in Authors, MergeRefresh(a) PROVE DraftIsThere'
    BY <1>14 DEF MergeRefresh, FilesTyped, AuthorsTyped, Begins, Goes, Returns, Drafts, AuthorStates, DraftIsThere, Resting, Draft
  <1>15. ASSUME NEW a \in Authors, Interrupted(a) PROVE DraftIsThere'
    BY <1>15 DEF Interrupted, FilesTyped, AuthorsTyped, Begins, Goes, Returns, Drafts, AuthorStates, DraftIsThere, Resting
  <1>16. ASSUME NEW n \in ProfileNames, OtherMachine(n) PROVE DraftIsThere'
    BY <1>16 DEF OtherMachine, FilesTyped, AuthorsTyped, Begins, Goes, Returns, Drafts, AuthorStates, DraftIsThere, Resting
  <1>17. ASSUME UNCHANGED authoringVars PROVE DraftIsThere'
    BY <1>17 DEF authoringVars, DraftIsThere
  <1> QED
    BY <1>1, <1>2, <1>3, <1>4, <1>5, <1>6, <1>7, <1>8, <1>9, <1>10, <1>11, <1>12, <1>13, <1>14, <1>15, <1>16, <1>17 DEF AuthoringNext

LEMMA HeadsArePublishedStep == FilesTyped /\ AuthorsTyped /\ HeadsArePublished /\ [AuthoringNext]_authoringVars => HeadsArePublished'
  <1> SUFFICES ASSUME FilesTyped, AuthorsTyped, HeadsArePublished, [AuthoringNext]_authoringVars PROVE HeadsArePublished'
    OBVIOUS
  <1>1. ASSUME NEW a \in Authors, NEW n \in ProfileNames, runProfileCreate(a, n) PROVE HeadsArePublished'
    BY <1>1 DEF runProfileCreate, FilesTyped, AuthorsTyped, Begins, Goes, Returns, Drafts, AuthorStates, HeadsArePublished, Resting
  <1>2. ASSUME NEW a \in Authors, NEW n \in ProfileNames, runProfileFork(a, n) PROVE HeadsArePublished'
    <2>1. PICK refs \in Lists, k \in Keys \ {<<>>} : author' = [author EXCEPT ![a] = ForkState(n, refs, k)]
      BY <1>2, ForkBegins
    <2>2. UNCHANGED <<drafts, selection, versions>>
      BY <1>2 DEF runProfileFork
    <2> QED
      BY <2>1, <2>2, ForkStateTyped DEF AuthorsTyped, HeadsArePublished
  <1>3. ASSUME NEW a \in Authors, NEW n \in ProfileNames, runProfileSelect(a, n) PROVE HeadsArePublished'
    BY <1>3 DEF runProfileSelect, FilesTyped, AuthorsTyped, Begins, Goes, Returns, Drafts, AuthorStates, HeadsArePublished, Resting
  <1>4. ASSUME NEW a \in Authors, NEW ref \in Refs, runProfileAdd(a, ref) PROVE HeadsArePublished'
    BY <1>4 DEF runProfileAdd, FilesTyped, AuthorsTyped, Begins, Goes, Returns, Drafts, AuthorStates, HeadsArePublished, Resting, Edits
  <1>5. ASSUME NEW a \in Authors, NEW ref \in Refs, runProfileRemove(a, ref) PROVE HeadsArePublished'
    BY <1>5 DEF runProfileRemove, FilesTyped, AuthorsTyped, Begins, Goes, Returns, Drafts, AuthorStates, HeadsArePublished, Resting, Edits
  <1>6. ASSUME NEW a \in Authors, runProfilePublish(a) PROVE HeadsArePublished'
    BY <1>6 DEF runProfilePublish, FilesTyped, AuthorsTyped, Begins, Goes, Returns, Drafts, AuthorStates, HeadsArePublished, Resting
  <1>7. ASSUME NEW a \in Authors, runProfileRefresh(a) PROVE HeadsArePublished'
    BY <1>7 DEF runProfileRefresh, FilesTyped, AuthorsTyped, Begins, Goes, Returns, Drafts, AuthorStates, HeadsArePublished, Resting
  <1>8. ASSUME NEW a \in Authors, createRemoteProfile(a) PROVE HeadsArePublished'
    <2>2. UNCHANGED <<drafts, selection, versions>> /\ author[a].pc = "create"
      BY <1>8, CreateGoes
    <2>3. CASE author' = [author EXCEPT ![a] = Resting]
      BY <2>2, <2>3, RestingTyped DEF AuthorsTyped, HeadsArePublished
    <2>4. CASE author' = [author EXCEPT ![a].pc = "save"]
      BY <2>2, <2>4 DEF AuthorsTyped, AuthorStates, FilesTyped, HeadsArePublished
    <2>5. CASE author' = [author EXCEPT ![a].pc = "publish"]
      BY <2>2, <2>5 DEF AuthorsTyped, AuthorStates, FilesTyped, HeadsArePublished
    <2> QED
      BY <1>8, <2>3, <2>4, <2>5, CreateGoes
  <1>9. ASSUME NEW a \in Authors, publishProfileVersion(a) PROVE HeadsArePublished'
    <2>1. author[a].pc = "publish" /\ UNCHANGED <<drafts, selection>>
      BY <1>9, PublishGoes
    <2> QED
      <3>0. Longer /\ author[a].name \in ProfileNames /\ author[a].head \in Nat
        BY <1>9, PublishedIsThere DEF AuthorsTyped, AuthorStates
      <3>1. CASE author' = [author EXCEPT ![a] = Resting]
        BY <2>1, <3>0, <3>1, RestingTyped, SMTT(30) DEF AuthorsTyped, AuthorStates, HeadsArePublished, Answers, Longer, FilesTyped, Drafts
      <3>2. CASE author[a].key = <<>> /\ Answers(a, "record") /\ author[a].head + 1 <= Len(versions'[author[a].name])
        BY <2>1, <3>0, <3>2, SMTT(30) DEF AuthorsTyped, AuthorStates, HeadsArePublished, Answers, Longer, FilesTyped, Drafts
      <3>3. CASE author[a].key # <<>> /\ Answers(a, "save") /\ author[a].head + 1 <= Len(versions'[author[a].name])
        BY <2>1, <3>0, <3>3, SMTT(30) DEF AuthorsTyped, AuthorStates, HeadsArePublished, Answers, Longer, FilesTyped, Drafts
      <3> QED
        BY <1>9, <3>1, <3>2, <3>3, PublishedIsThere
  <1>10. ASSUME NEW a \in Authors, getProfile(a) PROVE HeadsArePublished'
    BY <1>10 DEF getProfile, FilesTyped, AuthorsTyped, Begins, Goes, Returns, Drafts, AuthorStates, HeadsArePublished, Resting
  <1>11. ASSUME NEW a \in Authors, SaveAuthoringProfile(a) PROVE HeadsArePublished'
    BY <1>11 DEF SaveAuthoringProfile, FilesTyped, AuthorsTyped, Begins, Goes, Returns, Drafts, AuthorStates, HeadsArePublished, Resting, Draft
  <1>12. ASSUME NEW a \in Authors, writeProfileSelection(a) PROVE HeadsArePublished'
    BY <1>12 DEF writeProfileSelection, FilesTyped, AuthorsTyped, Begins, Goes, Returns, Drafts, AuthorStates, HeadsArePublished, Resting
  <1>13. ASSUME NEW a \in Authors, RecordPublication(a) PROVE HeadsArePublished'
    BY <1>13 DEF RecordPublication, FilesTyped, AuthorsTyped, Begins, Goes, Returns, Drafts, AuthorStates, HeadsArePublished, Resting
  <1>14. ASSUME NEW a \in Authors, MergeRefresh(a) PROVE HeadsArePublished'
    BY <1>14 DEF MergeRefresh, FilesTyped, AuthorsTyped, Begins, Goes, Returns, Drafts, AuthorStates, HeadsArePublished, Resting, Draft
  <1>15. ASSUME NEW a \in Authors, Interrupted(a) PROVE HeadsArePublished'
    BY <1>15 DEF Interrupted, FilesTyped, AuthorsTyped, Begins, Goes, Returns, Drafts, AuthorStates, HeadsArePublished, Resting
  <1>16. ASSUME NEW n \in ProfileNames, OtherMachine(n) PROVE HeadsArePublished'
    <2>1. UNCHANGED <<drafts, selection, author>> /\ Longer
      BY <1>16, OtherMachineGrows, VersionsStay
    <2> QED
      BY <2>1 DEF AuthorsTyped, AuthorStates, HeadsArePublished, Longer, FilesTyped, Drafts
  <1>17. ASSUME UNCHANGED authoringVars PROVE HeadsArePublished'
    BY <1>17 DEF authoringVars, HeadsArePublished
  <1> QED
    BY <1>1, <1>2, <1>3, <1>4, <1>5, <1>6, <1>7, <1>8, <1>9, <1>10, <1>11, <1>12, <1>13, <1>14, <1>15, <1>16, <1>17 DEF AuthoringNext

LEMMA AuthoringInvInit == AuthoringInit => AuthoringInv
  <1> SUFFICES ASSUME AuthoringInit PROVE AuthoringInv
    OBVIOUS
  <1>1. NoDraft \in Drafts
    BY EmptyIsList DEF NoDraft, Drafts
  <1>2. AuthoringTyped
    BY <1>1, RestingTyped, EmptySeq DEF AuthoringInit, AuthoringTyped, FilesTyped, AuthorsTyped
  <1>3. DraftIsThere /\ HeadsArePublished
    BY EmptySeq DEF AuthoringInit, DraftIsThere, HeadsArePublished, Resting, NoDraft
  <1> QED
    BY <1>2, <1>3 DEF AuthoringInv

\* The inductive invariant: drafts are of published heads, and there for who writes them.
THEOREM AuthoringInvariant == AuthoringSpec => []AuthoringInv
  <1>1. AuthoringInv /\ [AuthoringNext]_authoringVars => AuthoringInv'
    BY FilesTypedStep, AuthorsTypedStep, DraftIsThereStep, HeadsArePublishedStep DEF AuthoringInv, AuthoringTyped
  <1> QED
    BY <1>1, AuthoringInvInit, PTL DEF AuthoringSpec

\* The types hold: a list never names a Capsule twice, and no version is out of reach.
THEOREM AuthoringTypeCorrect == AuthoringSpec => []AuthoringTypeOK
  <1>1. AuthoringInv => AuthoringTypeOK
    BY DEF AuthoringInv, AuthoringTyped, FilesTyped, AuthorsTyped, AuthorStates, AuthoringTypeOK, AuthorPCs, Drafts
  <1> QED
    BY <1>1, AuthoringInvariant, PTL

\* Only the User's own add and remove change what a draft has not published.
THEOREM DraftsStay == AuthoringSpec => DraftsAreKept
  <1>1. AuthoringInv /\ AuthoringInv' /\ [AuthoringNext]_authoringVars => [KeepsDrafts]_authoringVars
    <2> SUFFICES ASSUME AuthoringInv, AuthoringInv', AuthoringNext PROVE KeepsDrafts
      BY DEF KeepsDrafts
    <2> USE DEF AuthoringInv, AuthoringTyped, FilesTyped, AuthorsTyped, AuthorStates, Drafts
    <2>1. selection' # NoProfile => drafts'[selection'].known
      BY DEF DraftIsThere
    <2>2. ASSUME drafts' = drafts PROVE KeepsDrafts
      BY <2>1, <2>2 DEF KeepsDrafts
    <2>3. ASSUME NEW a \in Authors, NEW ref \in Refs, runProfileAdd(a, ref) \/ runProfileRemove(a, ref)
          PROVE  KeepsDrafts
      <3>1. PICK refs : drafts' = [drafts EXCEPT ![selection].refs = refs]
        BY <2>3 DEF runProfileAdd, runProfileRemove, Edits
      <3>2. \A n \in ProfileNames : drafts'[n].known = drafts[n].known /\ drafts'[n].head = drafts[n].head
        BY <3>1
      <3> QED
        BY <2>1, <2>3, <3>2 DEF KeepsDrafts
    <2>4. ASSUME NEW a \in Authors, SaveAuthoringProfile(a) PROVE KeepsDrafts
      BY <2>1, <2>4 DEF KeepsDrafts, SaveAuthoringProfile
    <2>5. ASSUME NEW a \in Authors, RecordPublication(a) PROVE KeepsDrafts
      <3>1. \A n \in ProfileNames : /\ drafts'[n].known = drafts[n].known /\ drafts'[n].refs = drafts[n].refs
                                    /\ drafts'[n].head >= drafts[n].head
        BY <2>5 DEF RecordPublication, HeadIsAsRead, HeadsArePublished
      <3> QED
        BY <2>1, <3>1 DEF KeepsDrafts
    <2>6. ASSUME NEW a \in Authors, MergeRefresh(a) PROVE KeepsDrafts
      <3>1. \A n \in ProfileNames : /\ drafts[n].known => drafts'[n].known
                                    /\ drafts'[n].head >= drafts[n].head
                                    /\ drafts'[n].refs = drafts[n].refs \/ drafts[n].refs = RefsAt(n, drafts[n].head)
        BY <2>6 DEF MergeRefresh, HeadIsAsRead, DraftIsClean, HeadsArePublished, Draft
      <3> QED
        BY <2>1, <3>1 DEF KeepsDrafts
    <2> QED
      BY <2>2, <2>3, <2>4, <2>5, <2>6
      DEF AuthoringNext, runProfileCreate, runProfileFork, runProfileSelect, runProfilePublish, runProfileRefresh,
          createRemoteProfile, publishProfileVersion, getProfile, writeProfileSelection, Interrupted, OtherMachine
  <1> QED
    BY <1>1, AuthoringInvariant, PTL DEF AuthoringSpec, DraftsAreKept

-----------------------------------------------------------------------------
(* Provisioning *)

RunStates == [pc : PCs, repo : Repos \cup {None}, seed : Trees \cup {None}, hasKey : BOOLEAN, version : Nat,
              tree : Trees \cup {None}, part : Nat, name : {Base} \cup Repos, env : Nat]
Environments == [repo : Repos, name : {Base} \cup Repos, body : Body, status : {"creating", "active", "failed"}]

ServerTyped ==
    /\ head \in Nat
    /\ seeds \in [Trees -> [registered : BOOLEAN, env : Nat]]
    /\ envs \in Seq(Environments)
    /\ late \subseteq Request

LocalTyped ==
    /\ config \in [hasKey : BOOLEAN, version : Nat]
    /\ binding \in [Repos -> [seed : Trees \cup {None}, env : Nat]]
    /\ tree \in [Repos -> Trees]
    /\ pair \in {"none", "half", "whole"}

\* A run is of one repository, and has what its step needs: a tree from its packaging to its
\* registration, a Seed from then on.
RunsTyped ==
    /\ run \in [Procs -> RunStates]
    /\ \A p \in Procs :
          /\ run[p].pc # "idle" => run[p].repo \in Repos
          /\ run[p].pc \in {"intent", "put", "register", "setSeed"} => run[p].tree \in Trees
          /\ run[p].pc \in {"create", "bind"} => run[p].seed # None

\* The Seed of a binding is set once, so that the one a run has in memory is the bound one.
SeedIsBound ==
    \A p \in Procs : run[p].seed # None => run[p].repo \in Repos /\ binding[run[p].repo].seed = run[p].seed

\* An Environment is known by its name, and its Seed was verified whole.
EnvironmentsAreWhole ==
    /\ \A i, j \in DOMAIN envs : envs[i].name = envs[j].name => i = j
    /\ \A t \in Trees : seeds[t].registered => VerifiedParts(t) \subseteq final
    /\ \A i \in DOMAIN envs : seeds[envs[i].body.seed].registered

\* The Environment of a repository and of its Seed.
IsOf(i, r, t) == i \in DOMAIN envs /\ envs[i].repo = r /\ envs[i].body.seed = t

\* A run binds an Environment of its repository and of its Seed, and so is each binding.
BoundIsOwn ==
    /\ \A p \in Procs : At(p, "bind") => IsOf(run[p].env, run[p].repo, run[p].seed)
    /\ \A r \in Repos : binding[r].env # 0 => IsOf(binding[r].env, r, binding[r].seed)

ProvisionInv ==
    ServerTyped /\ LocalTyped /\ RunsTyped /\ SeedIsBound /\ EnvironmentsAreWhole /\ BoundIsOwn

USE ProvisionAssumption

LEMMA EnvironmentTyped ==
  ASSUME ServerTyped, NEW i \in DOMAIN envs
  PROVE  envs[i] \in Environments /\ envs[i].body.seed \in Trees /\ i \in 1..Len(envs)
  <1>1. envs \in [1..Len(envs) -> Environments] /\ DOMAIN envs = 1..Len(envs)
    BY LenProperties DEF ServerTyped
  <1>2. envs[i] \in Environments
    BY <1>1
  <1> QED
    BY <1>1, <1>2 DEF Environments, Body

LEMMA FunctionIsSeq ==
  ASSUME NEW S, NEW n \in Nat, NEW f \in [1..n -> S]
  PROVE  f \in Seq(S)
  OBVIOUS

LEMMA SeedRows ==
  ASSUME NEW s \in [registered : BOOLEAN, env : Nat], NEW n \in Nat
  PROVE  /\ [s EXCEPT !.registered = TRUE] \in [registered : BOOLEAN, env : Nat]
         /\ [s EXCEPT !.env = n] \in [registered : BOOLEAN, env : Nat]
         /\ [s EXCEPT !.env = n].registered = s.registered
  OBVIOUS

LEMMA BindingRecords ==
  ASSUME NEW b \in [seed : Trees \cup {None}, env : Nat], NEW n \in Nat
  PROVE  /\ [b EXCEPT !.env = n] \in [seed : Trees \cup {None}, env : Nat]
         /\ [b EXCEPT !.env = n].seed = b.seed /\ [b EXCEPT !.env = n].env = n
  OBVIOUS

LEMMA SeedRecords ==
  ASSUME NEW b \in [seed : Trees \cup {None}, env : Nat], NEW t \in Trees
  PROVE  /\ [b EXCEPT !.seed = t] \in [seed : Trees \cup {None}, env : Nat]
         /\ [b EXCEPT !.seed = t].seed = t /\ [b EXCEPT !.seed = t].env = b.env
  OBVIOUS

\* What RunsTyped says of one run.
RunIsTyped(l) ==
    /\ l.pc # "idle" => l.repo \in Repos
    /\ l.pc \in {"intent", "put", "register", "setSeed"} => l.tree \in Trees
    /\ l.pc \in {"create", "bind"} => l.seed # None

\* A step of a run that does not touch the binding, nor what is to be bound.
Quietly(p) == \E next \in RunStates :
    /\ run' = [run EXCEPT ![p] = next]
    /\ RunIsTyped(next)
    /\ next.seed # None => next.repo \in Repos /\ binding[next.repo].seed = next.seed
    /\ next.pc # "bind"

LEMMA IdleTyped == Idle \in RunStates /\ Idle.pc = "idle" /\ Idle.seed = None
  BY DEF Idle, RunStates, PCs

LEMMA EndsQuietly ==
  ASSUME NEW p \in Procs, Ends(p)
  PROVE  Quietly(p)
  BY IdleTyped DEF Ends, Quietly, RunIsTyped

\* Only the step of a run changes.
LEMMA GotoQuietly ==
  ASSUME RunsTyped, SeedIsBound, NEW p \in Procs, run[p].pc # "idle",
         NEW pc \in PCs \ {"intent", "put", "register", "setSeed", "create", "bind"}, Goto(p, pc)
  PROVE  Quietly(p)
  <1> DEFINE next == [run[p] EXCEPT !.pc = pc]
  <1>a. pc \in PCs /\ run[p] \in RunStates
    BY DEF RunsTyped
  <1>1. next \in RunStates /\ next.pc = pc /\ next.repo = run[p].repo /\ next.seed = run[p].seed
    BY <1>a DEF RunStates
  <1>2. run' = [run EXCEPT ![p] = next]
    BY DEF Goto, RunsTyped
  <1> HIDE DEF next
  <1>3. RunIsTyped(next)
    BY <1>1 DEF RunIsTyped, RunsTyped
  <1> QED
    BY <1>1, <1>2, <1>3 DEF Quietly, SeedIsBound

\* Whatever the run lacks first, the next step has what it needs.
LEMMA ContinuesQuietly ==
  ASSUME NEW p \in Procs, NEW l \in RunStates, l.repo \in Repos,
         l.seed # None => binding[l.repo].seed = l.seed, Continue(p, l)
  PROVE  Quietly(p)
  <1> DEFINE next == [l EXCEPT !.pc = FirstMissing(l)]
  <1>1. FirstMissing(l) \in {"key", "versions", "package", "create"} /\ (FirstMissing(l) = "create" => l.seed # None)
    BY DEF FirstMissing, RunStates
  <1>2. next \in RunStates /\ next.pc = FirstMissing(l) /\ next.repo = l.repo /\ next.seed = l.seed
    BY <1>1 DEF RunStates, PCs
  <1>3. run' = [run EXCEPT ![p] = next]
    BY DEF Continue
  <1> HIDE DEF next
  <1>4. RunIsTyped(next)
    BY <1>1, <1>2 DEF RunIsTyped
  <1> QED
    BY <1>1, <1>2, <1>3, <1>4 DEF Quietly

\* The steps of a run that are quiet.
QuietStep(p) ==
    \/ resumeEnvironmentCreate(p) \/ ReadConfig(p) \/ ensureSSHSetup(p) \/ WritePublicKey(p)
    \/ ensureLifecycleSSHKeyIDs(p) \/ SaveKeySelection(p)
    \/ ListLifecycleProfiles(p) \/ PublishDefault(p) \/ SaveVersionSelection(p) \/ Package(p)
    \/ CreateUploadIntent(p) \/ PutSeedPart(p) \/ pollEnvironmentCreate(p) \/ Crash(p) \/ GiveUp(p)
    \/ \E r \in Repos : runBare(p, r)

LEMMA QuietSteps ==
  ASSUME ServerTyped, LocalTyped, RunsTyped, SeedIsBound, NEW p \in Procs, QuietStep(p)
  PROVE  Quietly(p)
  <1> USE DEF At
  <1>a. run[p] \in RunStates /\ RunIsTyped(run[p])
    BY DEF RunsTyped, RunIsTyped
  <1>b. run[p].seed # None => run[p].repo \in Repos /\ binding[run[p].repo].seed = run[p].seed
    BY DEF SeedIsBound
  <1>c. ASSUME NEW next \in RunStates, run' = [run EXCEPT ![p] = next], RunIsTyped(next), next.pc # "bind",
               next.repo = run[p].repo, next.seed = run[p].seed
        PROVE  Quietly(p)
    BY <1>b, <1>c DEF Quietly
  <1>1. ASSUME resumeEnvironmentCreate(p) PROVE Quietly(p)
    BY <1>1, EndsQuietly, GotoQuietly DEF resumeEnvironmentCreate, PCs
  <1>2. ASSUME ReadConfig(p) PROVE Quietly(p)
    <2> DEFINE l == [run[p] EXCEPT !.hasKey = config.hasKey, !.version = config.version]
    <2>1. l \in RunStates /\ l.repo = run[p].repo /\ l.seed = run[p].seed
      BY <1>a DEF RunStates, LocalTyped
    <2>2. run[p].repo \in Repos /\ Continue(p, l)
      BY <1>2, <1>a DEF ReadConfig, RunIsTyped
    <2> HIDE DEF l
    <2> QED
      BY <2>1, <2>2, <1>b, ContinuesQuietly
  <1>3. ASSUME ensureLifecycleSSHKeyIDs(p) PROVE Quietly(p)
    BY <1>3, EndsQuietly, GotoQuietly DEF ensureLifecycleSSHKeyIDs, PCs
  <1>15. ASSUME ensureSSHSetup(p) PROVE Quietly(p)
    <2>1. Goto(p, "public") \/ Goto(p, "registerKey") \/ Ends(p) \/ pair \notin {"none", "half", "whole"}
      BY <1>15 DEF ensureSSHSetup
    <2> QED
      BY <1>15, <2>1, EndsQuietly, GotoQuietly DEF ensureSSHSetup, PCs, LocalTyped
  <1>16. ASSUME WritePublicKey(p) PROVE Quietly(p)
    BY <1>16, GotoQuietly DEF WritePublicKey, PCs
  <1>4. ASSUME SaveKeySelection(p) PROVE Quietly(p)
    <2> DEFINE l == [run[p] EXCEPT !.hasKey = TRUE]
    <2>1. l \in RunStates /\ l.repo = run[p].repo /\ l.seed = run[p].seed
      BY <1>a DEF RunStates
    <2>2. run[p].repo \in Repos /\ Continue(p, l)
      BY <1>4, <1>a DEF SaveKeySelection, RunIsTyped
    <2> HIDE DEF l
    <2> QED
      BY <2>1, <2>2, <1>b, ContinuesQuietly
  <1>5. ASSUME ListLifecycleProfiles(p) PROVE Quietly(p)
    <2> DEFINE next == [run[p] EXCEPT !.version = head, !.pc = IF head # 0 THEN "saveVersion" ELSE "publish"]
    <2>1. /\ next \in RunStates /\ next.repo = run[p].repo /\ next.seed = run[p].seed
          /\ next.pc \in {"saveVersion", "publish"}
      BY <1>a, ZenonT(60) DEF RunStates, PCs, ServerTyped
    <2>2. run' = [run EXCEPT ![p] = next]
      BY <1>5 DEF ListLifecycleProfiles, RunsTyped
    <2>3. RunIsTyped(next)
      BY <1>5, <1>a, <2>1 DEF ListLifecycleProfiles, RunIsTyped
    <2> QED
      BY <1>c, <2>1, <2>2, <2>3
  <1>6. ASSUME PublishDefault(p) PROVE Quietly(p)
    <2> DEFINE next == [run[p] EXCEPT !.version = 1, !.pc = "saveVersion"]
    <2>1. next \in RunStates /\ next.repo = run[p].repo /\ next.seed = run[p].seed /\ next.pc = "saveVersion"
      BY <1>a DEF RunStates, PCs
    <2>2. run' = [run EXCEPT ![p] = next]
      BY <1>6 DEF PublishDefault, RunsTyped
    <2>3. RunIsTyped(next)
      BY <1>6, <1>a, <2>1 DEF PublishDefault, RunIsTyped
    <2> QED
      BY <1>c, <2>1, <2>2, <2>3
  <1>7. ASSUME SaveVersionSelection(p) PROVE Quietly(p)
    <2>1. run[p].repo \in Repos /\ Continue(p, run[p])
      BY <1>7, <1>a DEF SaveVersionSelection, RunIsTyped
    <2> QED
      BY <2>1, <1>a, <1>b, ContinuesQuietly
  <1>8. ASSUME Package(p) PROVE Quietly(p)
    <2> DEFINE next == [run[p] EXCEPT !.tree = tree[run[p].repo], !.part = 1, !.pc = "intent"]
    <2>0. run[p].repo \in Repos /\ tree[run[p].repo] \in Trees
      BY <1>8, <1>a DEF Package, RunIsTyped, LocalTyped
    <2>1. /\ next \in RunStates /\ next.repo = run[p].repo /\ next.seed = run[p].seed /\ next.pc = "intent"
          /\ next.tree = tree[run[p].repo]
      BY <1>a, <2>0 DEF RunStates, PCs
    <2>2. CASE tree[run[p].repo] \notin Unpackable
      <3>1. run' = [run EXCEPT ![p] = next]
        BY <1>8, <2>2 DEF Package, RunsTyped
      <3>2. RunIsTyped(next)
        BY <2>0, <2>1 DEF RunIsTyped
      <3> QED
        BY <1>c, <2>1, <3>1, <3>2
    <2> QED
      BY <1>8, <2>2, EndsQuietly DEF Package
  <1>9. ASSUME CreateUploadIntent(p) PROVE Quietly(p)
    <2>1. CASE Goto(p, "put")
      <3> DEFINE next == [run[p] EXCEPT !.pc = "put"]
      <3>1. /\ next \in RunStates /\ next.repo = run[p].repo /\ next.seed = run[p].seed /\ next.pc = "put"
            /\ next.tree = run[p].tree
        BY <1>a DEF RunStates, PCs
      <3>2. run' = [run EXCEPT ![p] = next]
        BY <2>1 DEF Goto, RunsTyped
      <3>3. RunIsTyped(next)
        BY <3>1, <1>9, <1>a DEF CreateUploadIntent, RunIsTyped
      <3> QED
        BY <1>c, <3>1, <3>2, <3>3
    <2> QED
      BY <1>9, <2>1, EndsQuietly DEF CreateUploadIntent
  <1>10. ASSUME PutSeedPart(p) PROVE Quietly(p)
    <2> DEFINE pc == IF run[p].part = Len(PartsOf[run[p].tree]) THEN "register" ELSE "intent"
               next == [run[p] EXCEPT !.part = run[p].part + 1, !.pc = pc]
    <2>1. CASE run' = [run EXCEPT ![p].part = @ + 1, ![p].pc = pc]
      <3>a. pc \in {"register", "intent"} /\ pc \in PCs /\ run[p].part + 1 \in Nat
        BY <1>a DEF PCs, RunStates
      <3> HIDE DEF pc
      <3>1. /\ next \in RunStates /\ next.repo = run[p].repo /\ next.seed = run[p].seed
            /\ next.pc = pc /\ next.tree = run[p].tree
        BY <1>a, <3>a DEF RunStates
      <3>2. run' = [run EXCEPT ![p] = next]
        BY <2>1 DEF RunsTyped
      <3>3. RunIsTyped(next)
        BY <3>a, <3>1, <1>10, <1>a DEF PutSeedPart, RunIsTyped
      <3> QED
        BY <1>c, <3>a, <3>1, <3>2, <3>3
    <2> QED
      BY <1>10, <2>1, EndsQuietly DEF PutSeedPart
  <1>11. ASSUME pollEnvironmentCreate(p) PROVE Quietly(p)
    BY <1>11, EndsQuietly DEF pollEnvironmentCreate
  <1>12. ASSUME Crash(p) PROVE Quietly(p)
    BY <1>12, EndsQuietly DEF Crash
  <1>13. ASSUME GiveUp(p) PROVE Quietly(p)
    BY <1>13, EndsQuietly DEF GiveUp
  <1>14. ASSUME NEW r \in Repos, runBare(p, r) PROVE Quietly(p)
    <2> DEFINE b == binding[r]
               next == [Idle EXCEPT !.repo = r, !.seed = b.seed, !.env = b.env,
                                    !.pc = IF b.env # 0 THEN "resolve" ELSE "config"]
    <2>1. b.seed \in Trees \cup {None} /\ b.env \in Nat
      BY DEF LocalTyped
    <2>2. next \in RunStates /\ next.repo = r /\ next.seed = b.seed /\ next.pc \in {"resolve", "config"}
      BY <2>1 DEF Idle, RunStates, PCs
    <2>3. run' = [run EXCEPT ![p] = next]
      BY <1>14 DEF runBare, ReadProject
    <2>4. RunIsTyped(next)
      BY <2>2 DEF RunIsTyped
    <2> QED
      BY <2>2, <2>3, <2>4 DEF Quietly
  <1> QED
    BY <1>1, <1>2, <1>3, <1>4, <1>5, <1>6, <1>7, <1>8, <1>9, <1>10, <1>11, <1>12, <1>13, <1>14, <1>15, <1>16 DEF QuietStep

\* A quiet step keeps the invariant while the Environments and the bindings stay.
LEMMA QuietKeeps ==
  ASSUME RunsTyped, SeedIsBound, BoundIsOwn, NEW p \in Procs, Quietly(p), UNCHANGED <<binding, envs>>
  PROVE  RunsTyped' /\ SeedIsBound' /\ BoundIsOwn'
  <1>1. PICK next \in RunStates :
           /\ run' = [run EXCEPT ![p] = next]
           /\ RunIsTyped(next)
           /\ next.seed # None => next.repo \in Repos /\ binding[next.repo].seed = next.seed
           /\ next.pc # "bind"
    BY DEF Quietly
  <1>2. RunsTyped'
    BY <1>1 DEF RunsTyped, RunIsTyped
  <1>3. SeedIsBound'
    BY <1>1 DEF RunsTyped, SeedIsBound
  <1>4. BoundIsOwn'
    BY <1>1 DEF RunsTyped, BoundIsOwn, IsOf, At
  <1> QED
    BY <1>2, <1>3, <1>4

\* What a run keeps in its files and on the server has its type.
LEMMA RequestTyped ==
  ASSUME RunsTyped, NEW p \in Procs, At(p, "create")
  PROVE  /\ CreateRequest(p) \in Request
         /\ CreateRequest(p).repo = run[p].repo /\ CreateRequest(p).name = run[p].name
         /\ CreateRequest(p).body.seed = run[p].seed
  <1>1. /\ run[p].repo \in Repos /\ run[p].name \in {Base} \cup Repos
        /\ run[p].seed \in Trees /\ run[p].version \in Nat
    BY DEF RunsTyped, RunStates, At
  <1> QED
    BY <1>1 DEF CreateRequest, Request, Body

LEMMA QuietStepTypes ==
  ASSUME ServerTyped, LocalTyped, RunsTyped, NEW p \in Procs, QuietStep(p)
  PROVE  ServerTyped' /\ LocalTyped' /\ UNCHANGED <<binding, envs, seeds, final>>
  <1> USE DEF ServerTyped, LocalTyped, local, server
  <1>1. ASSUME resumeEnvironmentCreate(p) PROVE ServerTyped' /\ LocalTyped' /\ UNCHANGED <<binding, envs, seeds, final>>
    BY <1>1 DEF resumeEnvironmentCreate
  <1>2. ASSUME ReadConfig(p) PROVE ServerTyped' /\ LocalTyped' /\ UNCHANGED <<binding, envs, seeds, final>>
    BY <1>2 DEF ReadConfig
  <1>3. ASSUME ensureLifecycleSSHKeyIDs(p) PROVE ServerTyped' /\ LocalTyped' /\ UNCHANGED <<binding, envs, seeds, final>>
    BY <1>3 DEF ensureLifecycleSSHKeyIDs
  <1>15. ASSUME ensureSSHSetup(p) PROVE ServerTyped' /\ LocalTyped' /\ UNCHANGED <<binding, envs, seeds, final>>
    BY <1>15 DEF ensureSSHSetup
  <1>16. ASSUME WritePublicKey(p) PROVE ServerTyped' /\ LocalTyped' /\ UNCHANGED <<binding, envs, seeds, final>>
    BY <1>16 DEF WritePublicKey
  <1>4. ASSUME SaveKeySelection(p) PROVE ServerTyped' /\ LocalTyped' /\ UNCHANGED <<binding, envs, seeds, final>>
    BY <1>4 DEF SaveKeySelection, UpdateConfig
  <1>5. ASSUME ListLifecycleProfiles(p) PROVE ServerTyped' /\ LocalTyped' /\ UNCHANGED <<binding, envs, seeds, final>>
    BY <1>5 DEF ListLifecycleProfiles
  <1>6. ASSUME PublishDefault(p) PROVE ServerTyped' /\ LocalTyped' /\ UNCHANGED <<binding, envs, seeds, final>>
    BY <1>6 DEF PublishDefault
  <1>7. ASSUME SaveVersionSelection(p) PROVE ServerTyped' /\ LocalTyped' /\ UNCHANGED <<binding, envs, seeds, final>>
    BY <1>7 DEF SaveVersionSelection, UpdateConfig, RunsTyped, RunStates
  <1>8. ASSUME Package(p) PROVE ServerTyped' /\ LocalTyped' /\ UNCHANGED <<binding, envs, seeds, final>>
    BY <1>8 DEF Package
  <1>9. ASSUME CreateUploadIntent(p) PROVE ServerTyped' /\ LocalTyped' /\ UNCHANGED <<binding, envs, seeds, final>>
    BY <1>9 DEF CreateUploadIntent
  <1>10. ASSUME PutSeedPart(p) PROVE ServerTyped' /\ LocalTyped' /\ UNCHANGED <<binding, envs, seeds, final>>
    BY <1>10 DEF PutSeedPart
  <1>11. ASSUME pollEnvironmentCreate(p) PROVE ServerTyped' /\ LocalTyped' /\ UNCHANGED <<binding, envs, seeds, final>>
    BY <1>11 DEF pollEnvironmentCreate
  <1>12. ASSUME Crash(p) PROVE ServerTyped' /\ LocalTyped' /\ UNCHANGED <<binding, envs, seeds, final>>
    BY <1>12 DEF Crash
  <1>13. ASSUME GiveUp(p) PROVE ServerTyped' /\ LocalTyped' /\ UNCHANGED <<binding, envs, seeds, final>>
    BY <1>13, RequestTyped DEF GiveUp
  <1>14. ASSUME NEW r \in Repos, runBare(p, r) PROVE ServerTyped' /\ LocalTyped' /\ UNCHANGED <<binding, envs, seeds, final>>
    BY <1>14 DEF runBare
  <1> QED
    BY <1>1, <1>2, <1>3, <1>4, <1>5, <1>6, <1>7, <1>8, <1>9, <1>10, <1>11, <1>12, <1>13, <1>14, <1>15, <1>16 DEF QuietStep

LEMMA QuietStepInv ==
  ASSUME ProvisionInv, NEW p \in Procs, QuietStep(p)
  PROVE  ProvisionInv'
  <1>1. ServerTyped' /\ LocalTyped' /\ UNCHANGED <<binding, envs, seeds, final>>
    BY QuietStepTypes DEF ProvisionInv
  <1>2. RunsTyped' /\ SeedIsBound' /\ BoundIsOwn'
    BY <1>1, QuietSteps, QuietKeeps DEF ProvisionInv
  <1>3. EnvironmentsAreWhole'
    BY <1>1 DEF EnvironmentsAreWhole, ProvisionInv, VerifiedParts
  <1> QED
    BY <1>1, <1>2, <1>3 DEF ProvisionInv

-----------------------------------------------------------------------------
\* A registration verifies every part and copies it before the Seed is there.
LEMMA RegisterInv ==
  ASSUME ProvisionInv, NEW p \in Procs, RegisterProjectSeed(p)
  PROVE  ProvisionInv'
  <1> USE DEF ProvisionInv, At
  <1>1. run[p] \in RunStates /\ run[p].repo \in Repos /\ run[p].tree \in Trees /\ run[p].pc = "register"
    BY DEF RegisterProjectSeed, RunsTyped
  <1>2. UNCHANGED <<config, binding, pair, tree, head, envs, late>>
    BY DEF RegisterProjectSeed, local
  <1>3. Quietly(p)
    <2>1. CASE Goto(p, "setSeed")
      <3> DEFINE next == [run[p] EXCEPT !.pc = "setSeed"]
      <3>1. /\ next \in RunStates /\ next.repo = run[p].repo /\ next.seed = run[p].seed /\ next.pc = "setSeed"
            /\ next.tree = run[p].tree
        BY <1>1 DEF RunStates, PCs
      <3>2. run' = [run EXCEPT ![p] = next]
        BY <2>1 DEF Goto, RunsTyped
      <3>3. RunIsTyped(next)
        BY <1>1, <3>1 DEF RunIsTyped
      <3> QED
        BY <3>1, <3>2, <3>3 DEF SeedIsBound, Quietly
    <2> QED
      BY <2>1, EndsQuietly DEF RegisterProjectSeed
  <1>4. RunsTyped' /\ SeedIsBound' /\ BoundIsOwn'
    BY <1>2, <1>3, QuietKeeps
  <1>5. ServerTyped' /\ LocalTyped'
    <2>1. seeds' = seeds \/ seeds' = [seeds EXCEPT ![run[p].tree].registered = TRUE]
      BY DEF RegisterProjectSeed, InsertProjectSeed
    <2>2. seeds' \in [Trees -> [registered : BOOLEAN, env : Nat]]
      <3>1. seeds \in [Trees -> [registered : BOOLEAN, env : Nat]]
        BY DEF ServerTyped
      <3>2. [seeds[run[p].tree] EXCEPT !.registered = TRUE] \in [registered : BOOLEAN, env : Nat]
        <4>1. seeds[run[p].tree] \in [registered : BOOLEAN, env : Nat] /\ 0 \in Nat
          BY <1>1, <3>1
        <4> QED
          BY <4>1, SeedRows
      <3> QED
        BY <1>1, <2>1, <3>1, <3>2
    <2> QED
      BY <1>2, <2>2 DEF ServerTyped, LocalTyped
  <1>6. EnvironmentsAreWhole'
    <2>1. ASSUME NEW parts, FinalizeUpload(parts), UNCHANGED seeds PROVE EnvironmentsAreWhole'
      <3>1. final \subseteq final'
        BY <2>1 DEF FinalizeUpload
      <3> QED
        BY <1>2, <2>1, <3>1 DEF EnvironmentsAreWhole, VerifiedParts
    <2>2. CASE FinalizeUpload(VerifiedParts(run[p].tree)) /\ InsertProjectSeed(run[p].tree)
      <3>1. \A t \in Trees : seeds'[t].registered <=> seeds[t].registered \/ t = run[p].tree
        BY <1>1, <2>2 DEF InsertProjectSeed, ServerTyped
      <3>2. final' = final \cup VerifiedParts(run[p].tree)
        BY <2>2 DEF FinalizeUpload
      <3>3. \A t \in Trees : seeds'[t].registered => VerifiedParts(t) \subseteq final'
        BY <3>1, <3>2 DEF EnvironmentsAreWhole
      <3>4. \A i \in DOMAIN envs : envs[i].body.seed \in Trees
        BY EnvironmentTyped
      <3> QED
        BY <1>2, <3>1, <3>3, <3>4 DEF EnvironmentsAreWhole, VerifiedParts
    <2> QED
      BY <2>1, <2>2 DEF RegisterProjectSeed
  <1> QED
    BY <1>4, <1>5, <1>6

\* Only a binding without a Seed takes one, so that no run has another one in memory.
LEMMA SetSeedInv ==
  ASSUME ProvisionInv, NEW p \in Procs, SetProjectSeed(p)
  PROVE  ProvisionInv'
  <1> DEFINE r == run[p].repo
             t == run[p].tree
             l == [run[p] EXCEPT !.seed = t]
             next == [l EXCEPT !.pc = FirstMissing(l)]
  <1> USE DEF ProvisionInv, At
  <1>1. run[p] \in RunStates /\ r \in Repos /\ t \in Trees /\ run[p].pc = "setSeed"
    BY DEF SetProjectSeed, RunsTyped
  <1>2. UNCHANGED <<config, pair, tree, head, envs, seeds, final, late>>
    BY DEF SetProjectSeed, server
  <1>3. ServerTyped' /\ EnvironmentsAreWhole'
    BY <1>2 DEF ServerTyped, EnvironmentsAreWhole, VerifiedParts
  <1>4. CASE Ends(p) /\ UNCHANGED binding
    <2>1. RunsTyped' /\ SeedIsBound' /\ BoundIsOwn'
      BY <1>2, <1>4, EndsQuietly, QuietKeeps
    <2> QED
      BY <1>2, <1>3, <1>4, <2>1 DEF LocalTyped
  <1>5. CASE TakesSeed(binding[r], t) /\ updateProject(r, "seed", t) /\ Continue(p, l)
    <2>1. binding' = [binding EXCEPT ![r] = [binding[r] EXCEPT !.seed = t]]
      BY <1>5 DEF updateProject, LocalTyped
    <2>2. /\ binding' \in [Repos -> [seed : Trees \cup {None}, env : Nat]]
          /\ \A s \in Repos : binding'[s].env = binding[s].env
          /\ \A s \in Repos : binding[s].seed # None => binding'[s].seed = binding[s].seed
          /\ binding'[r].seed = t
      <3>1. binding \in [Repos -> [seed : Trees \cup {None}, env : Nat]]
        BY DEF LocalTyped
      <3>2. /\ [binding[r] EXCEPT !.seed = t] \in [seed : Trees \cup {None}, env : Nat]
            /\ [binding[r] EXCEPT !.seed = t].seed = t /\ [binding[r] EXCEPT !.seed = t].env = binding[r].env
        <4>1. binding[r] \in [seed : Trees \cup {None}, env : Nat]
          BY <1>1, <3>1
        <4> QED
          BY <1>1, <4>1, SeedRecords
      <3>3. binding[r].seed \in {None, t}
        BY <1>5 DEF TakesSeed
      <3> HIDE DEF t, r
      <3> QED
        BY <1>1, <2>1, <3>1, <3>2, <3>3
    <2>3. LocalTyped'
      BY <1>2, <2>2 DEF LocalTyped
    <2>4. l \in RunStates /\ l.seed = t /\ l.repo = r
      BY <1>1 DEF RunStates
    <2>5. FirstMissing(l) \in {"key", "versions", "package", "create"}
      BY <1>1, <2>4 DEF FirstMissing, RunStates
    <2>6. next \in RunStates /\ next.pc = FirstMissing(l) /\ next.repo = r /\ next.seed = t
      BY <2>4, <2>5 DEF RunStates, PCs
    <2>7. run' = [run EXCEPT ![p] = next]
      BY <1>5 DEF Continue
    <2> HIDE DEF next, l, t, r
    <2>8. RunsTyped'
      BY <1>1, <2>5, <2>6, <2>7 DEF RunsTyped
    <2>9. SeedIsBound'
      BY <1>1, <2>2, <2>6, <2>7 DEF SeedIsBound, RunsTyped
    <2>10. BoundIsOwn'
      <3>1. \A q \in Procs : run'[q].pc = "bind" => IsOf(run'[q].env, run'[q].repo, run'[q].seed)
        BY <1>1, <2>5, <2>6, <2>7 DEF BoundIsOwn, RunsTyped
      <3>2. ASSUME NEW s \in Repos, binding'[s].env # 0 PROVE IsOf(binding'[s].env, s, binding'[s].seed)
        <4>1. IsOf(binding[s].env, s, binding[s].seed)
          BY <2>2, <3>2 DEF BoundIsOwn
        <4>2. binding[s].seed # None
          BY <4>1, EnvironmentTyped DEF IsOf
        <4> QED
          BY <2>2, <4>1, <4>2
      <3> QED
        BY <1>2, <3>1, <3>2 DEF BoundIsOwn, IsOf
    <2> QED
      BY <1>3, <2>3, <2>8, <2>9, <2>10
  <1> QED
    BY <1>4, <1>5 DEF SetProjectSeed

\* The binding takes the Environment that the run was answered with.
LEMMA BindInv ==
  ASSUME ProvisionInv, NEW p \in Procs, BindProject(p)
  PROVE  ProvisionInv'
  <1> DEFINE r == run[p].repo
  <1> USE DEF ProvisionInv, At
  <1>1. run[p] \in RunStates /\ r \in Repos /\ run[p].seed # None /\ run[p].pc = "bind"
    BY DEF BindProject, RunsTyped
  <1>2. UNCHANGED <<config, pair, tree, head, envs, seeds, final, late>>
    BY DEF BindProject, server
  <1>3. ServerTyped' /\ EnvironmentsAreWhole'
    BY <1>2 DEF ServerTyped, EnvironmentsAreWhole, VerifiedParts
  <1>4. CASE Ends(p) /\ UNCHANGED binding
    <2>1. RunsTyped' /\ SeedIsBound' /\ BoundIsOwn'
      BY <1>2, <1>4, EndsQuietly, QuietKeeps
    <2> QED
      BY <1>2, <1>3, <1>4, <2>1 DEF LocalTyped
  <1>5. CASE updateProject(r, "env", run[p].env) /\ Goto(p, "poll")
    <2>1. binding' = [binding EXCEPT ![r] = [binding[r] EXCEPT !.env = run[p].env]]
      BY <1>5 DEF updateProject, LocalTyped
    <2>2. /\ binding' \in [Repos -> [seed : Trees \cup {None}, env : Nat]]
          /\ \A s \in Repos : binding'[s].seed = binding[s].seed
          /\ \A s \in Repos : binding'[s].env = IF s = r THEN run[p].env ELSE binding[s].env
      <3>1. binding \in [Repos -> [seed : Trees \cup {None}, env : Nat]] /\ run[p].env \in Nat
        BY <1>1 DEF LocalTyped, RunStates
      <3> DEFINE b == [binding[r] EXCEPT !.env = run[p].env]
      <3>2. b \in [seed : Trees \cup {None}, env : Nat] /\ b.seed = binding[r].seed /\ b.env = run[p].env
        <4>1. binding[r] \in [seed : Trees \cup {None}, env : Nat]
          BY <1>1, <3>1
        <4> QED
          BY <4>1, <3>1, BindingRecords
      <3> HIDE DEF b, r
      <3> QED
        BY <1>1, <2>1, <3>1, <3>2 DEF b
    <2>3. LocalTyped'
      BY <1>2, <2>2 DEF LocalTyped
    <2> DEFINE next == [run[p] EXCEPT !.pc = "poll"]
    <2>4. next \in RunStates /\ next.pc = "poll" /\ next.repo = r /\ next.seed = run[p].seed
      BY <1>1 DEF RunStates, PCs
    <2>5. run' = [run EXCEPT ![p] = next]
      BY <1>5 DEF Goto, RunsTyped
    <2>6. IsOf(run[p].env, r, run[p].seed) /\ binding[r].seed = run[p].seed
      BY <1>1 DEF BoundIsOwn, SeedIsBound
    <2> HIDE DEF next, r
    <2>7. RunsTyped'
      BY <1>1, <2>4, <2>5 DEF RunsTyped
    <2>8. SeedIsBound'
      <3>1. \A q \in Procs : run'[q].seed = run[q].seed /\ run'[q].repo = run[q].repo
        BY <2>4, <2>5 DEF RunsTyped, r
      <3> SUFFICES ASSUME NEW q \in Procs, run'[q].seed # None
                   PROVE  run'[q].repo \in Repos /\ binding'[run'[q].repo].seed = run'[q].seed
        BY DEF SeedIsBound
      <3>2. run[q].repo \in Repos /\ binding[run[q].repo].seed = run[q].seed
        BY <3>1 DEF SeedIsBound
      <3> QED
        BY <2>2, <3>1, <3>2
    <2>9. BoundIsOwn'
      <3>1. \A q \in Procs : run'[q].pc = "bind" => IsOf(run'[q].env, run'[q].repo, run'[q].seed)
        BY <1>1, <2>4, <2>5 DEF BoundIsOwn, RunsTyped
      <3>2. ASSUME NEW s \in Repos, binding'[s].env # 0 PROVE IsOf(binding'[s].env, s, binding'[s].seed)
        BY <2>2, <2>6, <3>2 DEF BoundIsOwn
      <3> QED
        BY <1>2, <3>1, <3>2 DEF BoundIsOwn, IsOf
    <2> QED
      BY <1>3, <2>3, <2>7, <2>8, <2>9
  <1> QED
    BY <1>4, <1>5 DEF BindProject

-----------------------------------------------------------------------------
\* An Environment is added for a request whose name nobody has.
LEMMA AcceptKeeps ==
  ASSUME ServerTyped, LocalTyped, EnvironmentsAreWhole, NEW q \in Request, Accepts(q), ReserveEnvironmentCreation(q),
         UNCHANGED <<final, head>>, late' \subseteq Request
  PROVE  /\ ServerTyped' /\ EnvironmentsAreWhole'
         /\ \A i \in Nat, r \in Repos, t \in Trees : IsOf(i, r, t) => IsOf(i, r, t)'
         /\ \A i \in Nat : i = Len(envs) + 1 => IsOf(i, q.repo, q.body.seed)'
  <1> DEFINE e == [repo |-> q.repo, name |-> q.name, body |-> q.body, status |-> "creating"]
             n == Len(envs) + 1
  <1>1. e \in Environments /\ e.repo = q.repo /\ e.name = q.name /\ e.body = q.body /\ q.body.seed \in Trees
    BY DEF Request, Body, Environments
  <1> HIDE DEF e
  <1>2. envs \in Seq(Environments) /\ envs' = Append(envs, e) /\ Len(envs) \in Nat
    BY DEF ServerTyped, ReserveEnvironmentCreation, e
  <1>3. /\ envs' \in Seq(Environments) /\ DOMAIN envs' = 1..n /\ DOMAIN envs = 1..Len(envs)
        /\ envs'[n] = e /\ \A i \in 1..Len(envs) : envs'[i] = envs[i]
    BY <1>1, <1>2, AppendProperties
  <1>4. seeds' \in [Trees -> [registered : BOOLEAN, env : Nat]]
        /\ \A t \in Trees : seeds'[t].registered = seeds[t].registered
    <2>1. seeds' = [seeds EXCEPT ![q.body.seed].env = n] /\ seeds \in [Trees -> [registered : BOOLEAN, env : Nat]]
      BY DEF ServerTyped, ReserveEnvironmentCreation
    <2> DEFINE s == [seeds[q.body.seed] EXCEPT !.env = n]
    <2>2. s \in [registered : BOOLEAN, env : Nat] /\ s.registered = seeds[q.body.seed].registered
      <3>1. seeds[q.body.seed] \in [registered : BOOLEAN, env : Nat] /\ n \in Nat
        BY <1>1, <1>2, <2>1
      <3> QED
        BY <3>1, SeedRows
    <2> HIDE DEF s
    <2> QED
      BY <1>1, <2>1, <2>2 DEF s
  <1>5. ServerTyped'
    BY <1>3, <1>4 DEF ServerTyped
  <1>6. \A i \in DOMAIN envs : envs[i].name # q.name
    BY DEF Accepts, NameIsTaken
  <1>7. \A i \in 1..Len(envs) : envs[i].body.seed \in Trees
    BY <1>3, EnvironmentTyped
  <1>8. \A i, j \in 1..n : envs'[i].name = envs'[j].name => i = j
    <2>1. \A i \in 1..n : i = n \/ i \in 1..Len(envs)
      BY <1>2
    <2>2. ASSUME NEW i \in 1..n, NEW j \in 1..n, envs'[i].name = envs'[j].name PROVE i = j
      <3>1. CASE i = n /\ j = n
        BY <3>1
      <3>2. CASE i = n /\ j \in 1..Len(envs)
        BY <1>1, <1>3, <1>6, <2>2, <3>2
      <3>3. CASE i \in 1..Len(envs) /\ j = n
        BY <1>1, <1>3, <1>6, <2>2, <3>3
      <3>4. CASE i \in 1..Len(envs) /\ j \in 1..Len(envs)
        BY <1>3, <2>2, <3>4 DEF EnvironmentsAreWhole
      <3> QED
        BY <2>1, <3>1, <3>2, <3>3, <3>4
    <2> QED
      BY <2>2
  <1>9. \A i \in 1..n : seeds'[envs'[i].body.seed].registered
    <2>1. \A i \in 1..n : i = n \/ i \in 1..Len(envs)
      BY <1>2
    <2>2. seeds[q.body.seed].registered
      BY DEF Accepts
    <2> HIDE DEF n
    <2> QED
      BY <1>1, <1>3, <1>4, <1>7, <2>1, <2>2, ZenonT(60) DEF EnvironmentsAreWhole
  <1>10. EnvironmentsAreWhole'
    BY <1>3, <1>4, <1>8, <1>9 DEF EnvironmentsAreWhole, VerifiedParts
  <1>11. \A i \in Nat, r \in Repos, t \in Trees : IsOf(i, r, t) => IsOf(i, r, t)'
    BY <1>2, <1>3 DEF IsOf
  <1>12. ASSUME NEW i \in Nat, i = Len(envs) + 1 PROVE IsOf(i, q.repo, q.body.seed)'
    <2>1. i \in DOMAIN envs' /\ envs'[i] = e
      BY <1>2, <1>3, <1>12
    <2> QED
      BY <1>1, <2>1 DEF IsOf
  <1> QED
    BY <1>5, <1>10, <1>11, <1>12

\* What IsOf says of an Environment stays true of it.
Preserves == \A i \in Nat, r \in Repos, t \in Trees : IsOf(i, r, t) => IsOf(i, r, t)'

\* Environments that stay what they are keep the bindings and the runs that bind.
LEMMA PreservesBound ==
  ASSUME ServerTyped, LocalTyped, RunsTyped, BoundIsOwn, Preserves, UNCHANGED binding
  PROVE  /\ \A r \in Repos : binding'[r].env # 0 => IsOf(binding[r].env, r, binding[r].seed)'
         /\ \A p \in Procs : At(p, "bind") => IsOf(run[p].env, run[p].repo, run[p].seed)
                                              /\ run[p].env \in Nat /\ run[p].repo \in Repos /\ run[p].seed \in Trees
  <1>1. ASSUME NEW r \in Repos, binding'[r].env # 0 PROVE IsOf(binding[r].env, r, binding[r].seed)'
    <2>1. IsOf(binding[r].env, r, binding[r].seed) /\ binding[r].env \in Nat
      BY <1>1 DEF BoundIsOwn, LocalTyped
    <2>2. binding[r].seed \in Trees
      BY <2>1, EnvironmentTyped DEF IsOf
    <2>3. PICK i \in Nat, t \in Trees : i = binding[r].env /\ t = binding[r].seed
      BY <2>1, <2>2
    <2>4. IsOf(i, r, t)'
      BY <2>1, <2>3 DEF Preserves
    <2> QED
      BY <2>3, <2>4 DEF IsOf
  <1>2. ASSUME NEW p \in Procs, At(p, "bind")
        PROVE  /\ IsOf(run[p].env, run[p].repo, run[p].seed)
               /\ run[p].env \in Nat /\ run[p].repo \in Repos /\ run[p].seed \in Trees
    BY <1>2 DEF BoundIsOwn, RunsTyped, RunStates, At
  <1> QED
    BY <1>1, <1>2

\* A run goes on to bind the Environment of its request.
LEMMA AnswerKeeps ==
  ASSUME ServerTyped, LocalTyped, RunsTyped, SeedIsBound, BoundIsOwn, Preserves, UNCHANGED binding,
         NEW p \in Procs, At(p, "create"), NEW i \in Nat,
         run' = [run EXCEPT ![p].env = i, ![p].pc = "bind"],
         NEW r, NEW t, r = run[p].repo, t = run[p].seed, IsOf(i, r, t)'
  PROVE  RunsTyped' /\ SeedIsBound' /\ BoundIsOwn'
  <1> DEFINE next == [run[p] EXCEPT !.env = i, !.pc = "bind"]
  <1>1. run[p] \in RunStates /\ r \in Repos /\ t # None
    BY DEF RunsTyped, At
  <1>2. next \in RunStates /\ next.pc = "bind" /\ next.env = i /\ next.repo = r /\ next.seed = t
    BY <1>1 DEF RunStates, PCs
  <1>3. run' = [run EXCEPT ![p] = next]
    BY DEF RunsTyped
  <1> HIDE DEF next
  <1>4. RunsTyped'
    <2>1. RunIsTyped(next)
      BY <1>1, <1>2 DEF RunIsTyped
    <2>2. run' \in [Procs -> RunStates] /\ \A q \in Procs : run'[q] = IF q = p THEN next ELSE run[q]
      <3>1. run \in [Procs -> RunStates] /\ next \in RunStates
        BY <1>2 DEF RunsTyped
      <3>2. run' \in [Procs -> RunStates]
        BY <1>3, <3>1
      <3>3. \A q \in Procs : run'[q] = IF q = p THEN next ELSE run[q]
        BY <1>3, <3>1
      <3> QED
        BY <3>2, <3>3
    <2>3. \A q \in Procs : RunIsTyped(run'[q])
      BY <2>1, <2>2 DEF RunsTyped, RunIsTyped
    <2> QED
      BY <2>2, <2>3 DEF RunsTyped, RunIsTyped
  <1>5. SeedIsBound'
    BY <1>1, <1>2, <1>3 DEF SeedIsBound, RunsTyped
  <1>6. \A s \in Repos : binding'[s].env # 0 => IsOf(binding[s].env, s, binding[s].seed)'
    BY PreservesBound
  <1>7. ASSUME NEW q \in Procs, At(q, "bind")' PROVE IsOf(run[q].env, run[q].repo, run[q].seed)'
    <2>1. CASE q = p
      BY <1>2, <1>3, <2>1 DEF IsOf, RunsTyped
    <2>2. CASE q # p
      <3>1. run'[q] = run[q] /\ At(q, "bind")
        BY <1>3, <1>7, <2>2 DEF RunsTyped, At
      <3>2. PICK j \in Nat, s \in Repos, u \in Trees : j = run[q].env /\ s = run[q].repo /\ u = run[q].seed /\ IsOf(j, s, u)
        BY <3>1, PreservesBound
      <3>3. IsOf(j, s, u)'
        BY <3>2 DEF Preserves
      <3> QED
        BY <3>1, <3>2, <3>3 DEF IsOf
    <2> QED
      BY <2>1, <2>2
  <1>8. BoundIsOwn'
    BY <1>6, <1>7 DEF BoundIsOwn
  <1> QED
    BY <1>4, <1>5, <1>8

\* A change of the Environments alone.
LEMMA ServerKeeps ==
  ASSUME ServerTyped, LocalTyped, RunsTyped, SeedIsBound, BoundIsOwn, Preserves, UNCHANGED <<binding, run>>
  PROVE  RunsTyped' /\ SeedIsBound' /\ BoundIsOwn'
  <1>1. RunsTyped' /\ SeedIsBound'
    BY DEF RunsTyped, SeedIsBound
  <1>2. \A s \in Repos : binding'[s].env # 0 => IsOf(binding[s].env, s, binding[s].seed)'
    BY PreservesBound
  <1>3. ASSUME NEW q \in Procs, At(q, "bind")' PROVE IsOf(run[q].env, run[q].repo, run[q].seed)'
    <2>1. At(q, "bind")
      BY <1>3 DEF At
    <2>2. PICK j \in Nat, s \in Repos, u \in Trees : j = run[q].env /\ s = run[q].repo /\ u = run[q].seed /\ IsOf(j, s, u)
      BY <2>1, PreservesBound
    <2>3. IsOf(j, s, u)'
      BY <2>2 DEF Preserves
    <2> QED
      BY <2>2, <2>3 DEF IsOf
  <1> QED
    BY <1>1, <1>2, <1>3 DEF BoundIsOwn

\* A request is answered by the Environment it adds, or by the one it has added before.
LEMMA CreateInv ==
  ASSUME ProvisionInv, NEW p \in Procs, createLifecycleEnvironment(p)
  PROVE  ProvisionInv'
  <1> DEFINE q == CreateRequest(p)
  <1> USE DEF ProvisionInv
  <1>1. At(p, "create") /\ UNCHANGED <<config, binding, pair, tree, head, final, late>>
    BY DEF createLifecycleEnvironment, local
  <1>2. q \in Request /\ q.repo = run[p].repo /\ q.name = run[p].name /\ q.body.seed = run[p].seed
    BY <1>1, RequestTyped
  <1>3. LocalTyped'
    BY <1>1 DEF LocalTyped
  <1> HIDE DEF q
  <1>4. CASE Accepts(q) /\ ReserveEnvironmentCreation(q) /\ run' = [run EXCEPT ![p].env = Len(envs) + 1, ![p].pc = "bind"]
    <2>1. PICK i \in Nat : i = Len(envs) + 1
      BY DEF ServerTyped
    <2>2. PICK q0 \in Request : q0 = q
      BY <1>2
    <2>3. Accepts(q0) /\ ReserveEnvironmentCreation(q0) /\ UNCHANGED <<final, head>> /\ late' \subseteq Request
      BY <1>1, <1>4, <2>2 DEF ServerTyped
    <2>4. /\ ServerTyped' /\ EnvironmentsAreWhole'
          /\ \A j \in Nat, r \in Repos, t \in Trees : IsOf(j, r, t) => IsOf(j, r, t)'
          /\ \A j \in Nat : j = Len(envs) + 1 => IsOf(j, q0.repo, q0.body.seed)'
      BY <2>3, AcceptKeeps
    <2>5. IsOf(i, q0.repo, q0.body.seed)' /\ Preserves
      BY <2>1, <2>4 DEF Preserves
    <2>6. RunsTyped' /\ SeedIsBound' /\ BoundIsOwn'
      BY <1>1, <1>2, <1>4, <2>1, <2>2, <2>5, AnswerKeeps
    <2> QED
      BY <1>3, <2>4, <2>6
  <1>5. CASE Replays(q) /\ run' = [run EXCEPT ![p].env = CHOOSE i \in ByKey(q) : TRUE, ![p].pc = "bind"] /\ UNCHANGED <<envs, seeds>>
    <2>1. PICK k \in ByKey(q) : envs[k].body = q.body
      BY <1>5 DEF Replays
    <2>2. (CHOOSE i \in ByKey(q) : TRUE) \in ByKey(q)
      BY <2>1
    <2>3. PICK i : i = CHOOSE j \in ByKey(q) : TRUE
      OBVIOUS
    <2>4. i \in DOMAIN envs /\ envs[i].repo = q.repo /\ envs[i].name = q.name
      BY <2>2, <2>3 DEF ByKey
    <2>5. k \in DOMAIN envs /\ envs[k].name = q.name
      BY <2>1 DEF ByKey
    <2>6. i = k
      BY <2>4, <2>5 DEF EnvironmentsAreWhole
    <2>7. i \in Nat /\ IsOf(i, run[p].repo, run[p].seed)
      BY <1>2, <2>1, <2>4, <2>6, EnvironmentTyped DEF IsOf
    <2>8. Preserves
      BY <1>5 DEF Preserves, IsOf
    <2>9. PICK r, t : r = run[p].repo /\ t = run[p].seed
      OBVIOUS
    <2>10. IsOf(i, r, t)'
      BY <1>5, <2>7, <2>9 DEF IsOf
    <2>11. run' = [run EXCEPT ![p].env = i, ![p].pc = "bind"]
      BY <1>5, <2>3
    <2>12. RunsTyped' /\ SeedIsBound' /\ BoundIsOwn'
      BY <1>1, <2>7, <2>8, <2>9, <2>10, <2>11, AnswerKeeps
    <2>13. ServerTyped' /\ EnvironmentsAreWhole'
      BY <1>1, <1>5 DEF ServerTyped, EnvironmentsAreWhole, VerifiedParts
    <2> QED
      BY <1>3, <2>12, <2>13
  <1>6. CASE UNCHANGED <<envs, seeds>> /\ (Ends(p) \/ run' = [run EXCEPT ![p].name = conflictEnvironmentName(run[p].repo)])
    <2>1. ASSUME run' = [run EXCEPT ![p].name = conflictEnvironmentName(run[p].repo)] PROVE Quietly(p)
      <3> DEFINE next == [run[p] EXCEPT !.name = run[p].repo]
      <3>1. run[p] \in RunStates /\ run[p].repo \in Repos /\ run[p].pc = "create" /\ run[p].seed # None
        BY <1>1 DEF RunsTyped, At
      <3>2. next \in RunStates /\ next.pc = "create" /\ next.repo = run[p].repo /\ next.seed = run[p].seed
        BY <3>1 DEF RunStates
      <3>3. run' = [run EXCEPT ![p] = next]
        BY <2>1 DEF RunsTyped, conflictEnvironmentName
      <3> HIDE DEF next
      <3>4. RunIsTyped(next)
        BY <3>1, <3>2 DEF RunIsTyped
      <3> QED
        BY <3>1, <3>2, <3>3, <3>4 DEF Quietly, SeedIsBound
    <2>2. Quietly(p)
      BY <1>6, <2>1, EndsQuietly
    <2>3. RunsTyped' /\ SeedIsBound' /\ BoundIsOwn'
      BY <1>1, <1>6, <2>2, QuietKeeps
    <2>4. ServerTyped' /\ EnvironmentsAreWhole'
      BY <1>1, <1>6 DEF ServerTyped, EnvironmentsAreWhole, VerifiedParts
    <2> QED
      BY <1>3, <2>3, <2>4
  <1> QED
    BY <1>4, <1>5, <1>6 DEF createLifecycleEnvironment, q

\* A request that nobody waits for is taken as any other.
LEMMA LateInv ==
  ASSUME ProvisionInv, NEW q \in late, LateRequest(q)
  PROVE  ProvisionInv'
  <1> USE DEF ProvisionInv
  <1>1. q \in Request /\ late' \subseteq Request /\ UNCHANGED <<config, binding, pair, tree, head, final, run>>
    BY DEF LateRequest, local, ServerTyped
  <1>2. LocalTyped'
    BY <1>1 DEF LocalTyped
  <1>3. CASE Accepts(q) /\ ReserveEnvironmentCreation(q)
    <2>1. ServerTyped' /\ EnvironmentsAreWhole' /\ Preserves
      BY <1>1, <1>3, AcceptKeeps DEF Preserves
    <2>2. RunsTyped' /\ SeedIsBound' /\ BoundIsOwn'
      BY <1>1, <2>1, ServerKeeps
    <2> QED
      BY <1>2, <2>1, <2>2
  <1>4. CASE UNCHANGED <<envs, seeds>>
    <2>1. ServerTyped' /\ EnvironmentsAreWhole'
      BY <1>1, <1>4 DEF ServerTyped, EnvironmentsAreWhole, VerifiedParts
    <2>2. Preserves
      BY <1>4 DEF Preserves, IsOf
    <2>3. RunsTyped' /\ SeedIsBound' /\ BoundIsOwn'
      BY <1>1, <2>2, ServerKeeps
    <2> QED
      BY <1>2, <2>1, <2>3
  <1> QED
    BY <1>3, <1>4 DEF LateRequest

\* The end of a creation only changes the status of its Environment.
LEMMA CreationEndsInv ==
  ASSUME ProvisionInv, NEW i \in DOMAIN envs, NEW status \in {"active", "failed"},
         envs' = [envs EXCEPT ![i].status = status],
         UNCHANGED <<config, binding, pair, tree, head, final, seeds, late, run>>
  PROVE  ProvisionInv'
  <1> USE DEF ProvisionInv
  <1>1. LocalTyped'
    BY DEF LocalTyped
  <1> DEFINE e == [envs[i] EXCEPT !.status = status]
  <1>2. envs[i] \in Environments
    BY EnvironmentTyped
  <1>3. e \in Environments /\ e.repo = envs[i].repo /\ e.name = envs[i].name /\ e.body = envs[i].body
    BY <1>2 DEF Environments
  <1>4. envs \in Seq(Environments) /\ envs' = [envs EXCEPT ![i] = e] /\ i \in 1..Len(envs)
    BY EnvironmentTyped DEF ServerTyped
  <1> HIDE DEF e
  <1>5. envs' \in Seq(Environments)
    <2>1. Len(envs) \in Nat /\ envs \in [1..Len(envs) -> Environments]
      BY <1>4, LenProperties
    <2>2. envs' \in [1..Len(envs) -> Environments]
      BY <1>3, <1>4, <2>1
    <2> QED
      BY <2>1, <2>2, FunctionIsSeq
  <1>6. DOMAIN envs' = DOMAIN envs /\ \A j \in DOMAIN envs : /\ envs'[j].repo = envs[j].repo
                                                             /\ envs'[j].name = envs[j].name
                                                             /\ envs'[j].body = envs[j].body
    BY <1>3, <1>4
  <1>7. ServerTyped'
    BY <1>5 DEF ServerTyped
  <1>8. EnvironmentsAreWhole'
    BY <1>6 DEF EnvironmentsAreWhole, VerifiedParts
  <1>9. Preserves
    BY <1>6 DEF Preserves, IsOf
  <1>10. RunsTyped' /\ SeedIsBound' /\ BoundIsOwn'
    BY <1>9, ServerKeeps
  <1> QED
    BY <1>1, <1>7, <1>8, <1>10

\* What the User and the clock do meets no binding and no Environment.
LEMMA OutsideInv ==
  ASSUME ProvisionInv, UNCHANGED <<binding, envs, seeds, final, late, run>>, LocalTyped', head' \in Nat
  PROVE  ProvisionInv'
  BY DEF ProvisionInv, ServerTyped, EnvironmentsAreWhole, VerifiedParts, RunsTyped, SeedIsBound, BoundIsOwn, IsOf, At

LEMMA ProvisionStep == ProvisionInv /\ [ProvisionNext]_provisionVars => ProvisionInv'
  <1> SUFFICES ASSUME ProvisionInv, [ProvisionNext]_provisionVars PROVE ProvisionInv'
    OBVIOUS
  <1>a. ServerTyped /\ LocalTyped
    BY DEF ProvisionInv
  <1> USE DEF local, server
  <1>1. ASSUME NEW i \in DOMAIN envs, CreationSucceeds(i) PROVE ProvisionInv'
    BY <1>1, CreationEndsInv DEF CreationSucceeds
  <1>2. ASSUME NEW i \in DOMAIN envs, CreationFails(i) PROVE ProvisionInv'
    BY <1>2, CreationEndsInv DEF CreationFails
  <1>3. ASSUME NEW t \in Trees, EditTree(t) PROVE ProvisionInv'
    <2>1. LocalTyped' /\ head' \in Nat /\ UNCHANGED <<binding, envs, seeds, final, late, run>>
      BY <1>3, <1>a DEF EditTree, LocalTyped, ServerTyped
    <2> QED
      BY <2>1, OutsideInv
  <1>4. ASSUME NEW v \in 1..head, SelectVersion(v) PROVE ProvisionInv'
    <2>1. LocalTyped' /\ head' \in Nat /\ UNCHANGED <<binding, envs, seeds, final, late, run>>
      <3>1. v \in Nat /\ config \in [hasKey : BOOLEAN, version : Nat]
        BY <1>a DEF LocalTyped, ServerTyped
      <3>2. [config EXCEPT !.version = v] \in [hasKey : BOOLEAN, version : Nat]
        BY <3>1
      <3> QED
        BY <1>4, <1>a, <3>2 DEF SelectVersion, LocalTyped, ServerTyped
    <2> QED
      BY <2>1, OutsideInv
  <1>5. ASSUME PublishVersion PROVE ProvisionInv'
    <2>1. LocalTyped' /\ head' \in Nat /\ UNCHANGED <<binding, envs, seeds, final, late, run>>
      BY <1>5, <1>a DEF PublishVersion, LocalTyped, ServerTyped
    <2> QED
      BY <2>1, OutsideInv
  <1>6. ASSUME RevokeOwnedSSHKey PROVE ProvisionInv'
    <2>1. LocalTyped' /\ head' \in Nat /\ UNCHANGED <<binding, envs, seeds, final, late, run>>
      BY <1>6, <1>a DEF RevokeOwnedSSHKey, LocalTyped, ServerTyped
    <2> QED
      BY <2>1, OutsideInv
  <1>7. ASSUME Expire PROVE ProvisionInv'
    <2>1. LocalTyped' /\ head' \in Nat /\ UNCHANGED <<binding, envs, seeds, final, late, run>>
      BY <1>7, <1>a DEF Expire, LocalTyped, ServerTyped
    <2> QED
      BY <2>1, OutsideInv
  <1>8. ASSUME UNCHANGED provisionVars PROVE ProvisionInv'
    <2>1. LocalTyped' /\ head' \in Nat /\ UNCHANGED <<binding, envs, seeds, final, late, run>>
      BY <1>8, <1>a DEF provisionVars, LocalTyped, ServerTyped
    <2> QED
      BY <2>1, OutsideInv
  <1> QED
    BY <1>1, <1>2, <1>3, <1>4, <1>5, <1>6, <1>7, <1>8, QuietStepInv, RegisterInv, SetSeedInv, CreateInv, BindInv, LateInv
    DEF ProvisionNext, ProcessStep, ServerStep, Interference, QuietStep

LEMMA ProvisionInvInit == ProvisionInit => ProvisionInv
  <1> SUFFICES ASSUME ProvisionInit PROVE ProvisionInv
    OBVIOUS
  <1>1. ServerTyped
    BY EmptySeq DEF ProvisionInit, ServerTyped
  <1>2. LocalTyped
    BY DEF ProvisionInit, LocalTyped
  <1>3. RunsTyped /\ SeedIsBound
    BY IdleTyped DEF ProvisionInit, RunsTyped, SeedIsBound
  <1>4. EnvironmentsAreWhole
    BY DEF ProvisionInit, EnvironmentsAreWhole
  <1>5. BoundIsOwn
    BY IdleTyped DEF ProvisionInit, BoundIsOwn, At
  <1> QED
    BY <1>1, <1>2, <1>3, <1>4, <1>5 DEF ProvisionInv

\* The inductive invariant: Seeds are bound once, names are given once, parts are final first.
THEOREM ProvisionInvariant == ProvisionSpec => []ProvisionInv
  BY ProvisionInvInit, ProvisionStep, PTL DEF ProvisionSpec

\* A repository is bound to the Environment that was created for it with its bound Seed, and
\* every part of an accepted Seed is at its final key.
THEOREM BindingsAreOwn == ProvisionSpec => []BindingIsItsOwn
  <1>1. ProvisionInv => BindingIsItsOwn
    <2> SUFFICES ASSUME ProvisionInv PROVE BindingIsItsOwn
      OBVIOUS
    <2>1. \A r \in Repos : binding[r].env # 0 => /\ envs[binding[r].env].repo = r
                                                 /\ envs[binding[r].env].body.seed = binding[r].seed
      BY DEF ProvisionInv, BoundIsOwn, IsOf
    <2>2. ASSUME NEW i \in DOMAIN envs
          PROVE  seeds[envs[i].body.seed].registered /\ VerifiedParts(envs[i].body.seed) \subseteq final
      BY EnvironmentTyped DEF ProvisionInv, EnvironmentsAreWhole
    <2> QED
      BY <2>1, <2>2 DEF BindingIsItsOwn, VerifiedParts
  <1> QED
    BY <1>1, ProvisionInvariant, PTL
=============================================================================

-------------------------- MODULE IdentitySessions --------------------------
(* Authentication of the API (apps/api/src/auth) and the bridge from an     *)
(* authenticated session to Nakama (apps/api/src/realtime,                  *)
(* runtime/nakama/session_bridge.go).                                       *)
(*                                                                          *)
(* The tables of the identity schema are the state.  A login is a request   *)
(* that awaits several calls: it stamps itself with the clock when it       *)
(* begins, consumes a challenge or exchanges a Google code, and replaces    *)
(* the open session of the player in one read-committed transaction of two  *)
(* statements.  The constraints of the tables decide which of two racing    *)
(* logins commits.  There is one current disclosure.                        *)
EXTENDS Integers, Sequences, FiniteSets

CONSTANTS
    Username, Identity,             \* Hive names, Google subjects
    Request,                        \* slots for requests in flight
    Nobody,
    ChallengeTTL, SessionTTL, AccessTTL, AssertionTTL,
    BridgeCapacity,                 \* bridgeReplayMaxEntries
    Scenarios                       \* the bounds to explore, one set of them at a time

ASSUME TTLAssumption ==
    {ChallengeTTL, SessionTTL, AccessTTL, AssertionTTL, BridgeCapacity} \subseteq Nat \ {0}

(* A challenge is named by its place in the table, so no identity is a      *)
(* number; Nobody stands for a column that is NULL.                         *)
ASSUME NamesAssumption ==
    /\ Identity \cap Nat = {}
    /\ Nobody \notin Username \cup Identity \cup Nat

ASSUME ScenariosAssumption ==
    \A l \in Scenarios :
      /\ {l.time, l.challenges, l.sessions, l.refreshes, l.assertions} \subseteq Nat
      /\ l.identities \subseteq Identity /\ l.requests \subseteq Request

VARIABLES
    limit,          \* the scenario: bounds of the model, not state of the program
    now,            \* the clock, which the API and Nakama share
    account,        \* who controls the Hive account of a name, at the head block
    player,         \* identity.player: hive_control_state by name
    identity,       \* identity.external_identity
    challenge,      \* identity.hive_login_challenge, in order of insertion
    session,        \* identity.auth_session, in order of insertion
    identityAck, playerAck,  \* acknowledgment rows with and without an identity
    onboardingUntil,         \* expiry of the last onboarding token of an identity
    request,        \* requests of the API and of Nakama between two of their awaits
    assertion,      \* bridge assertions, in the order they were minted
    replay,         \* nonces in the replay records of session_bridge.go
    accepted        \* how often Nakama has accepted an assertion

sessionVars == <<limit, now, account, player, identity, challenge, session, identityAck,
                 playerAck, onboardingUntil, request, assertion, replay, accepted>>
ackVars == <<identityAck, playerAck>>
bridgeVars == <<assertion, replay, accepted>>

Idle == [pc |-> "idle", stamp |-> 0, user |-> Nobody, via |-> Nobody,
         control |-> "none", saw |-> {}, session |-> 0]
NoIdentity == [status |-> "absent", player |-> Nobody, verifiedAt |-> 0]

SessionsInit ==
    /\ limit \in Scenarios
    /\ now = 0
    /\ account = [u \in Username |-> "none"]
    /\ player = [u \in Username |-> "none"]
    /\ identity = [e \in Identity |-> NoIdentity]
    /\ challenge = <<>>
    /\ session = <<>>
    /\ identityAck = [e \in Identity |-> "none"]
    /\ playerAck = [u \in Username |-> FALSE]
    /\ onboardingUntil = [e \in Identity |-> 0]
    /\ request = [r \in Request |-> Idle]
    /\ assertion = <<>> /\ replay = {}
    /\ accepted = [n \in 1..limit.assertions |-> 0]

-----------------------------------------------------------------------------
(* Reads shared by the guards and the repository.                          *)

IsOpen(s) == session[s].revoked = "no"
OpenSessions(u) == {s \in DOMAIN session : session[s].user = u /\ IsOpen(s)}
Unexpired(s) == session[s].issuedAt + SessionTTL > now

(* What TokenService issues at time t, and what verify makes of it.         *)
TokenUntil(t) == t + AccessTTL
AccessTokenValid(s) == session[s].accessUntil > now
OnboardingTokenValid(e) == onboardingUntil[e] > now

(* AccessSessionGuard: the token, then findActiveSession.                   *)
Active(s) == AccessTokenValid(s) /\ IsOpen(s) /\ Unexpired(s)

(* The WHERE clause of rotateSession for the g-th token of a session.       *)
Honoured(s, g) == IsOpen(s) /\ Unexpired(s) /\ g = session[s].token

(* disclosureAcknowledgedSql.                                               *)
Acknowledged(u) ==
    \/ playerAck[u]
    \/ \E e \in Identity : identityAck[e] = "linked" /\ identity[e].player = u

CanBegin(r) == request[r] = Idle /\ r \in limit.requests
Goes(r, pc) == request' = [request EXCEPT ![r].pc = pc]
Ends(r) == request' = [request EXCEPT ![r] = Idle]

-----------------------------------------------------------------------------
(* Direct Hive login.                                                      *)

ChallengeRow(u) == [consumed |-> FALSE, user |-> u, until |-> now + ChallengeTTL]

CreateHiveChallenge(u) ==
    /\ Len(challenge) < limit.challenges
    /\ challenge' = Append(challenge, ChallengeRow(u))
    /\ UNCHANGED <<limit, now, account, player, identity, session, ackVars, onboardingUntil,
                   request, bridgeVars>>

Consumable(c) == ~challenge[c].consumed /\ challenge[c].until > now

ConsumeHiveChallenge(r, c) ==
    /\ CanBegin(r)
    /\ Consumable(c)
    /\ challenge' = [challenge EXCEPT ![c].consumed = TRUE]
    /\ request' = [request EXCEPT ![r] =
         [Idle EXCEPT !.pc = "verify", !.stamp = now, !.via = c,
                      !.user = challenge[c].user]]
    /\ UNCHANGED <<limit, now, account, player, identity, session, ackVars, onboardingUntil,
                   bridgeVars>>

(* The signer holds the current posting authority only of an account that   *)
(* is not in platform custody; any other outcome is Abandon.                *)
VerifyPostingAuthority(r) ==
    /\ request[r].pc = "verify"
    /\ account[request[r].user] = "external"
    /\ Goes(r, "player")
    /\ UNCHANGED <<limit, now, account, player, identity, challenge, session, ackVars,
                   onboardingUntil, bridgeVars>>

(* The upsert keeps the control state of a player that exists.              *)
Upserted(u, control) == IF player[u] = "none" THEN control ELSE player[u]

FindOrCreateDirectHivePlayer(r) ==
    LET u == request[r].user
        control == Upserted(u, "external_self_custodial") IN
    /\ request[r].pc = "player"
    /\ player' = [player EXCEPT ![u] = control]
    /\ request' = [request EXCEPT ![r].pc = "supersede", ![r].control = control]
    /\ UNCHANGED <<limit, now, account, identity, challenge, session, ackVars,
                   onboardingUntil, bridgeVars>>

-----------------------------------------------------------------------------
(* Google login.                                                           *)

ExchangeGoogle(r, e) ==
    /\ CanBegin(r)
    /\ request' = [request EXCEPT ![r] =
         [Idle EXCEPT !.pc = "identity", !.stamp = now, !.via = e]]
    /\ UNCHANGED <<limit, now, account, player, identity, challenge, session, ackVars,
                   onboardingUntil, bridgeVars>>

(* The upsert writes the stamp of the request to last_authenticated_at,     *)
(* which may not precede verified_at (chk_external_identity_auth_time).     *)
UpsertAdmitted(e, stamp) == identity[e] = NoIdentity \/ identity[e].verifiedAt <= stamp
UpsertedIdentity(e, stamp) ==
    IF identity[e] # NoIdentity THEN identity[e]
    ELSE [NoIdentity EXCEPT !.status = "provisioning", !.verifiedAt = stamp]

(* A linked identity goes on to a session, any other gets an onboarding     *)
(* token.                                                                   *)
UpsertGoogleIdentity(r) ==
    LET e == request[r].via
        stamp == request[r].stamp IN
    /\ request[r].pc = "identity"
    /\ UpsertAdmitted(e, stamp)
    /\ identity' = [identity EXCEPT ![e] = UpsertedIdentity(e, stamp)]
    /\ IF identity[e].status = "linked"
       THEN /\ request' = [request EXCEPT ![r].pc = "supersede",
                 ![r].user = identity[e].player,
                 ![r].control = player[identity[e].player]]
            /\ UNCHANGED onboardingUntil
       ELSE /\ Ends(r)
            /\ onboardingUntil' = [onboardingUntil EXCEPT
                 ![e] = IF @ < TokenUntil(stamp) THEN TokenUntil(stamp) ELSE @]
    /\ UNCHANGED <<limit, now, account, player, challenge, session, ackVars, bridgeVars>>

-----------------------------------------------------------------------------
(* createSession: the statement that revokes sees the rows committed before *)
(* it began; the statement that inserts meets whatever has been committed   *)
(* meanwhile.                                                               *)

SupersedeSessions(r) ==
    /\ request[r].pc = "supersede"
    /\ request' = [request EXCEPT ![r].pc = "insert",
                                  ![r].saw = OpenSessions(request[r].user)]
    /\ UNCHANGED <<limit, now, account, player, identity, challenge, session, ackVars,
                   onboardingUntil, bridgeVars>>

(* uq_auth_session_one_open_per_player.                                     *)
MutantNoIndex(r) == TRUE
IndexAdmits(r) == OpenSessions(request[r].user) \subseteq request[r].saw

(* chk_auth_session_revoked_time: revoked_at is the stamp of the login.     *)
MutantAnyOrder(r) == TRUE
RevocationInOrder(r) ==
    \A s \in OpenSessions(request[r].user) \cap request[r].saw :
      session[s].issuedAt <= request[r].stamp

(* chk_auth_session_custodial_signer: a Google login always names the       *)
(* custodial service.                                                       *)
SignerAdmitted(r) ==
    request[r].via \in Identity => request[r].control = "platform_custodial"

Replaced(r) ==
    [s \in DOMAIN session |->
      IF s \in OpenSessions(request[r].user) \cap request[r].saw
      THEN [session[s] EXCEPT !.revoked = "superseded_login"] ELSE session[s]]

InsertSession(r) ==
    /\ request[r].pc = "insert"
    /\ Len(session) < limit.sessions
    /\ IF IndexAdmits(r) /\ RevocationInOrder(r) /\ SignerAdmitted(r)
       THEN session' = Append(Replaced(r),
              [user |-> request[r].user, via |-> request[r].via,
               issuedAt |-> request[r].stamp, revoked |-> "no", token |-> 1,
               accessUntil |-> TokenUntil(request[r].stamp)])
       ELSE UNCHANGED session
    /\ Ends(r)
    /\ UNCHANGED <<limit, now, account, player, identity, challenge, ackVars,
                   onboardingUntil, bridgeVars>>

(* A refused signature or code, an outage, a violated constraint or a lost  *)
(* process ends a request; what it has committed stays.                     *)
Abandon(r) ==
    /\ request[r] # Idle
    /\ Ends(r)
    /\ UNCHANGED <<limit, now, account, player, identity, challenge, session, ackVars,
                   onboardingUntil, bridgeVars>>

-----------------------------------------------------------------------------
(* The life of a session.                                                  *)

(* rotateSession and the access token that refresh returns.                 *)
Refresh(s, g) ==
    /\ Honoured(s, g)
    /\ session[s].token <= limit.refreshes
    /\ session' = [session EXCEPT ![s].token = @ + 1, ![s].accessUntil = TokenUntil(now)]
    /\ UNCHANGED <<limit, now, account, player, identity, challenge, ackVars, onboardingUntil,
                   request, bridgeVars>>

RevokeSession(s) ==
    /\ Active(s)
    /\ session' = [session EXCEPT ![s].revoked = "player_logout"]
    /\ UNCHANGED <<limit, now, account, player, identity, challenge, ackVars, onboardingUntil,
                   request, bridgeVars>>

(* acknowledgeCurrentDisclosure by a playable session; ON CONFLICT DO       *)
(* NOTHING meets the row the player already has, linked or own.             *)
Acknowledgeable(u) == ~Acknowledged(u)

AcknowledgeAsPlayer(s) ==
    /\ Active(s)
    /\ Acknowledgeable(session[s].user)
    /\ playerAck' = [playerAck EXCEPT ![session[s].user] = TRUE]
    /\ UNCHANGED <<limit, now, account, player, identity, challenge, session, identityAck,
                   onboardingUntil, request, bridgeVars>>

(* The same by an onboarding token, whatever has become of the identity.    *)
AcknowledgeAsIdentity(e) ==
    /\ OnboardingTokenValid(e)
    /\ identityAck[e] = "none"
    /\ identityAck' = [identityAck EXCEPT ![e] = "pending"]
    /\ UNCHANGED <<limit, now, account, player, identity, challenge, session, playerAck,
                   onboardingUntil, request, bridgeVars>>

-----------------------------------------------------------------------------
(* The bridge to Nakama.                                                   *)

(* RealtimeController.createSession behind AccessSessionGuard.              *)
MayPlay(s) == Active(s) /\ Acknowledged(session[s].user)

RequestRealtime(r, s) ==
    /\ CanBegin(r)
    /\ MayPlay(s)
    /\ request' = [request EXCEPT ![r] = [Idle EXCEPT !.pc = "mint", !.session = s]]
    /\ UNCHANGED <<limit, now, account, player, identity, challenge, session, ackVars,
                   onboardingUntil, bridgeVars>>

CreateBridgeAssertion(r) ==
    /\ request[r].pc = "mint"
    /\ Len(assertion) < limit.assertions
    /\ assertion' = Append(assertion, [session |-> request[r].session,
                                       until |-> now + AssertionTTL])
    /\ Ends(r)
    /\ UNCHANGED <<limit, now, account, player, identity, challenge, session, ackVars,
                   onboardingUntil, replay, accepted>>

(* beforeAuthenticateCustom, called any number of times with an assertion,  *)
(* reads the clock once, when it has verified the assertion.                *)
BeforeAuthenticateCustom(r, n) ==
    /\ CanBegin(r)
    /\ assertion[n].until > now
    /\ request' = [request EXCEPT ![r] =
         [Idle EXCEPT !.pc = "consume", !.stamp = now, !.via = n]]
    /\ UNCHANGED <<limit, now, account, player, identity, challenge, session, ackVars,
                   onboardingUntil, bridgeVars>>

(* bridgeReplayWrite prunes the record of the session, as of the time its   *)
(* handler began, before it looks.                                          *)
MutantPruneEarly(s, at) ==
    {n \in replay : assertion[n].session = s => assertion[n].until > at + 1}
Pruned(s, at) == {n \in replay : assertion[n].session = s => assertion[n].until > at}

(* The attempt of StorageWriteRetry that meets the version it has read; any *)
(* number before it, and refusals, leave the record alone (see Abandon).    *)
Consume(r) ==
    LET n == request[r].via
        s == assertion[n].session
        record == Pruned(s, request[r].stamp) IN
    /\ request[r].pc = "consume"
    /\ n \notin record
    /\ Cardinality({m \in record : assertion[m].session = s}) < BridgeCapacity
    /\ replay' = record \cup {n}
    /\ accepted' = [accepted EXCEPT ![n] = @ + 1]
    /\ Ends(r)
    /\ UNCHANGED <<limit, now, account, player, identity, challenge, session, ackVars,
                   onboardingUntil, assertion>>

Tick ==
    /\ now < limit.time
    /\ now' = now + 1
    /\ UNCHANGED <<limit, account, player, identity, challenge, session, ackVars,
                   onboardingUntil, request, bridgeVars>>

SessionsNext ==
    \/ Tick
    \/ \E u \in Username : CreateHiveChallenge(u)
    \/ \E r \in Request :
         \/ \E c \in DOMAIN challenge : ConsumeHiveChallenge(r, c)
         \/ \E e \in limit.identities : ExchangeGoogle(r, e)
         \/ VerifyPostingAuthority(r) \/ FindOrCreateDirectHivePlayer(r)
         \/ UpsertGoogleIdentity(r) \/ SupersedeSessions(r) \/ InsertSession(r)
         \/ CreateBridgeAssertion(r) \/ Consume(r) \/ Abandon(r)
         \/ \E n \in DOMAIN assertion : BeforeAuthenticateCustom(r, n)
         \/ \E s \in DOMAIN session : RequestRealtime(r, s)
    \/ \E s \in DOMAIN session :
         \/ RevokeSession(s) \/ AcknowledgeAsPlayer(s)
         \/ \E g \in 1..session[s].token : Refresh(s, g)
    \/ \E e \in Identity : AcknowledgeAsIdentity(e)

-----------------------------------------------------------------------------
(* Properties.                                                             *)

(* However logins, rotations and logouts interleave, at most one refresh    *)
(* token of a player would be honoured: the open sessions and the rotation  *)
(* of rotateSession leave no second credential alive.                       *)
OneLiveCredential ==
    \A u \in Username :
      Cardinality({c \in (DOMAIN session) \X (1..limit.refreshes + 1) :
                     session[c[1]].user = u /\ Honoured(c[1], c[2])}) <= 1

(* A login that was begun earlier and commits later never displaces the     *)
(* session of a later login: when the open session is not the newest, a     *)
(* player has logged out of one at least as new.                            *)
NewestLoginWins ==
    \A s, t \in DOMAIN session :
      /\ session[s].user = session[t].user /\ IsOpen(s)
      /\ session[t].issuedAt > session[s].issuedAt
      => \E l \in DOMAIN session :
           /\ session[l].user = session[s].user /\ session[l].revoked = "player_logout"
           /\ session[l].issuedAt >= session[t].issuedAt

(* A login challenge opens at most one session.  Until it expires, Nakama   *)
(* accepts a bridge assertion at most once, however the handlers that hold  *)
(* it overlap, and only for a player who has acknowledged the disclosure;   *)
(* one that began before the expiry may accept it again afterwards.         *)
CredentialsAreSingleUse ==
    /\ \A s, t \in DOMAIN session :
         s # t /\ session[s].via \notin Identity => session[s].via # session[t].via
    /\ \A n \in DOMAIN assertion :
         /\ accepted[n] > 1 => assertion[n].until <= now
         /\ accepted[n] > 0 => Acknowledged(session[assertion[n].session].user)
=============================================================================

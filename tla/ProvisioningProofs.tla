------------------------- MODULE ProvisioningProofs -------------------------
(* Proofs about Provisioning and the sessions it is composed with: the      *)
(* tables keep their types; a player has at most one live refresh token and *)
(* a late login never displaces a later one; challenges and bridge          *)
(* assertions are used once; and an identity is linked only to an account   *)
(* of its own that is verified, irreversible and in platform custody.       *)
EXTENDS Provisioning, FiniteSetTheorems, SequenceTheorems, TLAPS

-----------------------------------------------------------------------------
(* The inductive invariant.                                                *)

Control == {"none", "external_self_custodial", "platform_custodial"}
LoginSteps == {"verify", "player", "supersede", "insert"}
KeyedSteps ==
    {"create", "mark_creation_pending", "verify_account", "mark_created",
     "mark_rc_pending", "delegate", "mark_delegated", "verify_ready", "mark_ready"}

Challenges == [consumed : BOOLEAN, user : Username, until : Nat]
Sessions ==
    [user : Username, via : Identity \cup Nat, issuedAt : Nat,
     revoked : {"no", "superseded_login", "player_logout"}, token : Nat, accessUntil : Nat]
Identities ==
    [status : {"absent", "provisioning", "linked"}, player : Username \cup {Nobody},
     verifiedAt : Nat]
Requests ==
    [pc : LoginSteps \cup {"idle", "identity", "confirm", "mint", "consume"}, stamp : Nat,
     user : Username \cup {Nobody}, via : Identity \cup Nat \cup {Nobody},
     control : Control, saw : SUBSET Nat, session : Nat]
Assertions == [session : Nat, until : Nat]
Jobs ==
    [state : JobStates, user : Username \cup {Nobody},
     keys : {"none", "generated", "active"}, delegated : BOOLEAN]
Runs ==
    [pc : KeyedSteps \cup {"idle", "get_keys", "save_keys", "fail"},
     identity : Identity \cup {Nobody}, read : JobStates]

(* The rows of the tables, of the requests and of the runs.                 *)
Tables ==
    /\ limit \in Scenarios
    /\ now \in Nat /\ now <= limit.time
    /\ account \in [Username -> {"none", "external", "ours"}]
    /\ player \in [Username -> Control]
    /\ identity \in [Identity -> Identities]
    /\ challenge \in Seq(Challenges)
    /\ session \in Seq(Sessions)
    /\ identityAck \in [Identity -> {"none", "pending", "linked"}]
    /\ playerAck \in [Username -> BOOLEAN]
    /\ request \in [Request -> Requests]
    /\ assertion \in Seq(Assertions) /\ Len(assertion) <= limit.assertions
    /\ replay \in SUBSET DOMAIN assertion
    /\ accepted \in [1..limit.assertions -> Nat]
    /\ final \in [Username -> BOOLEAN] /\ rc \in [Username -> BOOLEAN]
    /\ projected \in SUBSET Username
    /\ job \in [Identity -> Jobs]
    /\ run \in [Worker -> Runs]
    /\ faults \in Nat /\ faults <= limit.faults
    /\ forks \in Nat /\ forks <= limit.forks

(* uq_auth_session_one_open_per_player.                                     *)
OneOpenSession ==
    \A s, t \in DOMAIN session :
      session[s].user = session[t].user /\ IsOpen(s) /\ IsOpen(t) => s = t

(* Every session is matched by one of the player, at least as new, that no  *)
(* login has superseded.                                                    *)
NewestIsKept ==
    \A t \in DOMAIN session :
      \E l \in DOMAIN session :
        /\ session[l].user = session[t].user
        /\ session[l].issuedAt >= session[t].issuedAt
        /\ session[l].revoked # "superseded_login"

(* A challenge that somebody logs in with has been consumed, and nobody     *)
(* else does.                                                               *)
Spent(c) == c \in DOMAIN challenge /\ challenge[c].consumed
ChallengesServeOnce ==
    /\ \A s \in DOMAIN session : session[s].via \notin Identity => Spent(session[s].via)
    /\ \A s, t \in DOMAIN session :
         s # t /\ session[s].via \notin Identity => session[s].via # session[t].via
    /\ \A r \in Request : request[r].pc \in LoginSteps /\ request[r].via \notin Identity =>
         /\ Spent(request[r].via)
         /\ \A s \in DOMAIN session : session[s].via # request[r].via
         /\ \A q \in Request \ {r} : request[q].pc \in LoginSteps =>
              request[q].via # request[r].via

(* An assertion that has been accepted is in the replay record until it has *)
(* expired, and has been accepted once.                                     *)
AcceptedOnce ==
    /\ \A n \in DOMAIN assertion :
         accepted[n] > 0 =>
           (n \in replay /\ accepted[n] = 1) \/ assertion[n].until <= now
    /\ \A n \in 1..limit.assertions : n \notin DOMAIN assertion => accepted[n] = 0

(* Assertions are minted for players who have acknowledged.                 *)
Playable(s) == s \in DOMAIN session /\ Acknowledged(session[s].user)
AssertionsArePlayable == \A n \in DOMAIN assertion : Playable(assertion[n].session)

(* What a request holds at each of its steps.                               *)
Fits(q) ==
    /\ q.pc \in LoginSteps \cup {"confirm"} => q.user \in Username
    /\ q.pc \in {"identity", "confirm"} => q.via \in Identity
    /\ q.pc \in LoginSteps => q.via # Nobody
    /\ q.pc \in {"supersede", "insert"} => player[q.user] # "none"
    /\ q.pc = "player" /\ forks = 0 => account[q.user] = "external"
    /\ q.pc = "mint" => Playable(q.session)
    /\ q.pc = "consume" => q.via \in DOMAIN assertion /\ q.stamp \in Nat /\ q.stamp <= now
RequestsFit == \A r \in Request : Fits(request[r])

(* Only a player acknowledges for a name, and a player in platform custody  *)
(* is the player of a linked identity.                                      *)
CustodyIsLinked ==
    \A u \in Username :
      /\ playerAck[u] => player[u] # "none"
      /\ player[u] = "platform_custodial" =>
           \E e \in Identity : identity[e].status = "linked" /\ identity[e].player = u

(* Sessions and links are of players that exist, and without a fork a       *)
(* player in self-custody has an account registered elsewhere.              *)
PlayersExist ==
    /\ CustodyIsLinked
    /\ \A s \in DOMAIN session : player[session[s].user] # "none"
    /\ \A u \in Username :
         forks = 0 /\ player[u] = "external_self_custodial" => account[u] = "external"

(* What an identity and its job say about each other.                       *)
Verified(u) == account[u] = "ours" /\ final[u] /\ rc[u]
LinkIsEarned(e) ==
    /\ identity[e].status = "linked" =>
         /\ identity[e].player \in Username
         /\ player[identity[e].player] # "none"
         /\ Verified(identity[e].player)
         /\ job[e].user = identity[e].player /\ job[e].keys = "active"
    /\ identity[e].status # "linked" => identity[e].player = Nobody
    /\ identity[e].status = "absent" => identity[e] = NoIdentity
JobIsReserved(e) ==
    /\ job[e].state = "none" => job[e] = NoJob
    /\ job[e].state # "none" => job[e].user \in Username /\ identity[e].status # "absent"
    /\ job[e].state \in {"none", "username_confirmed"} => job[e].keys = "none"
    /\ job[e].state = "ready" => identity[e].status = "linked" /\ job[e].delegated
LinksAreEarned == \A e \in Identity : LinkIsEarned(e) /\ JobIsReserved(e)
NamesAreReserved ==
    \A e, f \in Identity : e # f /\ job[e].user # Nobody => job[e].user # job[f].user

(* What a run may rely on at each of its steps.                             *)
RunFits(x) ==
    /\ x.pc = "idle" => x = NoRun
    /\ x.pc # "idle" => x.identity \in Identity /\ job[x.identity].state # "none"
    /\ x.pc \in KeyedSteps => job[x.identity].keys # "none"
    /\ x.pc = "mark_ready" => Verified(job[x.identity].user)
RunsFit == \A w \in Worker : RunFits(run[w])

ProvisioningInv ==
    /\ Tables /\ OneOpenSession /\ NewestIsKept /\ ChallengesServeOnce
    /\ AcceptedOnce /\ AssertionsArePlayable /\ RequestsFit /\ PlayersExist
    /\ LinksAreEarned /\ NamesAreReserved /\ RunsFit

-----------------------------------------------------------------------------
(* Lemmas about single rows and about what every step leaves in place.     *)

(* The initial database satisfies the invariant.                            *)
LEMMA InitialInvariant == Init => ProvisioningInv
<1>1. SUFFICES ASSUME Init PROVE ProvisioningInv
  OBVIOUS
<1>2. limit.assertions \in Nat /\ limit.time \in Nat /\ limit.faults \in Nat
      /\ limit.forks \in Nat
  BY <1>1, ScenariosAssumption, FaultsAssumption DEF Init, SessionsInit
<1>3. Idle \in Requests
  BY DEF Idle, Requests, Control
<1>4. NoIdentity \in Identities /\ NoJob \in Jobs /\ NoRun \in Runs
  BY DEF NoIdentity, Identities, NoJob, Jobs, NoRun, Runs, JobStates
<1>5. /\ challenge = <<>> /\ session = <<>> /\ assertion = <<>>
      /\ DOMAIN challenge = {} /\ DOMAIN session = {} /\ DOMAIN assertion = {}
      /\ Len(assertion) = 0
  BY <1>1 DEF Init, SessionsInit
<1>6. Tables
  BY <1>1, <1>2, <1>3, <1>4, <1>5 DEF Tables, Init, SessionsInit, Control
<1>7. OneOpenSession /\ NewestIsKept /\ AssertionsArePlayable
  BY <1>5 DEF OneOpenSession, NewestIsKept, AssertionsArePlayable
<1>8. ChallengesServeOnce /\ RequestsFit
  BY <1>1, <1>5 DEF ChallengesServeOnce, RequestsFit, Fits, Init, SessionsInit, Idle,
                    LoginSteps
<1>9. AcceptedOnce
  BY <1>1, <1>5 DEF AcceptedOnce, Init, SessionsInit
<1>10. PlayersExist
  BY <1>1, <1>5 DEF PlayersExist, CustodyIsLinked, Init, SessionsInit
<1>11. LinksAreEarned /\ NamesAreReserved
  BY <1>1 DEF LinksAreEarned, LinkIsEarned, JobIsReserved, NamesAreReserved, Init,
              SessionsInit, NoJob, NoIdentity
<1>12. RunsFit
  BY <1>1 DEF RunsFit, RunFits, Init, NoRun, KeyedSteps
<1> QED BY <1>6, <1>7, <1>8, <1>9, <1>10, <1>11, <1>12 DEF ProvisioningInv

(* What every step leaves of the ground on which requests stand: players    *)
(* stay, a playable session stays one, and an account registered elsewhere  *)
(* stays unless it is forked out.                                           *)
Grounds ==
    /\ \A u \in Username : player[u] # "none" => player'[u] # "none"
    /\ forks' = 0 => forks = 0
    /\ \A u \in Username : forks' = 0 /\ account[u] = "external" => account'[u] = "external"
    /\ \A s : Playable(s) => Playable(s)'
    /\ DOMAIN assertion \subseteq DOMAIN assertion'
    /\ \A t \in Nat : t <= now => t <= now'

(* A request that fits the database still fits it after a step.             *)
LEMMA FitsStays ==
    ASSUME Grounds, NEW q, Fits(q)
    PROVE  Fits(q)'
<1>1. q.pc \in LoginSteps \cup {"confirm"} => q.user \in Username
  BY DEF Fits
<1>2. q.pc \in {"supersede", "insert"} => player'[q.user] # "none"
  BY <1>1 DEF Fits, Grounds, LoginSteps
<1>3. q.pc = "player" /\ forks' = 0 => account'[q.user] = "external"
  BY <1>1 DEF Fits, Grounds, LoginSteps
<1>4. q.pc = "mint" => Playable(q.session)'
  <2>1. PICK x : x = q.session
    OBVIOUS
  <2>2. q.pc = "mint" => Playable(x)'
    BY <2>1 DEF Fits, Grounds
  <2> QED BY <2>1, <2>2
<1>5. q.pc = "consume" =>
        q.via \in DOMAIN assertion' /\ q.stamp \in Nat /\ q.stamp <= now'
  BY DEF Fits, Grounds
<1> QED BY <1>1, <1>2, <1>3, <1>4, <1>5 DEF Fits

(* Requests that do not move keep fitting.                                  *)
LEMMA RequestsFitStay ==
    ASSUME RequestsFit, Grounds, UNCHANGED request
    PROVE  RequestsFit'
<1>1. SUFFICES ASSUME NEW r \in Request PROVE Fits(request[r])'
  BY DEF RequestsFit
<1>2. PICK q : q = request[r]
  OBVIOUS
<1>3. Fits(q)'
  BY <1>2, FitsStays DEF RequestsFit
<1> QED BY <1>2, <1>3

(* One request moves to something that fits.                                *)
LEMMA RequestsFitStep ==
    ASSUME Tables, RequestsFit, Grounds, NEW r \in Request, NEW q, Fits(q)',
           request' = [request EXCEPT ![r] = q]
    PROVE  RequestsFit'
<1>1. SUFFICES ASSUME NEW t \in Request PROVE Fits(request[t])'
  BY DEF RequestsFit
<1>2. PICK x : x = request'[t]
  OBVIOUS
<1>3. x = q \/ x = request[t]
  BY <1>2 DEF Tables
<1>4. Fits(x)'
  BY <1>3, FitsStays DEF RequestsFit
<1> QED BY <1>2, <1>4

(* Tables whose rows are numbered: their rows, a row appended, one changed. *)
LEMMA TableRows ==
    ASSUME NEW S, NEW seq \in Seq(S)
    PROVE  /\ Len(seq) \in Nat /\ DOMAIN seq = 1..Len(seq)
           /\ seq \in [1..Len(seq) -> S]
           /\ \A i \in DOMAIN seq : seq[i] \in S /\ i \in Nat
  BY LenProperties

(* A table with one more row.                                               *)
LEMMA TableAppended ==
    ASSUME NEW S, NEW seq \in Seq(S), NEW row \in S, NEW new, new = Append(seq, row)
    PROVE  /\ new \in Seq(S) /\ Len(new) = Len(seq) + 1
           /\ DOMAIN new = DOMAIN seq \cup {Len(seq) + 1}
           /\ Len(seq) + 1 \notin DOMAIN seq
           /\ \A i \in DOMAIN seq : new[i] = seq[i]
           /\ new[Len(seq) + 1] = row
<1>1. Len(seq) \in Nat /\ DOMAIN seq = 1..Len(seq)
  BY TableRows
<1>2. /\ new \in Seq(S) /\ Len(new) = Len(seq) + 1
      /\ \A i \in 1..Len(seq) : new[i] = seq[i]
      /\ new[Len(seq) + 1] = row
  BY AppendProperties
<1>3. DOMAIN new = 1..Len(new)
  BY <1>2, TableRows
<1> QED BY <1>1, <1>2, <1>3

(* A table whose rows are updated.                                          *)
LEMMA TableMapped ==
    ASSUME NEW S, NEW seq \in Seq(S), NEW new \in [DOMAIN seq -> S]
    PROVE  new \in Seq(S) /\ Len(new) = Len(seq) /\ DOMAIN new = DOMAIN seq
<1>1. Len(seq) \in Nat /\ DOMAIN seq = 1..Len(seq)
  BY TableRows
<1>2. new \in Seq(S)
  BY <1>1, SeqDef
<1>3. Len(new) \in Nat /\ DOMAIN new = 1..Len(new)
  BY <1>2, TableRows
<1> QED BY <1>1, <1>2, <1>3

(* The types of the session rows.                                           *)
LEMMA SessionRows ==
    ASSUME Tables
    PROVE  \A s \in DOMAIN session :
             /\ s \in Nat /\ session[s] \in Sessions
             /\ session[s].user \in Username /\ session[s].issuedAt \in Nat
<1>1. session \in Seq(Sessions)
  BY DEF Tables
<1>2. \A s \in DOMAIN session : session[s] \in Sessions /\ s \in Nat
  BY <1>1, TableRows
<1> QED BY <1>2 DEF Sessions

(* Acknowledgments, links and sessions only accumulate.                     *)
LEMMA PlayableStays ==
    ASSUME Tables,
           \A s \in DOMAIN session : s \in DOMAIN session' /\ session'[s].user = session[s].user,
           \A u \in Username : playerAck[u] => playerAck'[u],
           \A e \in Identity : identityAck[e] = "linked" => identityAck'[e] = "linked",
           \A e \in Identity : identity[e].player \in Username =>
             identity'[e].player = identity[e].player
    PROVE  \A s : Playable(s) => Playable(s)'
<1>1. SUFFICES ASSUME NEW s, Playable(s) PROVE Playable(s)'
  OBVIOUS
<1>2. s \in DOMAIN session' /\ session'[s].user = session[s].user
  BY <1>1 DEF Playable
<1>3. PICK u : u = session[s].user
  OBVIOUS
<1>4. u \in Username
  BY <1>1, <1>3, SessionRows DEF Playable
<1>5. Acknowledged(u)
  BY <1>1, <1>3 DEF Playable
<1>6. Acknowledged(u)'
  BY <1>4, <1>5 DEF Acknowledged
<1> QED BY <1>2, <1>3, <1>6 DEF Playable

(* The ground stays if none of its tables changes.                          *)
LEMMA GroundsKept ==
    ASSUME Tables,
           UNCHANGED <<now, account, player, identity, session, identityAck, playerAck,
                       assertion, forks>>
    PROVE  Grounds
<1>1. \A s : Playable(s) => Playable(s)'
  BY PlayableStays
<1> QED BY <1>1 DEF Grounds

(* Assertions stay backed by a playable session.                            *)
LEMMA AssertionsStayPlayable ==
    ASSUME AssertionsArePlayable, Grounds, UNCHANGED assertion
    PROVE  AssertionsArePlayable'
<1>1. SUFFICES ASSUME NEW n \in DOMAIN assertion PROVE Playable(assertion[n].session)'
  BY DEF AssertionsArePlayable
<1>2. PICK x : x = assertion[n].session
  OBVIOUS
<1>3. Playable(x)'
  BY <1>2 DEF AssertionsArePlayable, Grounds
<1> QED BY <1>2, <1>3

-----------------------------------------------------------------------------
(* Parts of the invariant a step does not touch.                           *)

(* Sessions that stay keep their order and their one open credential.       *)
LEMMA SessionsKept ==
    ASSUME OneOpenSession, NewestIsKept, UNCHANGED session
    PROVE  OneOpenSession' /\ NewestIsKept'
  BY DEF OneOpenSession, NewestIsKept, IsOpen

(* Acceptance of assertions stays as it is.                                 *)
LEMMA BridgeKept ==
    ASSUME AcceptedOnce, UNCHANGED <<limit, now, assertion, replay, accepted>>
    PROVE  AcceptedOnce'
  BY DEF AcceptedOnce

(* Sessions keep their players.                                             *)
LEMMA PlayersKept ==
    ASSUME PlayersExist, UNCHANGED <<session, player, identity, playerAck, account, forks>>
    PROVE  PlayersExist'
  BY DEF PlayersExist, CustodyIsLinked

(* Links and reservations stay as they are.                                 *)
LEMMA LinksKept ==
    ASSUME LinksAreEarned, NamesAreReserved,
           UNCHANGED <<account, player, identity, final, rc, projected, job>>
    PROVE  LinksAreEarned' /\ NamesAreReserved'
  BY DEF LinksAreEarned, LinkIsEarned, JobIsReserved, NamesAreReserved, Verified

(* Runs of process that stay fit what stays.                                *)
LEMMA RunsKept ==
    ASSUME RunsFit, UNCHANGED <<account, final, rc, projected, job, run>>
    PROVE  RunsFit'
  BY DEF RunsFit, RunFits, Verified

(* The challenges of logins when sessions stay and one request moves on.    *)
LEMMA ChallengesStep ==
    ASSUME Tables, ChallengesServeOnce, UNCHANGED session,
           \A c : Spent(c) => Spent(c)',
           NEW r \in Request, NEW q, request' = [request EXCEPT ![r] = q],
           q.pc \in LoginSteps =>
             \/ q.via \in Identity
             \/ request[r].pc \in LoginSteps /\ request[r].via = q.via
             \/ /\ Spent(q.via)' /\ ~Spent(q.via)
    PROVE  ChallengesServeOnce'
<1>1. \A t \in Request : request'[t] = IF t = r THEN q ELSE request[t]
  BY DEF Tables
<1>2. ASSUME NEW s \in DOMAIN session', session'[s].via \notin Identity
      PROVE  Spent(session[s].via)'
  <2>1. PICK c : c = session[s].via
    OBVIOUS
  <2>2. Spent(c)
    BY <1>2, <2>1 DEF ChallengesServeOnce
  <2> QED BY <2>1, <2>2
<1>3. ASSUME NEW t \in Request, request'[t].pc \in LoginSteps, request'[t].via \notin Identity
      PROVE  /\ Spent(request[t].via)'
             /\ \A s \in DOMAIN session' : session'[s].via # request'[t].via
             /\ \A p \in Request \ {t} : request'[p].pc \in LoginSteps =>
                  request'[p].via # request'[t].via
  <2>1. Spent(request[t].via)'
    <3>1. PICK c : c = request'[t].via
      OBVIOUS
    <3>2. Spent(c) \/ Spent(c)'
      BY <1>1, <1>3, <3>1 DEF ChallengesServeOnce
    <3> QED BY <3>1, <3>2
  <2>2. \A s \in DOMAIN session' : session'[s].via # request'[t].via
    BY <1>1, <1>3 DEF ChallengesServeOnce
  <2>3. ASSUME NEW p \in Request \ {t}, request'[p].pc \in LoginSteps
        PROVE  request'[p].via # request'[t].via
    <3>1. CASE t # r /\ p # r
      BY <1>1, <1>3, <2>3, <3>1 DEF ChallengesServeOnce
    <3>2. CASE t = r
      BY <1>1, <1>3, <2>3, <3>2 DEF ChallengesServeOnce
    <3>3. CASE p = r
      BY <1>1, <1>3, <2>3, <3>3 DEF ChallengesServeOnce
    <3> QED BY <3>1, <3>2, <3>3
  <2> QED BY <2>1, <2>2, <2>3
<1>4. \A s, t \in DOMAIN session' :
        s # t /\ session'[s].via \notin Identity => session'[s].via # session'[t].via
  BY DEF ChallengesServeOnce
<1> QED BY <1>2, <1>3, <1>4 DEF ChallengesServeOnce

(* Challenges stay as they are.                                             *)
LEMMA ChallengesKept ==
    ASSUME ChallengesServeOnce, UNCHANGED <<session, request, challenge>>
    PROVE  ChallengesServeOnce'
  BY DEF ChallengesServeOnce, Spent

(* A request moves on and nothing else changes.                             *)
LEMMA RequestStep ==
    ASSUME ProvisioningInv, NEW r \in Request, NEW q \in Requests, Fits(q),
           q.pc \in LoginSteps =>
             q.via \in Identity \/ (request[r].pc \in LoginSteps /\ request[r].via = q.via),
           request' = [request EXCEPT ![r] = q],
           UNCHANGED <<limit, now, account, player, identity, challenge, session, identityAck,
                       playerAck, assertion, replay, accepted, final, rc, projected, job, run,
                       faults, forks>>
    PROVE  ProvisioningInv'
<1> USE DEF ProvisioningInv
<1>1. Tables'
  BY DEF Tables
<1>2. Grounds
  BY GroundsKept
<1>3. RequestsFit'
  BY <1>2, FitsStays, RequestsFitStep
<1>4. ChallengesServeOnce'
  <2>1. \A c : Spent(c) => Spent(c)'
    BY DEF Spent
  <2> QED BY <2>1, ChallengesStep
<1>5. AssertionsArePlayable'
  BY <1>2, AssertionsStayPlayable
<1>6. OneOpenSession' /\ NewestIsKept' /\ AcceptedOnce' /\ PlayersExist'
  BY SessionsKept, BridgeKept, PlayersKept
<1>7. LinksAreEarned' /\ NamesAreReserved' /\ RunsFit'
  BY LinksKept, RunsKept
<1> QED BY <1>1, <1>3, <1>4, <1>5, <1>6, <1>7

(* A request ends.                                                          *)
LEMMA IdleFits == Idle \in Requests /\ Fits(Idle) /\ Idle.pc \notin LoginSteps
  BY DEF Idle, Requests, Fits, LoginSteps, Control

(* An idle request fits any database.                                       *)
LEMMA IdleFitsNext == Fits(Idle)'
  BY DEF Idle, Fits, LoginSteps

(* The posting authority is verified on the chain.                          *)
LEMMA VerifyPostingAuthorityStep ==
    ASSUME ProvisioningInv, NEW r \in Request, VerifyPostingAuthority(r),
           UNCHANGED provisioningVars
    PROVE  ProvisioningInv'
<1>1. request[r] \in Requests /\ Fits(request[r])
  BY DEF ProvisioningInv, Tables, RequestsFit
<1>2. PICK q : q = [request[r] EXCEPT !.pc = "player"]
  OBVIOUS
<1>3. q \in Requests
  BY <1>1, <1>2 DEF Requests, LoginSteps
<1>4. q.pc = "player" /\ q.user = request[r].user /\ q.via = request[r].via
  BY <1>1, <1>2 DEF Requests
<1>5. Fits(q)
  BY <1>1, <1>4 DEF VerifyPostingAuthority, Fits, LoginSteps
<1>6. request' = [request EXCEPT ![r] = q]
  BY <1>2 DEF VerifyPostingAuthority, Goes
<1>7. request[r].pc \in LoginSteps
  BY DEF VerifyPostingAuthority, LoginSteps
<1> QED BY <1>3, <1>4, <1>5, <1>6, <1>7, RequestStep
        DEF VerifyPostingAuthority, provisioningVars, ackVars, bridgeVars

(* A Google code is exchanged.                                              *)
LEMMA ExchangeGoogleStep ==
    ASSUME ProvisioningInv, NEW r \in Request, NEW e \in limit.identities,
           ExchangeGoogle(r, e), UNCHANGED provisioningVars
    PROVE  ProvisioningInv'
<1>1. e \in Identity /\ now \in Nat
  BY ScenariosAssumption DEF ProvisioningInv, Tables
<1>2. PICK q : q = [Idle EXCEPT !.pc = "identity", !.stamp = now, !.via = e]
  OBVIOUS
<1>3. q \in Requests /\ q.pc = "identity" /\ q.via = e
  BY <1>1, <1>2 DEF Requests, Idle, Control
<1>4. Fits(q) /\ q.pc \notin LoginSteps
  BY <1>1, <1>3 DEF Fits, LoginSteps
<1> QED BY <1>2, <1>3, <1>4, RequestStep
        DEF ExchangeGoogle, provisioningVars, ackVars, bridgeVars

(* The first statement of a login: older sessions are superseded.           *)
LEMMA SupersedeSessionsStep ==
    ASSUME ProvisioningInv, NEW r \in Request, SupersedeSessions(r),
           UNCHANGED provisioningVars
    PROVE  ProvisioningInv'
<1>1. request[r] \in Requests /\ Fits(request[r]) /\ session \in Seq(Sessions)
  BY DEF ProvisioningInv, Tables, RequestsFit
<1>2. OpenSessions(request[r].user) \in SUBSET Nat
  BY <1>1, TableRows DEF OpenSessions
<1>3. PICK q : q = [request[r] EXCEPT !.pc = "insert", !.saw = OpenSessions(request[r].user)]
  OBVIOUS
<1>4. q \in Requests
  BY <1>1, <1>2, <1>3 DEF Requests, LoginSteps
<1>5. q.pc = "insert" /\ q.user = request[r].user /\ q.via = request[r].via
  BY <1>1, <1>3 DEF Requests
<1>6. request[r].pc = "supersede"
  BY DEF SupersedeSessions
<1>7. Fits(q)
  BY <1>1, <1>5, <1>6 DEF Fits, LoginSteps
<1>8. request' = [request EXCEPT ![r] = q]
  BY <1>3 DEF SupersedeSessions
<1>9. request[r].pc \in LoginSteps
  BY <1>6 DEF LoginSteps
<1> QED BY <1>4, <1>5, <1>7, <1>8, <1>9, RequestStep
        DEF SupersedeSessions, provisioningVars, ackVars, bridgeVars

(* A request is abandoned.                                                  *)
LEMMA AbandonStep ==
    ASSUME ProvisioningInv, NEW r \in Request, Abandon(r), UNCHANGED provisioningVars
    PROVE  ProvisioningInv'
  BY IdleFits, RequestStep DEF Abandon, Ends, provisioningVars, ackVars, bridgeVars

(* A session passes the guard of the realtime endpoint.                     *)
LEMMA RequestRealtimeStep ==
    ASSUME ProvisioningInv, NEW r \in Request, NEW s \in DOMAIN session,
           RequestRealtime(r, s), UNCHANGED provisioningVars
    PROVE  ProvisioningInv'
<1>1. s \in Nat
  BY TableRows DEF ProvisioningInv, Tables
<1>2. PICK q : q = [Idle EXCEPT !.pc = "mint", !.session = s]
  OBVIOUS
<1>3. q \in Requests /\ q.pc = "mint" /\ q.session = s
  BY <1>1, <1>2 DEF Requests, Idle, Control
<1>4. Fits(q) /\ q.pc \notin LoginSteps
  BY <1>3 DEF Fits, LoginSteps, RequestRealtime, MayPlay, Playable
<1> QED BY <1>2, <1>3, <1>4, RequestStep
        DEF RequestRealtime, provisioningVars, ackVars, bridgeVars

(* A wished username is looked up.                                          *)
LEMMA CheckUsernameStep ==
    ASSUME ProvisioningInv, NEW r \in Request, NEW e \in Identity, NEW u \in Username,
           CheckUsername(r, e, u)
    PROVE  ProvisioningInv'
<1>1. PICK q : q = [Idle EXCEPT !.pc = "confirm", !.via = e, !.user = u]
  OBVIOUS
<1>2. q \in Requests /\ q.pc = "confirm" /\ q.via = e /\ q.user = u
  BY <1>1 DEF Requests, Idle, Control
<1>3. Fits(q) /\ q.pc \notin LoginSteps
  BY <1>2 DEF Fits, LoginSteps
<1> QED BY <1>1, <1>2, <1>3, RequestStep
        DEF CheckUsername, provisioningVars, ackVars, bridgeVars

-----------------------------------------------------------------------------
(* Logins.                                                                 *)

(* Challenges serve once as long as a spent one stays spent.                *)
LEMMA ChallengesGrow ==
    ASSUME ChallengesServeOnce, UNCHANGED <<session, request>>, \A c : Spent(c) => Spent(c)'
    PROVE  ChallengesServeOnce'
<1>1. ASSUME NEW s \in DOMAIN session', session'[s].via \notin Identity
      PROVE  Spent(session[s].via)'
  <2>1. PICK c : c = session[s].via
    OBVIOUS
  <2>2. Spent(c)
    BY <1>1, <2>1 DEF ChallengesServeOnce
  <2> QED BY <2>1, <2>2
<1>2. ASSUME NEW r \in Request, request'[r].pc \in LoginSteps, request'[r].via \notin Identity
      PROVE  Spent(request[r].via)'
  <2>1. PICK c : c = request[r].via
    OBVIOUS
  <2>2. Spent(c)
    BY <1>2, <2>1 DEF ChallengesServeOnce
  <2> QED BY <2>1, <2>2
<1> QED BY <1>1, <1>2 DEF ChallengesServeOnce

(* A challenge is issued.                                                   *)
LEMMA CreateHiveChallengeStep ==
    ASSUME ProvisioningInv, NEW u \in Username, CreateHiveChallenge(u),
           UNCHANGED provisioningVars
    PROVE  ProvisioningInv'
<1> USE DEF ProvisioningInv
<1>1. /\ challenge' = Append(challenge, ChallengeRow(u))
      /\ UNCHANGED <<limit, now, account, player, identity, session, identityAck, playerAck,
                     request, assertion, replay, accepted, final, rc, projected, job, run,
                     faults, forks>>
  BY DEF CreateHiveChallenge, provisioningVars, ackVars, bridgeVars
<1>2. challenge \in Seq(Challenges) /\ now \in Nat
  BY DEF Tables
<1>3. ChallengeRow(u) \in Challenges
  BY <1>2, TTLAssumption DEF ChallengeRow, Challenges
<1>4. /\ challenge' \in Seq(Challenges)
      /\ DOMAIN challenge \subseteq DOMAIN challenge'
      /\ \A i \in DOMAIN challenge : challenge'[i] = challenge[i]
  BY <1>1, <1>2, <1>3, TableAppended
<1>5. Tables'
  BY <1>1, <1>4 DEF Tables
<1>6. ChallengesServeOnce'
  <2>1. \A c : Spent(c) => Spent(c)'
    BY <1>4 DEF Spent
  <2> QED BY <1>1, <2>1, ChallengesGrow
<1>7. Grounds
  BY <1>1, GroundsKept
<1>8. RequestsFit' /\ AssertionsArePlayable'
  BY <1>1, <1>7, RequestsFitStay, AssertionsStayPlayable
<1>9. OneOpenSession' /\ NewestIsKept' /\ AcceptedOnce' /\ PlayersExist'
  BY <1>1, SessionsKept, BridgeKept, PlayersKept
<1>10. LinksAreEarned' /\ NamesAreReserved' /\ RunsFit'
  BY <1>1, LinksKept, RunsKept
<1> QED BY <1>5, <1>6, <1>8, <1>9, <1>10

(* A challenge is consumed by one request.                                  *)
LEMMA ConsumeHiveChallengeStep ==
    ASSUME ProvisioningInv, NEW r \in Request, NEW c \in DOMAIN challenge,
           ConsumeHiveChallenge(r, c), UNCHANGED provisioningVars
    PROVE  ProvisioningInv'
<1> USE DEF ProvisioningInv
<1>1. PICK q : q = [Idle EXCEPT !.pc = "verify", !.stamp = now, !.via = c,
                                !.user = challenge[c].user]
  OBVIOUS
<1>2. /\ challenge' = [challenge EXCEPT ![c].consumed = TRUE]
      /\ request' = [request EXCEPT ![r] = q]
      /\ UNCHANGED <<limit, now, account, player, identity, session, identityAck, playerAck,
                     assertion, replay, accepted, final, rc, projected, job, run, faults,
                     forks>>
  BY <1>1 DEF ConsumeHiveChallenge, provisioningVars, ackVars, bridgeVars
<1>3. challenge \in Seq(Challenges) /\ now \in Nat
  BY DEF Tables
<1>4. /\ challenge \in [DOMAIN challenge -> Challenges]
      /\ challenge[c] \in Challenges /\ c \in Nat
  BY <1>3, TableRows
<1>5. PICK row : row = [challenge[c] EXCEPT !.consumed = TRUE]
  OBVIOUS
<1>6. row \in Challenges /\ row.consumed
  BY <1>4, <1>5 DEF Challenges
<1>7. challenge' = [challenge EXCEPT ![c] = row]
  BY <1>2, <1>5
<1>8. challenge' \in [DOMAIN challenge -> Challenges]
  BY <1>4, <1>6, <1>7
<1>9. challenge' \in Seq(Challenges) /\ DOMAIN challenge' = DOMAIN challenge
  BY <1>3, <1>8, TableMapped
<1>10. q \in Requests /\ q.pc = "verify" /\ q.via = c /\ q.user \in Username
  BY <1>1, <1>3, <1>4 DEF Requests, Idle, Control, LoginSteps, Challenges
<1>11. Tables'
  BY <1>2, <1>9, <1>10 DEF Tables
<1>12. Grounds
  BY <1>2, GroundsKept
<1>13. RequestsFit'
  <2>1. q.via # Nobody
    BY <1>4, <1>10, NamesAssumption
  <2>2. Fits(q)'
    BY <1>10, <2>1 DEF Fits, LoginSteps
  <2> QED BY <1>2, <1>12, <2>2, RequestsFitStep
<1>14. ChallengesServeOnce'
  <2>1. \A d : Spent(d) => Spent(d)'
    BY <1>4, <1>6, <1>7, <1>9 DEF Spent
  <2>2. ~Spent(c)
    BY DEF ConsumeHiveChallenge, Consumable, Spent
  <2>3. Spent(c)'
    BY <1>4, <1>6, <1>7, <1>9 DEF Spent
  <2> QED BY <1>2, <1>10, <2>1, <2>2, <2>3, ChallengesStep
<1>15. AssertionsArePlayable'
  BY <1>2, <1>12, AssertionsStayPlayable
<1>16. OneOpenSession' /\ NewestIsKept' /\ AcceptedOnce' /\ PlayersExist'
  BY <1>2, SessionsKept, BridgeKept, PlayersKept
<1>17. LinksAreEarned' /\ NamesAreReserved' /\ RunsFit'
  BY <1>2, LinksKept, RunsKept
<1> QED BY <1>11, <1>13, <1>14, <1>15, <1>16, <1>17

(* A direct login finds or makes its player.                                *)
LEMMA FindOrCreateDirectHivePlayerStep ==
    ASSUME ProvisioningInv, NEW r \in Request, FindOrCreateDirectHivePlayer(r),
           UNCHANGED provisioningVars
    PROVE  ProvisioningInv'
<1> USE DEF ProvisioningInv
<1>1. PICK u : u = request[r].user
  OBVIOUS
<1>2. PICK control : control = Upserted(u, "external_self_custodial")
  OBVIOUS
<1>3. PICK q : q = [request[r] EXCEPT !.pc = "supersede", !.control = control]
  OBVIOUS
<1>4. /\ request[r].pc = "player"
      /\ player' = [player EXCEPT ![u] = control]
      /\ request' = [request EXCEPT ![r] = q]
      /\ UNCHANGED <<limit, now, account, identity, challenge, session, identityAck, playerAck,
                     assertion, replay, accepted, final, rc, projected, job, run, faults,
                     forks>>
  BY <1>1, <1>2, <1>3
     DEF FindOrCreateDirectHivePlayer, provisioningVars, ackVars, bridgeVars
<1>5. request[r] \in Requests /\ Fits(request[r]) /\ player \in [Username -> Control]
  BY DEF Tables, RequestsFit
<1>6. u \in Username
  BY <1>1, <1>4, <1>5 DEF Fits, LoginSteps
<1>7. /\ control \in Control /\ control # "none"
      /\ player[u] # "none" => control = player[u]
      /\ player[u] = "none" => control = "external_self_custodial"
  BY <1>2, <1>5, <1>6 DEF Upserted, Control
<1>8. /\ q \in Requests /\ q.pc = "supersede" /\ q.user = u /\ q.via = request[r].via
  BY <1>1, <1>3, <1>5, <1>7 DEF Requests, LoginSteps
<1>9. /\ player' \in [Username -> Control] /\ player'[u] = control
      /\ \A v \in Username : v # u => player'[v] = player[v]
  BY <1>4, <1>5, <1>6, <1>7
<1>10. Tables'
  BY <1>4, <1>8, <1>9 DEF Tables
<1>11. \A v \in Username : player[v] # "none" => player'[v] = player[v]
  BY <1>7, <1>9
<1>12. Grounds
  <2>1. \A s : Playable(s) => Playable(s)'
    BY <1>4, PlayableStays
  <2> QED BY <1>4, <1>11, <2>1 DEF Grounds
<1>13. RequestsFit'
  <2>1. q.via # Nobody
    BY <1>4, <1>5, <1>8 DEF Fits, LoginSteps
  <2>2. Fits(q)'
    BY <1>6, <1>7, <1>8, <1>9, <2>1 DEF Fits, LoginSteps
  <2> QED BY <1>4, <1>12, <2>2, RequestsFitStep
<1>14. ChallengesServeOnce'
  <2>1. \A c : Spent(c) => Spent(c)'
    BY <1>4 DEF Spent
  <2>2. request[r].pc \in LoginSteps
    BY <1>4 DEF LoginSteps
  <2> QED BY <1>4, <1>8, <2>1, <2>2, ChallengesStep
<1>15. AssertionsArePlayable'
  BY <1>4, <1>12, AssertionsStayPlayable
<1>16. OneOpenSession' /\ NewestIsKept' /\ AcceptedOnce'
  BY <1>4, SessionsKept, BridgeKept
<1>17. PlayersExist'
  <2>1. \A s \in DOMAIN session : session[s].user \in Username
    BY SessionRows
  <2>2. \A s \in DOMAIN session' : player'[session'[s].user] # "none"
    BY <1>4, <1>11, <2>1 DEF PlayersExist
  <2>3. forks = 0 => account[u] = "external"
    BY <1>1, <1>4, <1>5 DEF Fits
  <2>4. \A v \in Username :
          forks' = 0 /\ player'[v] = "external_self_custodial" => account'[v] = "external"
    BY <1>4, <1>9, <2>3 DEF PlayersExist
  <2>5. CustodyIsLinked'
    BY <1>4, <1>5, <1>6, <1>7, <1>9 DEF PlayersExist, CustodyIsLinked
  <2> QED BY <2>2, <2>4, <2>5 DEF PlayersExist
<1>18. LinksAreEarned' /\ NamesAreReserved'
  <2>1. ASSUME NEW e \in Identity PROVE LinkIsEarned(e)' /\ JobIsReserved(e)'
    <3>1. LinkIsEarned(e) /\ JobIsReserved(e)
      BY DEF LinksAreEarned
    <3>2. LinkIsEarned(e)'
      BY <1>4, <1>11, <3>1 DEF LinkIsEarned, Verified
    <3>3. JobIsReserved(e)'
      BY <1>4, <3>1 DEF JobIsReserved
    <3> QED BY <3>2, <3>3
  <2>2. NamesAreReserved'
    BY <1>4 DEF NamesAreReserved
  <2> QED BY <2>1, <2>2 DEF LinksAreEarned
<1>19. RunsFit'
  BY <1>4, RunsKept
<1> QED BY <1>10, <1>13, <1>14, <1>15, <1>16, <1>17, <1>18, <1>19

(* A Google login finds or makes its identity.                              *)
LEMMA UpsertGoogleIdentityStep ==
    ASSUME ProvisioningInv, NEW r \in Request, UpsertGoogleIdentity(r),
           UNCHANGED provisioningVars
    PROVE  ProvisioningInv'
<1> USE DEF ProvisioningInv
<1>1. PICK e : e = request[r].via
  OBVIOUS
<1>2. PICK row : row = UpsertedIdentity(e, request[r].stamp)
  OBVIOUS
<1>3. PICK q : q = IF identity[e].status = "linked"
                   THEN [request[r] EXCEPT !.pc = "supersede", !.user = identity[e].player,
                                           !.control = player[identity[e].player]]
                   ELSE Idle
  OBVIOUS
<1>4. /\ request[r].pc = "identity"
      /\ identity' = [identity EXCEPT ![e] = row]
      /\ UNCHANGED <<limit, now, account, player, challenge, session, identityAck, playerAck,
                     assertion, replay, accepted, final, rc, projected, job, run, faults,
                     forks>>
  BY <1>1, <1>2 DEF UpsertGoogleIdentity, provisioningVars, ackVars, bridgeVars
<1>5. request' = [request EXCEPT ![r] = q]
  <2>1. CASE identity[e].status = "linked"
    BY <1>1, <1>3, <2>1 DEF UpsertGoogleIdentity
  <2>2. CASE identity[e].status # "linked"
    BY <1>1, <1>3, <2>2 DEF UpsertGoogleIdentity, Ends
  <2> QED BY <2>1, <2>2
<1>6. request[r] \in Requests /\ Fits(request[r]) /\ player \in [Username -> Control]
  BY DEF Tables, RequestsFit
<1>7. e \in Identity /\ request[r].stamp \in Nat
  BY <1>1, <1>4, <1>6 DEF Fits, Requests
<1>8. identity[e] \in Identities /\ LinkIsEarned(e)
  BY <1>7 DEF Tables, LinksAreEarned
<1>9. /\ row \in Identities
      /\ identity[e].status # "absent" => row = identity[e]
      /\ identity[e].status = "absent" => row.status = "provisioning" /\ row.player = Nobody
  <2>1. CASE identity[e].status = "absent"
    <3>1. identity[e] = NoIdentity
      BY <1>8, <2>1 DEF LinkIsEarned
    <3>2. row = [NoIdentity EXCEPT !.status = "provisioning", !.verifiedAt = request[r].stamp]
      BY <1>2, <3>1 DEF UpsertedIdentity
    <3> QED BY <1>7, <2>1, <3>2 DEF NoIdentity, Identities
  <2>2. CASE identity[e].status # "absent"
    <3>1. identity[e] # NoIdentity
      BY <2>2 DEF NoIdentity
    <3>2. row = identity[e]
      BY <1>2, <3>1 DEF UpsertedIdentity
    <3> QED BY <1>8, <2>2, <3>2
  <2> QED BY <2>1, <2>2
<1>10. q \in Requests
  <2>1. CASE identity[e].status = "linked"
    <3>1. identity[e].player \in Username
      BY <1>8, <2>1 DEF LinkIsEarned
    <3> QED BY <1>3, <1>6, <2>1, <3>1 DEF Requests, LoginSteps
  <2>2. CASE identity[e].status # "linked"
    BY <1>3, <2>2, IdleFits
  <2> QED BY <2>1, <2>2
<1>11. Fits(q)'
  <2>1. CASE identity[e].status = "linked"
    <3>1. identity[e].player \in Username /\ player[identity[e].player] # "none"
      BY <1>8, <2>1 DEF LinkIsEarned
    <3>2. q.pc = "supersede" /\ q.user = identity[e].player /\ q.via = e
      BY <1>1, <1>3, <1>6, <2>1 DEF Requests
    <3>3. e # Nobody
      BY <1>7, NamesAssumption
    <3> QED BY <1>4, <3>1, <3>2, <3>3 DEF Fits, LoginSteps
  <2>2. CASE identity[e].status # "linked"
    BY <1>3, <2>2, IdleFitsNext
  <2> QED BY <2>1, <2>2
<1>12. q.pc \in LoginSteps => q.via \in Identity
  <2>1. CASE identity[e].status = "linked"
    BY <1>1, <1>3, <1>6, <1>7, <2>1 DEF Requests
  <2>2. CASE identity[e].status # "linked"
    BY <1>3, <2>2, IdleFits
  <2> QED BY <2>1, <2>2
<1>13. /\ identity' \in [Identity -> Identities] /\ identity'[e] = row
       /\ \A f \in Identity : f # e => identity'[f] = identity[f]
  BY <1>4, <1>7, <1>9 DEF Tables
<1>14. Tables'
  BY <1>4, <1>5, <1>10, <1>13 DEF Tables
<1>15. \A f \in Identity : identity[f].player \in Username => identity'[f] = identity[f]
  BY <1>8, <1>9, <1>13, NamesAssumption DEF LinkIsEarned, NoIdentity
<1>16. Grounds
  <2>1. \A s : Playable(s) => Playable(s)'
    BY <1>4, <1>15, PlayableStays
  <2> QED BY <1>4, <2>1 DEF Grounds
<1>17. RequestsFit' /\ AssertionsArePlayable'
  BY <1>4, <1>5, <1>11, <1>16, RequestsFitStep, AssertionsStayPlayable
<1>18. ChallengesServeOnce'
  <2>1. \A c : Spent(c) => Spent(c)'
    BY <1>4 DEF Spent
  <2> QED BY <1>4, <1>5, <1>12, <2>1, ChallengesStep
<1>19. OneOpenSession' /\ NewestIsKept' /\ AcceptedOnce' /\ PlayersExist'
  <2>1. CustodyIsLinked'
    BY <1>4, <1>15 DEF PlayersExist, CustodyIsLinked
  <2>2. PlayersExist'
    BY <1>4, <2>1 DEF PlayersExist
  <2> QED BY <1>4, <2>2, SessionsKept, BridgeKept
<1>20. LinksAreEarned'
  <2>1. SUFFICES ASSUME NEW f \in Identity PROVE LinkIsEarned(f)' /\ JobIsReserved(f)'
    BY DEF LinksAreEarned
  <2>2. LinkIsEarned(f) /\ JobIsReserved(f)
    BY DEF LinksAreEarned
  <2>3. CASE identity'[f] = identity[f]
    BY <1>4, <2>2, <2>3 DEF LinkIsEarned, JobIsReserved, Verified
  <2>4. CASE identity'[f] # identity[f]
    <3>1. f = e /\ identity[f].status = "absent"
      BY <1>9, <1>13, <2>4
    <3>2. identity'[f].status = "provisioning" /\ identity'[f].player = Nobody
      BY <1>9, <1>13, <3>1
    <3> QED BY <1>4, <2>2, <3>1, <3>2 DEF LinkIsEarned, JobIsReserved
  <2> QED BY <2>3, <2>4
<1>21. NamesAreReserved' /\ RunsFit'
  BY <1>4, RunsKept DEF NamesAreReserved
<1> QED BY <1>14, <1>17, <1>18, <1>19, <1>20, <1>21

(* The session a login opens: every session of the player that was open is  *)
(* superseded, and none of them is newer than the login.                    *)
Inserted(r, u, n) ==
    /\ session' \in Seq(Sessions)
    /\ DOMAIN session' = DOMAIN session \cup {n} /\ n \notin DOMAIN session
    /\ \A s \in DOMAIN session :
         /\ session'[s].user = session[s].user
         /\ session'[s].via = session[s].via
         /\ session'[s].issuedAt = session[s].issuedAt
         /\ session[s].user = u /\ IsOpen(s) =>
              session[s].issuedAt <= request[r].stamp
              /\ session'[s].revoked = "superseded_login"
         /\ ~(session[s].user = u /\ IsOpen(s)) =>
              session'[s].revoked = session[s].revoked
    /\ session'[n].user = u /\ session'[n].via = request[r].via
    /\ session'[n].issuedAt = request[r].stamp /\ session'[n].revoked = "no"

(* What an accepted insert leaves in the session table.                     *)
LEMMA SessionInserted ==
    ASSUME ProvisioningInv, NEW r \in Request, InsertSession(r),
           IndexAdmits(r), RevocationInOrder(r), SignerAdmitted(r),
           NEW u, u = request[r].user, NEW n, n = Len(session) + 1
    PROVE  Inserted(r, u, n)
<1> USE DEF ProvisioningInv
<1>1. PICK row : row = [user |-> u, via |-> request[r].via, issuedAt |-> request[r].stamp,
                        revoked |-> "no", token |-> 1,
                        accessUntil |-> TokenUntil(request[r].stamp)]
  OBVIOUS
<1>2. session' = Append(Replaced(r), row)
  BY <1>1 DEF InsertSession
<1>3. session \in Seq(Sessions) /\ request[r] \in Requests /\ Fits(request[r])
  BY DEF Tables, RequestsFit
<1>4. request[r].pc = "insert"
  BY DEF InsertSession
<1>5. /\ u \in Username /\ request[r].via \in Identity \cup Nat
      /\ request[r].stamp \in Nat
  BY <1>3, <1>4 DEF Fits, Requests, LoginSteps
<1>6. TokenUntil(request[r].stamp) \in Nat
  BY <1>5, TTLAssumption DEF TokenUntil
<1>7. row \in Sessions
  BY <1>1, <1>5, <1>6 DEF Sessions
<1>8. \A s \in DOMAIN session : session[s] \in Sessions
  BY SessionRows
<1>9. OpenSessions(u) \cap request[r].saw = OpenSessions(u)
  BY DEF IndexAdmits
<1>10. \A s \in DOMAIN session :
         /\ session[s].user = u /\ IsOpen(s) =>
              Replaced(r)[s] = [session[s] EXCEPT !.revoked = "superseded_login"]
         /\ ~(session[s].user = u /\ IsOpen(s)) => Replaced(r)[s] = session[s]
  BY <1>9 DEF Replaced, OpenSessions
<1>11. Replaced(r) \in [DOMAIN session -> Sessions]
  <2>1. ASSUME NEW s \in DOMAIN session PROVE Replaced(r)[s] \in Sessions
    <3>1. session[s] \in Sessions
      BY <1>8
    <3>2. [session[s] EXCEPT !.revoked = "superseded_login"] \in Sessions
      BY <3>1 DEF Sessions
    <3> QED BY <1>10, <3>1, <3>2
  <2>2. Replaced(r) = [s \in DOMAIN session |-> Replaced(r)[s]]
    BY DEF Replaced
  <2> QED BY <2>1, <2>2
<1>12. /\ Replaced(r) \in Seq(Sessions) /\ Len(Replaced(r)) = Len(session)
       /\ DOMAIN Replaced(r) = DOMAIN session
  BY <1>3, <1>11, TableMapped
<1>13. /\ session' \in Seq(Sessions)
       /\ DOMAIN session' = DOMAIN session \cup {n} /\ n \notin DOMAIN session
       /\ \A s \in DOMAIN session : session'[s] = Replaced(r)[s]
       /\ session'[n] = row
  BY <1>2, <1>7, <1>12, TableAppended
<1>14. ASSUME NEW s \in DOMAIN session
       PROVE  /\ session'[s].user = session[s].user
              /\ session'[s].via = session[s].via
              /\ session'[s].issuedAt = session[s].issuedAt
              /\ session[s].user = u /\ IsOpen(s) =>
                   session[s].issuedAt <= request[r].stamp
                   /\ session'[s].revoked = "superseded_login"
              /\ ~(session[s].user = u /\ IsOpen(s)) =>
                   session'[s].revoked = session[s].revoked
  <2>1. session[s] \in Sessions /\ session'[s] = Replaced(r)[s]
    BY <1>8, <1>13
  <2>2. CASE session[s].user = u /\ IsOpen(s)
    <3>1. session'[s] = [session[s] EXCEPT !.revoked = "superseded_login"]
      BY <1>10, <2>1, <2>2
    <3>2. s \in OpenSessions(u) \cap request[r].saw
      BY <1>9, <2>2 DEF OpenSessions
    <3>3. session[s].issuedAt <= request[r].stamp
      BY <3>2 DEF RevocationInOrder
    <3> QED BY <2>1, <2>2, <3>1, <3>3 DEF Sessions
  <2>3. CASE ~(session[s].user = u /\ IsOpen(s))
    BY <1>10, <2>1, <2>3
  <2> QED BY <2>2, <2>3
<1> QED BY <1>1, <1>13, <1>14 DEF Inserted

(* The second statement of a login: the new session, or a conflict.         *)
LEMMA InsertSessionStep ==
    ASSUME ProvisioningInv, NEW r \in Request, InsertSession(r), UNCHANGED provisioningVars
    PROVE  ProvisioningInv'
<1> USE DEF ProvisioningInv
<1>1. /\ request' = [request EXCEPT ![r] = Idle]
      /\ UNCHANGED <<limit, now, account, player, identity, challenge, identityAck, playerAck,
                     assertion, replay, accepted, final, rc, projected, job, run, faults,
                     forks>>
  BY DEF InsertSession, Ends, provisioningVars, ackVars, bridgeVars
<1>2. CASE ~(IndexAdmits(r) /\ RevocationInOrder(r) /\ SignerAdmitted(r))
  <2>1. UNCHANGED session
    BY <1>2 DEF InsertSession
  <2> QED BY <1>1, <2>1, IdleFits, RequestStep
<1>3. CASE IndexAdmits(r) /\ RevocationInOrder(r) /\ SignerAdmitted(r)
  <2>1. PICK u : u = request[r].user
    OBVIOUS
  <2>2. PICK n : n = Len(session) + 1
    OBVIOUS
  <2>3. /\ session' \in Seq(Sessions)
        /\ DOMAIN session' = DOMAIN session \cup {n} /\ n \notin DOMAIN session
        /\ \A s \in DOMAIN session :
             /\ session'[s].user = session[s].user
             /\ session'[s].via = session[s].via
             /\ session'[s].issuedAt = session[s].issuedAt
             /\ session[s].user = u /\ IsOpen(s) =>
                  session[s].issuedAt <= request[r].stamp
                  /\ session'[s].revoked = "superseded_login"
             /\ ~(session[s].user = u /\ IsOpen(s)) =>
                  session'[s].revoked = session[s].revoked
        /\ session'[n].user = u /\ session'[n].via = request[r].via
        /\ session'[n].issuedAt = request[r].stamp /\ session'[n].revoked = "no"
    <3>1. Inserted(r, u, n)
      BY <1>3, <2>1, <2>2, SessionInserted
    <3> QED BY <3>1 DEF Inserted
  <2>4. request[r] \in Requests /\ Fits(request[r]) /\ request[r].pc = "insert"
    BY DEF Tables, RequestsFit, InsertSession
  <2>5. u \in Username /\ player[u] # "none" /\ request[r].stamp \in Nat
    BY <2>1, <2>4 DEF Fits, LoginSteps, Requests
  <2>6. \A s \in DOMAIN session : session[s].issuedAt \in Nat /\ session[s].user \in Username
    BY SessionRows
  <2>7. Tables'
    BY <1>1, <2>3, IdleFits DEF Tables
  <2>8. OneOpenSession'
    <3>1. SUFFICES ASSUME NEW s \in DOMAIN session', NEW t \in DOMAIN session',
                          session'[s].user = session'[t].user,
                          session'[s].revoked = "no", session'[t].revoked = "no"
                   PROVE  s = t
      BY DEF OneOpenSession, IsOpen
    <3>2. ASSUME NEW x \in DOMAIN session, session'[x].revoked = "no"
          PROVE  session[x].revoked = "no" /\ session[x].user # u
      BY <2>3, <3>2 DEF IsOpen
    <3>3. CASE s \in DOMAIN session /\ t \in DOMAIN session
      BY <2>3, <3>1, <3>2, <3>3 DEF OneOpenSession, IsOpen
    <3> QED BY <2>3, <3>1, <3>2, <3>3
  <2>9. NewestIsKept'
    <3>1. SUFFICES ASSUME NEW t \in DOMAIN session'
                   PROVE  \E l \in DOMAIN session' :
                            /\ session'[l].user = session'[t].user
                            /\ session'[l].issuedAt >= session'[t].issuedAt
                            /\ session'[l].revoked # "superseded_login"
      BY DEF NewestIsKept
    <3>2. CASE t = n
      BY <2>3, <2>5, <3>2
    <3>3. CASE t \in DOMAIN session
      <4>1. PICK l \in DOMAIN session :
              /\ session[l].user = session[t].user
              /\ session[l].issuedAt >= session[t].issuedAt
              /\ session[l].revoked # "superseded_login"
        BY <3>3 DEF NewestIsKept
      <4>2. CASE session[l].user = u /\ IsOpen(l)
        <5>1. session'[n].user = session'[t].user
          BY <2>3, <3>3, <4>1, <4>2
        <5>2. request[r].stamp >= session[l].issuedAt
          BY <2>3, <2>5, <2>6, <4>2
        <5>3. session'[n].issuedAt >= session'[t].issuedAt
          BY <2>3, <2>5, <2>6, <3>3, <4>1, <5>2
        <5> QED BY <2>3, <5>1, <5>3
      <4>3. CASE ~(session[l].user = u /\ IsOpen(l))
        BY <2>3, <3>3, <4>1, <4>3
      <4> QED BY <4>2, <4>3
    <3> QED BY <2>3, <3>2, <3>3
  <2>10. ChallengesServeOnce'
    <3>1. \A c : Spent(c) => Spent(c)'
      BY <1>1 DEF Spent
    <3>2. request[r].pc \in LoginSteps
      BY <2>4 DEF LoginSteps
    <3>3. \A t \in Request : request'[t] = IF t = r THEN Idle ELSE request[t]
      BY <1>1 DEF Tables
    <3>4. ASSUME NEW s \in DOMAIN session', session'[s].via \notin Identity
          PROVE  Spent(session[s].via)'
      <4>1. PICK c : c = session'[s].via
        OBVIOUS
      <4>2. Spent(c)
        <5>1. CASE s = n
          BY <2>3, <3>2, <3>4, <4>1, <5>1 DEF ChallengesServeOnce
        <5>2. CASE s \in DOMAIN session
          BY <2>3, <3>4, <4>1, <5>2 DEF ChallengesServeOnce
        <5> QED BY <2>3, <5>1, <5>2
      <4> QED BY <3>1, <4>1, <4>2
    <3>5. ASSUME NEW s \in DOMAIN session', NEW t \in DOMAIN session', s # t,
                 session'[s].via \notin Identity
          PROVE  session'[s].via # session'[t].via
      <4>1. CASE s \in DOMAIN session /\ t \in DOMAIN session
        BY <2>3, <3>5, <4>1 DEF ChallengesServeOnce
      <4>2. CASE s = n /\ t \in DOMAIN session
        BY <2>3, <3>2, <3>5, <4>2 DEF ChallengesServeOnce
      <4>3. CASE t = n /\ s \in DOMAIN session
        BY <2>3, <3>2, <3>5, <4>3 DEF ChallengesServeOnce
      <4> QED BY <2>3, <3>5, <4>1, <4>2, <4>3
    <3>6. ASSUME NEW t \in Request, request'[t].pc \in LoginSteps,
                 request'[t].via \notin Identity
          PROVE  /\ Spent(request[t].via)'
                 /\ \A s \in DOMAIN session' : session'[s].via # request'[t].via
                 /\ \A p \in Request \ {t} : request'[p].pc \in LoginSteps =>
                      request'[p].via # request'[t].via
      <4>1. t # r /\ request'[t] = request[t]
        BY <3>3, <3>6, IdleFits
      <4>2. PICK c : c = request[t].via
        OBVIOUS
      <4>3. Spent(c)'
        BY <3>1, <3>6, <4>1, <4>2 DEF ChallengesServeOnce
      <4>4. \A s \in DOMAIN session' : session'[s].via # request'[t].via
        BY <2>3, <3>2, <3>6, <4>1 DEF ChallengesServeOnce
      <4>5. \A p \in Request \ {t} : request'[p].pc \in LoginSteps =>
              request'[p].via # request'[t].via
        BY <3>3, <3>6, <4>1, IdleFits DEF ChallengesServeOnce
      <4> QED BY <4>1, <4>2, <4>3, <4>4, <4>5
    <3> QED BY <3>4, <3>5, <3>6 DEF ChallengesServeOnce
  <2>11. Grounds
    <3>1. \A s : Playable(s) => Playable(s)'
      BY <1>1, <2>3, PlayableStays
    <3> QED BY <1>1, <3>1 DEF Grounds
  <2>12. RequestsFit' /\ AssertionsArePlayable'
    BY <1>1, <2>11, IdleFitsNext, RequestsFitStep, AssertionsStayPlayable
  <2>13. PlayersExist'
    BY <1>1, <2>3, <2>5 DEF PlayersExist, CustodyIsLinked
  <2>14. AcceptedOnce' /\ LinksAreEarned' /\ NamesAreReserved' /\ RunsFit'
    BY <1>1, BridgeKept, LinksKept, RunsKept
  <2> QED BY <2>7, <2>8, <2>9, <2>10, <2>12, <2>13, <2>14
<1> QED BY <1>2, <1>3

-----------------------------------------------------------------------------
(* The life of a session.                                                  *)

(* A session is refreshed, or an open one is revoked by its player.         *)
LEMMA SessionRowStep ==
    ASSUME ProvisioningInv, NEW s \in DOMAIN session, NEW row \in Sessions,
           row.user = session[s].user, row.via = session[s].via,
           row.issuedAt = session[s].issuedAt,
           \/ row.revoked = session[s].revoked
           \/ session[s].revoked = "no" /\ row.revoked = "player_logout",
           session' = [session EXCEPT ![s] = row],
           UNCHANGED <<limit, now, account, player, identity, challenge, request, identityAck,
                       playerAck, assertion, replay, accepted, final, rc, projected, job, run,
                       faults, forks>>
    PROVE  ProvisioningInv'
<1> USE DEF ProvisioningInv
<1>1. session \in Seq(Sessions)
  BY DEF Tables
<1>2. session \in [DOMAIN session -> Sessions]
  BY <1>1, TableRows
<1>3. session' \in [DOMAIN session -> Sessions]
  BY <1>2
<1>4. session' \in Seq(Sessions) /\ DOMAIN session' = DOMAIN session
  BY <1>1, <1>3, TableMapped
<1>5. \A t \in DOMAIN session :
        /\ session'[t].user = session[t].user /\ session'[t].via = session[t].via
        /\ session'[t].issuedAt = session[t].issuedAt
        /\ session'[t].revoked = "no" => session[t].revoked = "no"
        /\ session'[t].revoked = "superseded_login" => session[t].revoked = "superseded_login"
  BY <1>2
<1>6. Tables'
  BY <1>4 DEF Tables
<1>7. OneOpenSession'
  BY <1>4, <1>5 DEF OneOpenSession, IsOpen
<1>8. NewestIsKept'
  <2>1. SUFFICES ASSUME NEW t \in DOMAIN session
                 PROVE  \E l \in DOMAIN session :
                          /\ session'[l].user = session'[t].user
                          /\ session'[l].issuedAt >= session'[t].issuedAt
                          /\ session'[l].revoked # "superseded_login"
    BY <1>4 DEF NewestIsKept
  <2>2. PICK l \in DOMAIN session :
          /\ session[l].user = session[t].user
          /\ session[l].issuedAt >= session[t].issuedAt
          /\ session[l].revoked # "superseded_login"
    BY DEF NewestIsKept
  <2> QED BY <1>5, <2>2
<1>9. ChallengesServeOnce'
  BY <1>4, <1>5 DEF ChallengesServeOnce, Spent
<1>10. Grounds
  <2>1. \A t : Playable(t) => Playable(t)'
    BY <1>4, <1>5, PlayableStays
  <2> QED BY <2>1 DEF Grounds
<1>11. RequestsFit' /\ AssertionsArePlayable'
  BY <1>10, RequestsFitStay, AssertionsStayPlayable
<1>12. PlayersExist'
  BY <1>4, <1>5 DEF PlayersExist, CustodyIsLinked
<1>13. AcceptedOnce' /\ LinksAreEarned' /\ NamesAreReserved' /\ RunsFit'
  BY BridgeKept, LinksKept, RunsKept
<1> QED BY <1>6, <1>7, <1>8, <1>9, <1>11, <1>12, <1>13

(* A refresh token is rotated.                                              *)
LEMMA RefreshStep ==
    ASSUME ProvisioningInv, NEW s \in DOMAIN session, NEW g, Refresh(s, g),
           UNCHANGED provisioningVars
    PROVE  ProvisioningInv'
<1>1. session[s] \in Sessions /\ now \in Nat
  BY SessionRows DEF ProvisioningInv, Tables
<1>2. PICK row : row = [session[s] EXCEPT !.token = @ + 1, !.accessUntil = TokenUntil(now)]
  OBVIOUS
<1>3. TokenUntil(now) \in Nat /\ session[s].token + 1 \in Nat
  BY <1>1, TTLAssumption DEF TokenUntil, Sessions
<1>4. row \in Sessions
  BY <1>1, <1>2, <1>3 DEF Sessions
<1>5. /\ row.user = session[s].user /\ row.via = session[s].via
      /\ row.issuedAt = session[s].issuedAt /\ row.revoked = session[s].revoked
  BY <1>1, <1>2 DEF Sessions
<1>6. session' = [session EXCEPT ![s] = row]
  BY <1>2 DEF Refresh
<1> QED BY <1>4, <1>5, <1>6, SessionRowStep
        DEF Refresh, provisioningVars, ackVars, bridgeVars

(* A session is logged out.                                                 *)
LEMMA RevokeSessionStep ==
    ASSUME ProvisioningInv, NEW s \in DOMAIN session, RevokeSession(s),
           UNCHANGED provisioningVars
    PROVE  ProvisioningInv'
<1>1. session[s] \in Sessions /\ session[s].revoked = "no"
  BY SessionRows DEF ProvisioningInv, RevokeSession, Active, IsOpen
<1>2. PICK row : row = [session[s] EXCEPT !.revoked = "player_logout"]
  OBVIOUS
<1>3. /\ row \in Sessions
      /\ row.user = session[s].user /\ row.via = session[s].via
      /\ row.issuedAt = session[s].issuedAt /\ row.revoked = "player_logout"
  BY <1>1, <1>2 DEF Sessions
<1>4. session' = [session EXCEPT ![s] = row]
  BY <1>2 DEF RevokeSession
<1> QED BY <1>1, <1>3, <1>4, SessionRowStep
        DEF RevokeSession, provisioningVars, ackVars, bridgeVars

(* An acknowledgment is recorded.                                           *)
LEMMA AcknowledgmentStep ==
    ASSUME ProvisioningInv,
           playerAck' \in [Username -> BOOLEAN],
           \A u \in Username : playerAck[u] => playerAck'[u],
           \A u \in Username : playerAck'[u] => playerAck[u] \/ player[u] # "none",
           identityAck' \in [Identity -> {"none", "pending", "linked"}],
           \A e \in Identity : identityAck[e] = "linked" => identityAck'[e] = "linked",
           UNCHANGED <<limit, now, account, player, identity, challenge, session, request,
                       assertion, replay, accepted, final, rc, projected, job, run, faults,
                       forks>>
    PROVE  ProvisioningInv'
<1> USE DEF ProvisioningInv
<1>1. Tables'
  BY DEF Tables
<1>2. Grounds
  <2>1. \A s : Playable(s) => Playable(s)'
    BY PlayableStays
  <2> QED BY <2>1 DEF Grounds
<1>3. RequestsFit' /\ AssertionsArePlayable'
  BY <1>2, RequestsFitStay, AssertionsStayPlayable
<1>4. OneOpenSession' /\ NewestIsKept' /\ ChallengesServeOnce' /\ AcceptedOnce'
      /\ PlayersExist'
  <2>1. PlayersExist'
    BY DEF PlayersExist, CustodyIsLinked
  <2> QED BY <2>1, SessionsKept, ChallengesKept, BridgeKept
<1>5. LinksAreEarned' /\ NamesAreReserved' /\ RunsFit'
  BY LinksKept, RunsKept
<1> QED BY <1>1, <1>3, <1>4, <1>5

(* A player acknowledges the disclosure.                                    *)
LEMMA AcknowledgeAsPlayerStep ==
    ASSUME ProvisioningInv, NEW s \in DOMAIN session, AcknowledgeAsPlayer(s),
           UNCHANGED provisioningVars
    PROVE  ProvisioningInv'
<1>1. session[s].user \in Username /\ playerAck \in [Username -> BOOLEAN]
      /\ identityAck \in [Identity -> {"none", "pending", "linked"}]
  BY SessionRows DEF ProvisioningInv, Tables
<1>2. /\ playerAck' \in [Username -> BOOLEAN]
      /\ \A u \in Username : playerAck[u] => playerAck'[u]
      /\ \A u \in Username : playerAck'[u] => playerAck[u] \/ u = session[s].user
  BY <1>1 DEF AcknowledgeAsPlayer
<1>3. player[session[s].user] # "none"
  BY DEF ProvisioningInv, PlayersExist
<1> QED BY <1>1, <1>2, <1>3, AcknowledgmentStep
        DEF AcknowledgeAsPlayer, provisioningVars, ackVars, bridgeVars

(* An identity acknowledges the disclosure before it has a player.          *)
LEMMA AcknowledgeAsIdentityStep ==
    ASSUME ProvisioningInv, NEW e \in Identity, AcknowledgeAsIdentity(e),
           UNCHANGED provisioningVars
    PROVE  ProvisioningInv'
<1>1. playerAck \in [Username -> BOOLEAN]
      /\ identityAck \in [Identity -> {"none", "pending", "linked"}]
  BY DEF ProvisioningInv, Tables
<1>2. /\ identityAck' \in [Identity -> {"none", "pending", "linked"}]
      /\ \A f \in Identity : identityAck[f] = "linked" => identityAck'[f] = "linked"
  BY <1>1 DEF AcknowledgeAsIdentity
<1> QED BY <1>1, <1>2, AcknowledgmentStep
        DEF AcknowledgeAsIdentity, provisioningVars, ackVars, bridgeVars

-----------------------------------------------------------------------------
(* The bridge, and the clock.                                              *)

(* An assertion is minted some time after the guard.                        *)
LEMMA CreateBridgeAssertionStep ==
    ASSUME ProvisioningInv, NEW r \in Request, CreateBridgeAssertion(r),
           UNCHANGED provisioningVars
    PROVE  ProvisioningInv'
<1> USE DEF ProvisioningInv
<1>1. PICK row : row = [session |-> request[r].session, until |-> now + AssertionTTL]
  OBVIOUS
<1>2. PICK n : n = Len(assertion) + 1
  OBVIOUS
<1>3. /\ request[r].pc = "mint" /\ Len(assertion) < limit.assertions
      /\ assertion' = Append(assertion, row)
      /\ request' = [request EXCEPT ![r] = Idle]
      /\ UNCHANGED <<limit, now, account, player, identity, challenge, session, identityAck,
                     playerAck, replay, accepted, final, rc, projected, job, run, faults,
                     forks>>
  BY <1>1 DEF CreateBridgeAssertion, Ends, provisioningVars, ackVars
<1>4. /\ assertion \in Seq(Assertions) /\ now \in Nat /\ limit.assertions \in Nat
      /\ request[r] \in Requests /\ Fits(request[r])
  BY ScenariosAssumption DEF Tables, RequestsFit
<1>5. row \in Assertions /\ row.session = request[r].session
  BY <1>1, <1>4, TTLAssumption DEF Assertions, Requests
<1>6. /\ assertion' \in Seq(Assertions) /\ Len(assertion') = n
      /\ DOMAIN assertion' = DOMAIN assertion \cup {n} /\ n \notin DOMAIN assertion
      /\ \A i \in DOMAIN assertion : assertion'[i] = assertion[i]
      /\ assertion'[n] = row
  BY <1>2, <1>3, <1>4, <1>5, TableAppended
<1>7. n \in 1..limit.assertions
  BY <1>2, <1>3, <1>4, TableRows
<1>8. Tables'
  BY <1>3, <1>6, <1>7, IdleFits DEF Tables
<1>9. Grounds
  <2>1. \A s : Playable(s) => Playable(s)'
    BY <1>3, PlayableStays
  <2> QED BY <1>3, <1>6, <2>1 DEF Grounds
<1>10. RequestsFit'
  BY <1>3, <1>9, IdleFitsNext, RequestsFitStep
<1>11. ChallengesServeOnce'
  <2>1. \A c : Spent(c) => Spent(c)'
    BY <1>3 DEF Spent
  <2> QED BY <1>3, <2>1, IdleFits, ChallengesStep
<1>12. AcceptedOnce'
  <2>1. accepted[n] = 0
    BY <1>6, <1>7 DEF AcceptedOnce
  <2> QED BY <1>3, <1>6, <2>1 DEF AcceptedOnce
<1>13. AssertionsArePlayable'
  <2>1. SUFFICES ASSUME NEW i \in DOMAIN assertion' PROVE Playable(assertion[i].session)'
    BY DEF AssertionsArePlayable
  <2>2. PICK x : x = assertion'[i].session
    OBVIOUS
  <2>3. Playable(x)
    BY <1>3, <1>4, <1>5, <1>6, <2>2 DEF Fits, AssertionsArePlayable
  <2> QED BY <1>9, <2>2, <2>3 DEF Grounds
<1>14. OneOpenSession' /\ NewestIsKept' /\ PlayersExist'
  BY <1>3, SessionsKept, PlayersKept
<1>15. LinksAreEarned' /\ NamesAreReserved' /\ RunsFit'
  BY <1>3, LinksKept, RunsKept
<1> QED BY <1>8, <1>10, <1>11, <1>12, <1>13, <1>14, <1>15

(* Nakama verifies an assertion and reads the clock.                        *)
LEMMA BeforeAuthenticateCustomStep ==
    ASSUME ProvisioningInv, NEW r \in Request, NEW n \in DOMAIN assertion,
           BeforeAuthenticateCustom(r, n), UNCHANGED provisioningVars
    PROVE  ProvisioningInv'
<1>1. n \in Nat /\ now \in Nat
  BY TableRows DEF ProvisioningInv, Tables
<1>2. PICK q : q = [Idle EXCEPT !.pc = "consume", !.stamp = now, !.via = n]
  OBVIOUS
<1>3. q \in Requests /\ q.pc = "consume" /\ q.via = n /\ q.stamp = now
  BY <1>1, <1>2 DEF Requests, Idle, Control
<1>4. Fits(q) /\ q.pc \notin LoginSteps
  BY <1>1, <1>3 DEF Fits, LoginSteps
<1> QED BY <1>2, <1>3, <1>4, RequestStep
        DEF BeforeAuthenticateCustom, provisioningVars, ackVars, bridgeVars

(* The write to the replay record.  What it forgets had expired when its    *)
(* handler began, so it has expired now.                                    *)
LEMMA ConsumeStep ==
    ASSUME ProvisioningInv, NEW r \in Request, Consume(r), UNCHANGED provisioningVars
    PROVE  ProvisioningInv'
<1> USE DEF ProvisioningInv
<1>1. PICK n : n = request[r].via
  OBVIOUS
<1>2. PICK at : at = request[r].stamp
  OBVIOUS
<1>3. PICK s : s = assertion[n].session
  OBVIOUS
<1>4. /\ request[r].pc = "consume" /\ n \notin Pruned(s, at)
      /\ replay' = Pruned(s, at) \cup {n}
      /\ accepted' = [accepted EXCEPT ![n] = @ + 1]
      /\ request' = [request EXCEPT ![r] = Idle]
      /\ UNCHANGED <<limit, now, account, player, identity, challenge, session, identityAck,
                     playerAck, assertion, final, rc, projected, job, run, faults, forks>>
  BY <1>1, <1>2, <1>3 DEF Consume, Ends, provisioningVars, ackVars
<1>5. /\ assertion \in Seq(Assertions) /\ now \in Nat /\ limit.assertions \in Nat
      /\ accepted \in [1..limit.assertions -> Nat] /\ Len(assertion) <= limit.assertions
      /\ replay \subseteq DOMAIN assertion
  BY ScenariosAssumption DEF Tables
<1>6. n \in DOMAIN assertion /\ at \in Nat /\ at <= now
  BY <1>1, <1>2, <1>4 DEF RequestsFit, Fits
<1>7. DOMAIN assertion \subseteq 1..limit.assertions
  BY <1>5, TableRows
<1>8. \A m \in DOMAIN assertion : assertion[m].until \in Nat
  <2>1. \A m \in DOMAIN assertion : assertion[m] \in Assertions
    BY <1>5, TableRows
  <2> QED BY <2>1 DEF Assertions
<1>9. /\ Pruned(s, at) \subseteq replay
      /\ \A m \in replay : m \in Pruned(s, at) \/ assertion[m].until <= now
  BY <1>5, <1>6, <1>8 DEF Pruned
<1>10. /\ accepted' \in [1..limit.assertions -> Nat] /\ accepted'[n] = accepted[n] + 1
       /\ \A m \in 1..limit.assertions : m # n => accepted'[m] = accepted[m]
  BY <1>4, <1>5, <1>6, <1>7
<1>11. Tables'
  BY <1>4, <1>5, <1>6, <1>9, <1>10, IdleFits DEF Tables
<1>12. AcceptedOnce'
  <2>1. ASSUME NEW m \in DOMAIN assertion, accepted'[m] > 0
        PROVE  (m \in replay' /\ accepted'[m] = 1) \/ assertion[m].until <= now
    <3>1. CASE m = n
      <4>1. accepted[n] \in Nat /\ (accepted[n] > 0 => assertion[n].until <= now)
        BY <1>4, <1>5, <1>6, <1>7, <1>9 DEF AcceptedOnce
      <4> QED BY <1>4, <1>10, <3>1, <4>1
    <3>2. CASE m # n
      <4>1. accepted'[m] = accepted[m]
        BY <1>7, <1>10, <3>2
      <4>2. m \in replay => m \in replay' \/ assertion[m].until <= now
        BY <1>4, <1>9
      <4> QED BY <2>1, <4>1, <4>2 DEF AcceptedOnce
    <3> QED BY <3>1, <3>2
  <2>2. \A m \in 1..limit.assertions : m \notin DOMAIN assertion => accepted'[m] = 0
    BY <1>6, <1>10 DEF AcceptedOnce
  <2> QED BY <1>4, <2>1, <2>2 DEF AcceptedOnce
<1>13. Grounds
  BY <1>4, GroundsKept
<1>14. RequestsFit' /\ AssertionsArePlayable'
  BY <1>4, <1>13, IdleFitsNext, RequestsFitStep, AssertionsStayPlayable
<1>15. ChallengesServeOnce'
  <2>1. \A c : Spent(c) => Spent(c)'
    BY <1>4 DEF Spent
  <2> QED BY <1>4, <2>1, IdleFits, ChallengesStep
<1>16. OneOpenSession' /\ NewestIsKept' /\ PlayersExist'
  BY <1>4, SessionsKept, PlayersKept
<1>17. LinksAreEarned' /\ NamesAreReserved' /\ RunsFit'
  BY <1>4, LinksKept, RunsKept
<1> QED BY <1>11, <1>12, <1>14, <1>15, <1>16, <1>17

(* Time passes.                                                             *)
LEMMA TickStep ==
    ASSUME ProvisioningInv, Tick, UNCHANGED provisioningVars
    PROVE  ProvisioningInv'
<1> USE DEF ProvisioningInv
<1>1. /\ now < limit.time /\ now' = now + 1
      /\ UNCHANGED <<limit, account, player, identity, challenge, session, identityAck,
                     playerAck, request, assertion, replay, accepted, final, rc, projected, job,
                     run, faults, forks>>
  BY DEF Tick, provisioningVars, ackVars, bridgeVars
<1>2. now \in Nat /\ limit.time \in Nat
  BY ScenariosAssumption DEF Tables
<1>3. now' \in Nat /\ now' <= limit'.time
  BY <1>1, <1>2
<1>4. Tables'
  BY <1>1, <1>3 DEF Tables
<1>5. AcceptedOnce'
  <2>1. \A m \in DOMAIN assertion : assertion[m].until \in Nat
    <3>1. assertion \in Seq(Assertions)
      BY DEF Tables
    <3>2. \A m \in DOMAIN assertion : assertion[m] \in Assertions
      BY <3>1, TableRows
    <3> QED BY <3>2 DEF Assertions
  <2> QED BY <1>1, <1>2, <2>1 DEF AcceptedOnce
<1>6. Grounds
  <2>1. \A s : Playable(s) => Playable(s)'
    BY <1>1, PlayableStays
  <2>2. \A t \in Nat : t <= now => t <= now'
    BY <1>1, <1>2
  <2> QED BY <1>1, <2>1, <2>2 DEF Grounds
<1>7. RequestsFit' /\ AssertionsArePlayable'
  BY <1>1, <1>6, RequestsFitStay, AssertionsStayPlayable
<1>8. OneOpenSession' /\ NewestIsKept' /\ ChallengesServeOnce' /\ PlayersExist'
  BY <1>1, SessionsKept, ChallengesKept, PlayersKept
<1>9. LinksAreEarned' /\ NamesAreReserved' /\ RunsFit'
  BY <1>1, LinksKept, RunsKept
<1> QED BY <1>4, <1>5, <1>7, <1>8, <1>9

-----------------------------------------------------------------------------
(* The runs of process that leave the tables alone.                        *)

(* A run of process moves to a state that fits, nothing else changes.       *)
LEMMA RunStep ==
    ASSUME ProvisioningInv, NEW w \in Worker, NEW x \in Runs, RunFits(x),
           run' = [run EXCEPT ![w] = x], faults' \in Nat, faults' <= limit.faults,
           UNCHANGED <<limit, now, account, player, identity, challenge, session, identityAck,
                       playerAck, request, assertion, replay, accepted, final, rc, projected,
                       job, forks>>
    PROVE  ProvisioningInv'
<1> USE DEF ProvisioningInv
<1>1. Tables'
  BY DEF Tables
<1>2. Grounds
  BY GroundsKept
<1>3. RequestsFit' /\ AssertionsArePlayable'
  BY <1>2, RequestsFitStay, AssertionsStayPlayable
<1>4. OneOpenSession' /\ NewestIsKept' /\ ChallengesServeOnce' /\ AcceptedOnce'
      /\ PlayersExist'
  BY SessionsKept, ChallengesKept, BridgeKept, PlayersKept
<1>5. LinksAreEarned' /\ NamesAreReserved'
  BY LinksKept
<1>6. RunsFit'
  <2>1. \A v \in Worker : run'[v] = IF v = w THEN x ELSE run[v]
    BY DEF Tables
  <2> QED BY <2>1 DEF RunsFit, RunFits, Verified
<1> QED BY <1>1, <1>3, <1>4, <1>5, <1>6

(* No run fits any database.                                                *)
LEMMA IdleRunFits == NoRun \in Runs /\ RunFits(NoRun)
  BY DEF NoRun, Runs, RunFits, KeyedSteps, JobStates

(* No run fits the next database as well.                                   *)
LEMMA IdleRunFitsNext == RunFits(NoRun)'
  BY DEF NoRun, RunFits, KeyedSteps

(* A run that has begun moves to another of its steps.                      *)
LEMMA Continued ==
    ASSUME ProvisioningInv, NEW w \in Worker, run[w].pc # "idle",
           NEW pc \in KeyedSteps \cup {"get_keys", "save_keys", "fail"},
           NEW x, x = [run[w] EXCEPT !.pc = pc]
    PROVE  /\ x \in Runs /\ x.pc = pc /\ x.identity = run[w].identity
           /\ x.identity \in Identity /\ job[x.identity].state # "none" /\ pc # "idle"
<1>1. run[w] \in Runs /\ RunFits(run[w])
  BY DEF ProvisioningInv, Tables, RunsFit
<1>2. x \in Runs /\ x.pc = pc /\ x.identity = run[w].identity
  BY <1>1 DEF Runs
<1> QED BY <1>1, <1>2 DEF RunFits, KeyedSteps

(* A run reads its job.                                                     *)
LEMMA GetJobStep ==
    ASSUME ProvisioningInv, NEW w \in Worker, NEW e \in Identity, GetJob(w, e)
    PROVE  ProvisioningInv'
<1>1. PICK x : x = [pc |-> "get_keys", identity |-> e, read |-> job[e].state]
  OBVIOUS
<1>2. job[e] \in Jobs /\ JobIsReserved(e)
  BY DEF ProvisioningInv, Tables, LinksAreEarned
<1>3. job[e].state # "none"
  BY <1>2 DEF GetJob, JobIsReserved
<1>4. x \in Runs
  BY <1>1, <1>2 DEF Runs, Jobs
<1>5. x.pc = "get_keys" /\ x.identity = e
  BY <1>1
<1>6. RunFits(x)
  BY <1>3, <1>5 DEF RunFits, KeyedSteps
<1>7. run' = [run EXCEPT ![w] = x]
  BY <1>1 DEF GetJob
<1>8. faults' \in Nat /\ faults' <= limit.faults
  BY DEF GetJob, ProvisioningInv, Tables
<1> QED BY <1>4, <1>6, <1>7, <1>8, RunStep DEF GetJob, sessionVars

(* A run that has keys goes on to a step that needs them.                   *)
LEMMA AfterKeysIsKeyed == \A read : AfterKeys(read) \in KeyedSteps
  BY DEF AfterKeys, KeyedSteps

(* A run looks up its public keys.                                          *)
LEMMA GetKeysStep ==
    ASSUME ProvisioningInv, NEW w \in Worker, GetKeys(w)
    PROVE  ProvisioningInv'
<1>1. PICK pc : pc = IF JobOf(w).keys = "none" THEN "save_keys" ELSE AfterKeys(run[w].read)
  OBVIOUS
<1>2. PICK x : x = [run[w] EXCEPT !.pc = pc]
  OBVIOUS
<1>3. run[w].pc = "get_keys" /\ run' = [run EXCEPT ![w] = x]
  BY <1>1, <1>2 DEF GetKeys, At, Continue
<1>4. pc \in KeyedSteps \cup {"get_keys", "save_keys", "fail"}
  BY <1>1, AfterKeysIsKeyed
<1>5. /\ x \in Runs /\ x.pc = pc /\ x.identity = run[w].identity
      /\ x.identity \in Identity /\ job[x.identity].state # "none" /\ pc # "idle"
  BY <1>2, <1>3, <1>4, Continued
<1>6. pc # "mark_ready" /\ (pc \in KeyedSteps => job[x.identity].keys # "none")
  BY <1>1, <1>5 DEF AfterKeys, KeyedSteps, JobOf
<1>7. RunFits(x)
  BY <1>5, <1>6 DEF RunFits
<1>8. faults' \in Nat /\ faults' <= limit.faults
  BY DEF GetKeys, ProvisioningInv, Tables
<1> QED BY <1>3, <1>5, <1>7, <1>8, RunStep DEF GetKeys, sessionVars

(* A run verifies the account on the chain.                                 *)
LEMMA VerifyAccountStep ==
    ASSUME ProvisioningInv, NEW w \in Worker, VerifyAccount(w)
    PROVE  ProvisioningInv'
<1>1. PICK pc : pc = IF AccountVerified(NameOf(w)) THEN "mark_created" ELSE "fail"
  OBVIOUS
<1>2. PICK x : x = [run[w] EXCEPT !.pc = pc]
  OBVIOUS
<1>3. run[w].pc = "verify_account" /\ run' = [run EXCEPT ![w] = x]
  BY <1>1, <1>2 DEF VerifyAccount, At, Continue
<1>4. pc \in KeyedSteps \cup {"get_keys", "save_keys", "fail"} /\ pc # "mark_ready"
  BY <1>1 DEF KeyedSteps
<1>5. /\ x \in Runs /\ x.pc = pc /\ x.identity = run[w].identity
      /\ x.identity \in Identity /\ job[x.identity].state # "none" /\ pc # "idle"
  BY <1>2, <1>3, <1>4, Continued
<1>6. job[x.identity].keys # "none"
  BY <1>3, <1>5 DEF ProvisioningInv, RunsFit, RunFits, KeyedSteps
<1>7. RunFits(x)
  BY <1>4, <1>5, <1>6 DEF RunFits
<1>8. faults' \in Nat /\ faults' <= limit.faults
  BY DEF VerifyAccount, ProvisioningInv, Tables
<1> QED BY <1>3, <1>5, <1>7, <1>8, RunStep DEF VerifyAccount, sessionVars

(* A run checks account and delegation before it links.                     *)
LEMMA VerifyReadyStep ==
    ASSUME ProvisioningInv, NEW w \in Worker, VerifyReady(w)
    PROVE  ProvisioningInv'
<1>1. PICK pc : pc = IF AccountVerified(NameOf(w)) /\ rc[NameOf(w)]
                     THEN "mark_ready" ELSE "fail"
  OBVIOUS
<1>2. PICK x : x = [run[w] EXCEPT !.pc = pc]
  OBVIOUS
<1>3. run[w].pc = "verify_ready" /\ run' = [run EXCEPT ![w] = x]
  BY <1>1, <1>2 DEF VerifyReady, At, Continue
<1>4. pc \in KeyedSteps \cup {"get_keys", "save_keys", "fail"}
  BY <1>1 DEF KeyedSteps
<1>5. /\ x \in Runs /\ x.pc = pc /\ x.identity = run[w].identity
      /\ x.identity \in Identity /\ job[x.identity].state # "none" /\ pc # "idle"
  <2>1. run[w].pc # "idle"
    BY <1>3
  <2> QED BY <1>2, <1>4, <2>1, Continued
<1>6. job[x.identity].keys # "none"
  BY <1>3, <1>5 DEF ProvisioningInv, RunsFit, RunFits, KeyedSteps
<1>7. pc = "mark_ready" => Verified(job[x.identity].user)
  BY <1>1, <1>5 DEF AccountVerified, NameOf, JobOf, Verified
<1>8. RunFits(x)
  BY <1>5, <1>6, <1>7 DEF RunFits
<1>9. faults' \in Nat /\ faults' <= limit.faults
  BY DEF VerifyReady, ProvisioningInv, Tables
<1> QED BY <1>3, <1>5, <1>8, <1>9, RunStep DEF VerifyReady, sessionVars

(* A counted fault stays within its bound.                                  *)
LEMMA FaultCounted ==
    ASSUME ProvisioningInv, faults < limit.faults
    PROVE  faults + 1 \in Nat /\ faults + 1 <= limit.faults
<1>1. faults \in Nat /\ limit.faults \in Nat
  BY FaultsAssumption DEF ProvisioningInv, Tables
<1> QED BY <1>1

(* A call of a run fails.                                                   *)
LEMMA CallFailsStep ==
    ASSUME ProvisioningInv, NEW w \in Worker, CallFails(w)
    PROVE  ProvisioningInv'
<1>1. PICK x : x = [run[w] EXCEPT !.pc = "fail"]
  OBVIOUS
<1>2. run[w].pc # "idle"
  BY DEF CallFails, ProvisioningInv, RunsFit, RunFits
<1>3. /\ x \in Runs /\ x.pc = "fail" /\ x.identity = run[w].identity
      /\ x.identity \in Identity /\ job[x.identity].state # "none"
  BY <1>1, <1>2, Continued
<1>4. RunFits(x)
  BY <1>3 DEF RunFits, KeyedSteps
<1>5. run' = [run EXCEPT ![w] = x]
  BY <1>1 DEF CallFails, Continue
<1>6. faults' \in Nat /\ faults' <= limit.faults
  BY FaultCounted DEF CallFails
<1> QED BY <1>3, <1>4, <1>5, <1>6, RunStep DEF CallFails, sessionVars

(* A run is lost.                                                           *)
LEMMA RunLostStep ==
    ASSUME ProvisioningInv, NEW w \in Worker, RunLost(w)
    PROVE  ProvisioningInv'
<1>1. faults' \in Nat /\ faults' <= limit.faults
  BY FaultCounted DEF RunLost
<1> QED BY <1>1, IdleRunFits, RunStep DEF RunLost, sessionVars

-----------------------------------------------------------------------------
(* The chain, and the two adapters that change it.                         *)

(* What a step on the chain has to leave for the invariant to hold after    *)
(* it.                                                                      *)
LEMMA ChainStep ==
    ASSUME ProvisioningInv,
           account' \in [Username -> {"none", "external", "ours"}],
           final' \in [Username -> BOOLEAN], rc' \in [Username -> BOOLEAN],
           projected' \in SUBSET Username,
           forks' \in Nat, forks' <= limit.forks, run' \in [Worker -> Runs],
           \A u \in Username : Verified(u) => Verified(u)',
           forks' = 0 =>
             forks = 0 /\ \A u \in Username : account[u] = "external" => account'[u] = "external",
           \A w \in Worker : run'[w] = run[w] \/ RunFits(run'[w]),
           UNCHANGED <<limit, now, player, identity, challenge, session, identityAck, playerAck,
                       request, assertion, replay, accepted, job, faults>>
    PROVE  ProvisioningInv'
<1> USE DEF ProvisioningInv
<1>1. Tables'
  BY DEF Tables
<1>2. Grounds
  <2>1. \A s : Playable(s) => Playable(s)'
    BY PlayableStays
  <2> QED BY <2>1 DEF Grounds
<1>3. RequestsFit' /\ AssertionsArePlayable'
  BY <1>2, RequestsFitStay, AssertionsStayPlayable
<1>4. OneOpenSession' /\ NewestIsKept' /\ ChallengesServeOnce' /\ AcceptedOnce'
  BY SessionsKept, ChallengesKept, BridgeKept
<1>5. PlayersExist'
  BY DEF PlayersExist, CustodyIsLinked
<1>6. LinksAreEarned'
  <2>1. SUFFICES ASSUME NEW e \in Identity PROVE LinkIsEarned(e)' /\ JobIsReserved(e)'
    BY DEF LinksAreEarned
  <2>2. LinkIsEarned(e) /\ JobIsReserved(e)
    BY DEF LinksAreEarned
  <2>3. PICK u : u = identity[e].player
    OBVIOUS
  <2>4. identity[e].status = "linked" => u \in Username /\ Verified(u)'
    BY <2>2, <2>3 DEF LinkIsEarned
  <2>5. identity[e].status = "linked" => Verified(identity[e].player)'
    BY <2>3, <2>4
  <2> QED BY <2>2, <2>5 DEF LinkIsEarned, JobIsReserved
<1>7. NamesAreReserved'
  BY DEF NamesAreReserved
<1>8. RunsFit'
  <2>1. SUFFICES ASSUME NEW w \in Worker PROVE RunFits(run[w])'
    BY DEF RunsFit
  <2>2. PICK x : x = run'[w]
    OBVIOUS
  <2>3. RunFits(x)
    BY <2>2 DEF RunsFit
  <2>4. PICK u : u = job[x.identity].user
    OBVIOUS
  <2>5. x.pc = "mark_ready" => u \in Username
    BY <2>3, <2>4 DEF RunFits, LinksAreEarned, JobIsReserved
  <2>6. x.pc = "mark_ready" => Verified(u)'
    BY <2>3, <2>4, <2>5 DEF RunFits
  <2>7. x.pc = "mark_ready" => Verified(job[x.identity].user)'
    BY <2>4, <2>6
  <2>8. RunFits(x)'
    BY <2>3, <2>7 DEF RunFits
  <2> QED BY <2>2, <2>8
<1> QED BY <1>1, <1>3, <1>4, <1>5, <1>6, <1>7, <1>8

(* The row of a delegation appears.                                         *)
LEMMA RcDelegationProjectedStep ==
    ASSUME ProvisioningInv, NEW u \in Username, RcDelegationProjected(u)
    PROVE  ProvisioningInv'
<1>1. /\ account \in [Username -> {"none", "external", "ours"}]
      /\ final \in [Username -> BOOLEAN] /\ rc \in [Username -> BOOLEAN]
      /\ projected \in SUBSET Username /\ run \in [Worker -> Runs]
      /\ forks \in Nat /\ forks <= limit.forks
  BY DEF ProvisioningInv, Tables
<1>2. projected' \in SUBSET Username
  BY <1>1 DEF RcDelegationProjected
<1>3. \A v \in Username : Verified(v) => Verified(v)'
  BY DEF RcDelegationProjected, Verified, sessionVars
<1> QED BY <1>1, <1>2, <1>3, ChainStep DEF RcDelegationProjected, sessionVars, ackVars, bridgeVars

(* Somebody else registers a name.                                          *)
LEMMA RegisteredElsewhereStep ==
    ASSUME ProvisioningInv, NEW u \in Username, RegisteredElsewhere(u)
    PROVE  ProvisioningInv'
<1>1. /\ account[u] = "none" /\ account' = [account EXCEPT ![u] = "external"]
      /\ UNCHANGED <<limit, now, player, identity, challenge, session, identityAck, playerAck,
                     request, assertion, replay, accepted, final, rc, projected, job, run,
                     faults, forks>>
  BY DEF RegisteredElsewhere, provisioningVars, ackVars, bridgeVars
<1>2. /\ account \in [Username -> {"none", "external", "ours"}]
      /\ final \in [Username -> BOOLEAN] /\ rc \in [Username -> BOOLEAN]
      /\ projected \in SUBSET Username
      /\ run \in [Worker -> Runs] /\ forks \in Nat /\ forks <= limit.forks
  BY DEF ProvisioningInv, Tables
<1>3. account' \in [Username -> {"none", "external", "ours"}]
  BY <1>1, <1>2
<1>4. \A v \in Username : account[v] \in {"external", "ours"} => account'[v] = account[v]
  BY <1>1, <1>2
<1>5. \A v \in Username : Verified(v) => Verified(v)'
  BY <1>1, <1>4 DEF Verified
<1> QED BY <1>1, <1>2, <1>3, <1>4, <1>5, ChainStep

(* A registration becomes irreversible.                                     *)
LEMMA BecomesIrreversibleStep ==
    ASSUME ProvisioningInv, NEW u \in Username, BecomesIrreversible(u)
    PROVE  ProvisioningInv'
<1>1. /\ final' = [final EXCEPT ![u] = TRUE]
      /\ UNCHANGED <<limit, now, account, player, identity, challenge, session, identityAck,
                     playerAck, request, assertion, replay, accepted, rc, projected, job, run,
                     faults, forks>>
  BY DEF BecomesIrreversible, sessionVars
<1>2. /\ account \in [Username -> {"none", "external", "ours"}]
      /\ final \in [Username -> BOOLEAN] /\ rc \in [Username -> BOOLEAN]
      /\ projected \in SUBSET Username
      /\ run \in [Worker -> Runs] /\ forks \in Nat /\ forks <= limit.forks
  BY DEF ProvisioningInv, Tables
<1>3. final' \in [Username -> BOOLEAN] /\ \A v \in Username : final[v] => final'[v]
  BY <1>1, <1>2
<1>4. \A v \in Username : Verified(v) => Verified(v)'
  BY <1>1, <1>3 DEF Verified
<1> QED BY <1>1, <1>2, <1>3, <1>4, ChainStep

(* A reversible registration is forked out.                                 *)
LEMMA ForkStep ==
    ASSUME ProvisioningInv, NEW u \in Username, Fork(u)
    PROVE  ProvisioningInv'
<1>1. /\ forks < limit.forks /\ ~final[u]
      /\ account' = [account EXCEPT ![u] = "none"] /\ forks' = forks + 1
      /\ UNCHANGED <<limit, now, player, identity, challenge, session, identityAck, playerAck,
                     request, assertion, replay, accepted, final, rc, projected, job, run,
                     faults>>
  BY DEF Fork, ackVars, bridgeVars
<1>2. /\ account \in [Username -> {"none", "external", "ours"}]
      /\ final \in [Username -> BOOLEAN] /\ rc \in [Username -> BOOLEAN]
      /\ projected \in SUBSET Username
      /\ run \in [Worker -> Runs] /\ forks \in Nat /\ limit.forks \in Nat
  BY FaultsAssumption DEF ProvisioningInv, Tables
<1>3. account' \in [Username -> {"none", "external", "ours"}]
  BY <1>1, <1>2
<1>4. \A v \in Username : Verified(v) => Verified(v)'
  BY <1>1, <1>2 DEF Verified
<1>5. forks' \in Nat /\ forks' <= limit.forks /\ forks' # 0
  BY <1>1, <1>2
<1> QED BY <1>1, <1>2, <1>3, <1>4, <1>5, ChainStep

(* A run creates the account, or finds it taken.                            *)
LEMMA CreateClaimedAccountStep ==
    ASSUME ProvisioningInv, NEW w \in Worker, CreateClaimedAccount(w)
    PROVE  ProvisioningInv'
<1>1. PICK u : u = NameOf(w)
  OBVIOUS
<1>2. PICK pc : pc = IF account[u] = "external" THEN "fail" ELSE "mark_creation_pending"
  OBVIOUS
<1>3. PICK x : x = [run[w] EXCEPT !.pc = pc]
  OBVIOUS
<1>4. /\ run[w].pc = "create" /\ run' = [run EXCEPT ![w] = x]
      /\ account' = [account EXCEPT ![u] = IF @ = "none" THEN "ours" ELSE @]
      /\ UNCHANGED <<limit, now, player, identity, challenge, session, identityAck, playerAck,
                     request, assertion, replay, accepted, final, rc, projected, job, faults,
                     forks>>
  BY <1>1, <1>2, <1>3 DEF CreateClaimedAccount, At, Continue, ackVars, bridgeVars
<1>5. pc \in KeyedSteps \cup {"get_keys", "save_keys", "fail"} /\ pc # "mark_ready"
  BY <1>2 DEF KeyedSteps
<1>6. /\ x \in Runs /\ x.pc = pc /\ x.identity = run[w].identity
      /\ x.identity \in Identity /\ job[x.identity].state # "none" /\ pc # "idle"
  BY <1>3, <1>4, <1>5, Continued
<1>7. job[x.identity].keys # "none"
  BY <1>4, <1>6 DEF ProvisioningInv, RunsFit, RunFits, KeyedSteps
<1>8. RunFits(x)
  BY <1>5, <1>6, <1>7 DEF RunFits
<1>9. /\ account \in [Username -> {"none", "external", "ours"}]
      /\ final \in [Username -> BOOLEAN] /\ rc \in [Username -> BOOLEAN]
      /\ projected \in SUBSET Username
      /\ run \in [Worker -> Runs] /\ forks \in Nat /\ forks <= limit.forks
  BY DEF ProvisioningInv, Tables
<1>10. /\ run' \in [Worker -> Runs]
       /\ \A v \in Worker : run'[v] = run[v] \/ RunFits(run'[v])
  BY <1>4, <1>6, <1>8, <1>9
<1>11. u \in Username
  BY <1>1, <1>6 DEF NameOf, JobOf, ProvisioningInv, LinksAreEarned, JobIsReserved
<1>12. /\ account' \in [Username -> {"none", "external", "ours"}]
       /\ \A v \in Username : account[v] # "none" => account'[v] = account[v]
  BY <1>4, <1>9, <1>11
<1>13. \A v \in Username : Verified(v) => Verified(v)'
  BY <1>4, <1>12 DEF Verified
<1> QED BY <1>4, <1>9, <1>10, <1>12, <1>13, ChainStep

(* A run delegates resource credits.                                        *)
LEMMA DelegateInitialResourceCreditsStep ==
    ASSUME ProvisioningInv, NEW w \in Worker, DelegateInitialResourceCredits(w)
    PROVE  ProvisioningInv'
<1>1. PICK u : u = NameOf(w)
  OBVIOUS
<1>2. PICK pc : pc = IF account[u] = "ours" THEN "mark_delegated" ELSE "fail"
  OBVIOUS
<1>3. PICK x : x = [run[w] EXCEPT !.pc = pc]
  OBVIOUS
<1>4. /\ run[w].pc = "delegate" /\ run' = [run EXCEPT ![w] = x]
      /\ rc' = [rc EXCEPT ![u] = @ \/ (account[u] = "ours")]
      /\ UNCHANGED <<limit, now, account, player, identity, challenge, session, identityAck,
                     playerAck, request, assertion, replay, accepted, final, projected, job,
                     faults, forks>>
  BY <1>1, <1>2, <1>3 DEF DelegateInitialResourceCredits, At, Continue, sessionVars
<1>5. pc \in KeyedSteps \cup {"get_keys", "save_keys", "fail"} /\ pc # "mark_ready"
  BY <1>2 DEF KeyedSteps
<1>6. /\ x \in Runs /\ x.pc = pc /\ x.identity = run[w].identity
      /\ x.identity \in Identity /\ job[x.identity].state # "none" /\ pc # "idle"
  BY <1>3, <1>4, <1>5, Continued
<1>7. job[x.identity].keys # "none"
  BY <1>4, <1>6 DEF ProvisioningInv, RunsFit, RunFits, KeyedSteps
<1>8. RunFits(x)
  BY <1>5, <1>6, <1>7 DEF RunFits
<1>9. /\ account \in [Username -> {"none", "external", "ours"}]
      /\ final \in [Username -> BOOLEAN] /\ rc \in [Username -> BOOLEAN]
      /\ projected \in SUBSET Username
      /\ run \in [Worker -> Runs] /\ forks \in Nat /\ forks <= limit.forks
  BY DEF ProvisioningInv, Tables
<1>10. /\ run' \in [Worker -> Runs]
       /\ \A v \in Worker : run'[v] = run[v] \/ RunFits(run'[v])
  BY <1>4, <1>6, <1>8, <1>9
<1>11. u \in Username
  BY <1>1, <1>6 DEF NameOf, JobOf, ProvisioningInv, LinksAreEarned, JobIsReserved
<1>12. /\ rc' \in [Username -> BOOLEAN]
       /\ \A v \in Username : rc[v] => rc'[v]
  BY <1>4, <1>9, <1>11
<1>13. \A v \in Username : Verified(v) => Verified(v)'
  BY <1>4, <1>12 DEF Verified
<1> QED BY <1>4, <1>9, <1>10, <1>12, <1>13, ChainStep

-----------------------------------------------------------------------------
(* The marks of a job.                                                     *)

(* A job advances without being linked, and its run moves on or ends.       *)
LEMMA JobStep ==
    ASSUME ProvisioningInv, NEW w \in Worker, NEW e \in Identity, NEW row \in Jobs,
           job[e].state # "none", row.state # "none", row.user = job[e].user,
           job[e].keys # "none" => row.keys # "none",
           job[e].keys = "active" => row.keys = "active",
           row.state = "username_confirmed" => row.keys = "none",
           row.state = "ready" => job[e].state = "ready",
           job[e].delegated => row.delegated,
           NEW x \in Runs, x = NoRun \/ x.identity = e,
           x.pc = "idle" => x = NoRun, x.pc # "mark_ready",
           x.pc \in KeyedSteps => row.keys # "none",
           job' = [job EXCEPT ![e] = row], run' = [run EXCEPT ![w] = x],
           UNCHANGED <<limit, now, account, player, identity, challenge, session, identityAck,
                       playerAck, request, assertion, replay, accepted, final, rc, projected,
                       faults, forks>>
    PROVE  ProvisioningInv'
<1> USE DEF ProvisioningInv
<1>1. Tables'
  BY DEF Tables
<1>2. Grounds
  BY GroundsKept
<1>3. RequestsFit' /\ AssertionsArePlayable'
  BY <1>2, RequestsFitStay, AssertionsStayPlayable
<1>4. OneOpenSession' /\ NewestIsKept' /\ ChallengesServeOnce' /\ AcceptedOnce'
      /\ PlayersExist'
  BY SessionsKept, ChallengesKept, BridgeKept, PlayersKept
<1>5. job'[e] = row /\ \A f \in Identity : f # e => job'[f] = job[f]
  BY DEF Tables
<1>6. LinksAreEarned'
  <2>1. SUFFICES ASSUME NEW f \in Identity PROVE LinkIsEarned(f)' /\ JobIsReserved(f)'
    BY DEF LinksAreEarned
  <2>2. LinkIsEarned(f) /\ JobIsReserved(f)
    BY DEF LinksAreEarned
  <2>3. CASE f # e
    BY <1>5, <2>2, <2>3 DEF LinkIsEarned, JobIsReserved, Verified
  <2>4. CASE f = e
    <3>1. LinkIsEarned(e)'
      BY <1>5, <2>2, <2>4 DEF LinkIsEarned, Verified
    <3>2. JobIsReserved(e)'
      BY <1>5, <2>2, <2>4 DEF JobIsReserved
    <3> QED BY <2>4, <3>1, <3>2
  <2> QED BY <2>3, <2>4
<1>7. NamesAreReserved'
  BY <1>5 DEF NamesAreReserved
<1>8. RunsFit'
  <2>1. SUFFICES ASSUME NEW v \in Worker PROVE RunFits(run[v])'
    BY DEF RunsFit
  <2>2. \A f \in Identity :
          /\ job[f].state # "none" => job'[f].state # "none"
          /\ job[f].keys # "none" => job'[f].keys # "none"
          /\ job'[f].user = job[f].user
    BY <1>5
  <2>3. PICK y : y = run'[v]
    OBVIOUS
  <2>4. CASE v = w
    <3>1. y = x
      BY <2>3, <2>4 DEF Tables
    <3>2. CASE x = NoRun
      BY <2>3, <3>1, <3>2, IdleRunFitsNext
    <3>3. CASE x.identity = e
      <4>1. RunFits(x)'
        BY <1>5, <3>3 DEF RunFits
      <4> QED BY <2>3, <3>1, <4>1
    <3> QED BY <3>2, <3>3
  <2>5. CASE v # w
    <3>1. y = run[v] /\ RunFits(y)
      BY <2>3, <2>5 DEF Tables, RunsFit
    <3>2. RunFits(y)'
      BY <2>2, <3>1 DEF RunFits, Verified, KeyedSteps
    <3> QED BY <2>3, <3>2
  <2> QED BY <2>4, <2>5
<1> QED BY <1>1, <1>3, <1>4, <1>6, <1>7, <1>8

(* A run saves the public keys.                                             *)
LEMMA SaveKeysStep ==
    ASSUME ProvisioningInv, NEW w \in Worker, SaveKeys(w)
    PROVE  ProvisioningInv'
<1>1. PICK e : e = run[w].identity
  OBVIOUS
<1>2. run[w].pc = "save_keys" /\ run[w].pc # "idle"
  BY DEF SaveKeys, At
<1>3. UNCHANGED <<limit, now, account, player, identity, challenge, session, identityAck,
                  playerAck, request, assertion, replay, accepted, final, rc, projected, faults,
                  forks>>
  BY DEF SaveKeys, sessionVars
<1>4. CASE job[e].keys = "active"
  <2>1. PICK x : x = [run[w] EXCEPT !.pc = "fail"]
    OBVIOUS
  <2>2. run' = [run EXCEPT ![w] = x] /\ UNCHANGED job
    BY <1>1, <1>4, <2>1 DEF SaveKeys, Continue
  <2>3. /\ x \in Runs /\ x.pc = "fail" /\ x.identity = run[w].identity
        /\ x.identity \in Identity /\ job[x.identity].state # "none"
    BY <1>2, <2>1, Continued
  <2>4. RunFits(x)
    BY <2>3 DEF RunFits, KeyedSteps
  <2>5. faults' \in Nat /\ faults' <= limit.faults
    BY <1>3 DEF ProvisioningInv, Tables
  <2> QED BY <1>3, <2>2, <2>3, <2>4, <2>5, RunStep
<1>5. CASE job[e].keys # "active"
  <2>1. PICK pc : pc = AfterKeys(run[w].read)
    OBVIOUS
  <2>2. PICK x : x = [run[w] EXCEPT !.pc = pc]
    OBVIOUS
  <2>3. PICK row : row = [job[e] EXCEPT !.keys = "generated",
                            !.state = IF @ \in SaveFrom THEN "keys_ready" ELSE @]
    OBVIOUS
  <2>4. run' = [run EXCEPT ![w] = x] /\ job' = [job EXCEPT ![e] = row]
    BY <1>1, <1>5, <2>1, <2>2, <2>3 DEF SaveKeys, Continue
  <2>5. pc \in KeyedSteps \cup {"get_keys", "save_keys", "fail"} /\ pc # "mark_ready"
    BY <2>1, AfterKeysIsKeyed DEF AfterKeys
  <2>6. /\ x \in Runs /\ x.pc = pc /\ x.identity = e
        /\ e \in Identity /\ job[e].state # "none" /\ pc # "idle"
    BY <1>1, <1>2, <2>2, <2>5, Continued
  <2>7. job[e] \in Jobs
    BY <2>6 DEF ProvisioningInv, Tables
  <2>8. row \in Jobs
    BY <2>3, <2>7 DEF Jobs, JobStates
  <2>9. /\ row.keys = "generated" /\ row.user = job[e].user
        /\ row.delegated = job[e].delegated
        /\ row.state = IF job[e].state \in SaveFrom THEN "keys_ready" ELSE job[e].state
    BY <2>3, <2>7 DEF Jobs
  <2>10. /\ row.state # "none" /\ row.state # "username_confirmed"
         /\ row.state = "ready" => job[e].state = "ready"
    BY <2>6, <2>9 DEF SaveFrom
  <2> QED BY <1>3, <1>5, <2>4, <2>5, <2>6, <2>8, <2>9, <2>10, JobStep
<1> QED BY <1>4, <1>5

(* Marks change the state of the job, from one of the listed states.        *)
LEMMA MarkStep ==
    ASSUME ProvisioningInv, NEW w \in Worker, run[w].pc \in KeyedSteps,
           NEW state \in JobStates \ {"none", "username_confirmed", "ready"},
           NEW at, NEW next \in KeyedSteps \ {"mark_ready"},
           Mark(w, at, state, next)
    PROVE  ProvisioningInv'
<1>1. PICK e : e = run[w].identity
  OBVIOUS
<1>2. PICK row : row = [job[e] EXCEPT !.state = IF @ \in MarkFrom[state] THEN state ELSE @]
  OBVIOUS
<1>3. PICK x : x = [run[w] EXCEPT !.pc = next]
  OBVIOUS
<1>4. run' = [run EXCEPT ![w] = x] /\ job' = [job EXCEPT ![e] = row]
  BY <1>1, <1>2, <1>3 DEF Mark, Continue
<1>5. run[w].pc # "idle"
  BY DEF KeyedSteps
<1>6. /\ x \in Runs /\ x.pc = next /\ x.identity = e
      /\ e \in Identity /\ job[e].state # "none" /\ next # "idle"
  BY <1>1, <1>3, <1>5, Continued
<1>7. job[e] \in Jobs /\ job[e].keys # "none" /\ JobIsReserved(e)
  BY <1>1, <1>6 DEF ProvisioningInv, Tables, RunsFit, RunFits, LinksAreEarned
<1>8. row \in Jobs
  BY <1>2, <1>7 DEF Jobs
<1>9. /\ row.keys = job[e].keys /\ row.user = job[e].user
      /\ row.delegated = job[e].delegated
      /\ row.state = job[e].state \/ row.state = state
  BY <1>2, <1>7 DEF Jobs
<1>10. /\ row.state # "none" /\ row.state # "username_confirmed"
       /\ row.state = "ready" => job[e].state = "ready"
  BY <1>6, <1>7, <1>9 DEF JobIsReserved
<1>11. UNCHANGED <<limit, now, account, player, identity, challenge, session, identityAck,
                   playerAck, request, assertion, replay, accepted, final, rc, projected,
                   faults, forks>>
  BY DEF Mark, sessionVars
<1> QED BY <1>4, <1>6, <1>7, <1>8, <1>9, <1>10, <1>11, JobStep

(* A run marks the creation as pending.                                     *)
LEMMA MarkAccountCreationPendingStep ==
    ASSUME ProvisioningInv, NEW w \in Worker, MarkAccountCreationPending(w)
    PROVE  ProvisioningInv'
<1>1. run[w].pc \in KeyedSteps
  BY DEF MarkAccountCreationPending, Mark, At, KeyedSteps
<1> QED BY <1>1, MarkStep DEF MarkAccountCreationPending, JobStates, KeyedSteps

(* A run marks the account as created.                                      *)
LEMMA MarkAccountCreatedStep ==
    ASSUME ProvisioningInv, NEW w \in Worker, MarkAccountCreated(w)
    PROVE  ProvisioningInv'
<1>1. run[w].pc \in KeyedSteps
  BY DEF MarkAccountCreated, Mark, At, KeyedSteps
<1> QED BY <1>1, MarkStep DEF MarkAccountCreated, JobStates, KeyedSteps

(* A run marks the delegation as pending.                                   *)
LEMMA MarkRcDelegationPendingStep ==
    ASSUME ProvisioningInv, NEW w \in Worker, MarkRcDelegationPending(w)
    PROVE  ProvisioningInv'
<1>1. run[w].pc \in KeyedSteps
  BY DEF MarkRcDelegationPending, Mark, At, KeyedSteps
<1> QED BY <1>1, MarkStep DEF MarkRcDelegationPending, JobStates, KeyedSteps

(* A run marks the delegation as done.                                      *)
LEMMA MarkRcDelegatedStep ==
    ASSUME ProvisioningInv, NEW w \in Worker, MarkRcDelegated(w)
    PROVE  ProvisioningInv'
<1>1. PICK e : e = run[w].identity
  OBVIOUS
<1>2. PICK row : row = IF job[e].state \in MarkFrom["rc_delegated"] /\ DelegationAdmitted(e)
                       THEN [job[e] EXCEPT !.state = "rc_delegated", !.delegated = TRUE]
                       ELSE job[e]
  OBVIOUS
<1>3. PICK pc : pc = IF DelegationAdmitted(e) THEN "verify_ready" ELSE "fail"
  OBVIOUS
<1>4. PICK x : x = [run[w] EXCEPT !.pc = pc]
  OBVIOUS
<1>5. run[w].pc = "mark_delegated" /\ run[w].pc # "idle"
      /\ run' = [run EXCEPT ![w] = x]
  BY <1>1, <1>3, <1>4 DEF MarkRcDelegated, At, Continue
<1>6. /\ pc \in KeyedSteps \cup {"get_keys", "save_keys", "fail"}
      /\ pc # "idle" /\ pc # "mark_ready"
  BY <1>3 DEF KeyedSteps
<1>7. /\ x \in Runs /\ x.pc = pc /\ x.identity = e
      /\ e \in Identity /\ job[e].state # "none"
  BY <1>1, <1>4, <1>5, <1>6, Continued
<1>8. job[e] \in Jobs /\ job[e].keys # "none" /\ JobIsReserved(e) /\ job \in [Identity -> Jobs]
  BY <1>1, <1>5, <1>7
     DEF ProvisioningInv, Tables, RunsFit, RunFits, LinksAreEarned, KeyedSteps
<1>9. job' = [job EXCEPT ![e] = row]
  <2>1. CASE job[e].state \in MarkFrom["rc_delegated"] /\ DelegationAdmitted(e)
    BY <1>1, <1>2, <2>1 DEF MarkRcDelegated
  <2>2. CASE ~(job[e].state \in MarkFrom["rc_delegated"] /\ DelegationAdmitted(e))
    <3>1. job' = job /\ row = job[e]
      BY <1>1, <1>2, <2>2 DEF MarkRcDelegated
    <3> QED BY <1>8, <3>1
  <2> QED BY <2>1, <2>2
<1>10. /\ row \in Jobs /\ row.keys = job[e].keys /\ row.user = job[e].user
       /\ job[e].delegated => row.delegated
       /\ row.state = job[e].state \/ row.state = "rc_delegated"
  BY <1>2, <1>8 DEF Jobs, JobStates
<1>11. /\ row.state # "none" /\ row.state # "username_confirmed"
       /\ row.state = "ready" => job[e].state = "ready"
  BY <1>7, <1>8, <1>10 DEF JobIsReserved
<1>12. UNCHANGED <<limit, now, account, player, identity, challenge, session, identityAck,
                   playerAck, request, assertion, replay, accepted, final, rc, projected,
                   faults, forks>>
  BY DEF MarkRcDelegated, sessionVars
<1> QED BY <1>5, <1>6, <1>7, <1>8, <1>9, <1>10, <1>11, <1>12, JobStep

(* A run marks its failure for a retry.                                     *)
LEMMA MarkRetryableFailureStep ==
    ASSUME ProvisioningInv, NEW w \in Worker, MarkRetryableFailure(w)
    PROVE  ProvisioningInv'
<1>1. PICK e : e = run[w].identity
  OBVIOUS
<1>2. PICK row : row = [job[e] EXCEPT !.state = IF @ \in Finished THEN @ ELSE "retryable_failed"]
  OBVIOUS
<1>3. run[w].pc = "fail" /\ run' = [run EXCEPT ![w] = NoRun] /\ job' = [job EXCEPT ![e] = row]
  BY <1>1, <1>2 DEF MarkRetryableFailure, At
<1>4. e \in Identity /\ job[e].state # "none"
  BY <1>1, <1>3 DEF ProvisioningInv, RunsFit, RunFits
<1>5. job[e] \in Jobs
  BY <1>4 DEF ProvisioningInv, Tables
<1>6. row \in Jobs
  BY <1>2, <1>5 DEF Jobs, JobStates
<1>7. /\ row.keys = job[e].keys /\ row.user = job[e].user
      /\ row.delegated = job[e].delegated
      /\ row.state = IF job[e].state \in Finished THEN job[e].state ELSE "retryable_failed"
  BY <1>2, <1>5 DEF Jobs
<1>8. /\ row.state # "none" /\ row.state # "username_confirmed"
      /\ row.state = "ready" => job[e].state = "ready"
  BY <1>4, <1>7 DEF Finished
<1>9. NoRun.pc = "idle" /\ NoRun.pc \notin KeyedSteps
  BY DEF NoRun, KeyedSteps
<1>10. UNCHANGED <<limit, now, account, player, identity, challenge, session, identityAck,
                   playerAck, request, assertion, replay, accepted, final, rc, projected,
                   faults, forks>>
  BY DEF MarkRetryableFailure, sessionVars
<1> QED BY <1>3, <1>4, <1>6, <1>7, <1>8, <1>9, <1>10, IdleRunFits, JobStep

(* A username is confirmed and reserved.                                    *)
LEMMA ConfirmUsernameStep ==
    ASSUME ProvisioningInv, NEW r \in Request, ConfirmUsername(r)
    PROVE  ProvisioningInv'
<1> USE DEF ProvisioningInv
<1>1. PICK e : e = request[r].via
  OBVIOUS
<1>2. PICK u : u = request[r].user
  OBVIOUS
<1>3. /\ request[r].pc = "confirm" /\ request' = [request EXCEPT ![r] = Idle]
      /\ UNCHANGED <<limit, now, account, player, identity, challenge, session, identityAck,
                     playerAck, assertion, replay, accepted, final, rc, projected, run, faults,
                     forks>>
  BY DEF ConfirmUsername, Ends, ackVars, bridgeVars
<1>4. CASE ~(identity[e].status = "provisioning" /\ job[e] = NoJob /\ Free(u))
  <2>1. UNCHANGED job
    BY <1>1, <1>2, <1>4 DEF ConfirmUsername
  <2> QED BY <1>3, <2>1, IdleFits, RequestStep
<1>5. CASE identity[e].status = "provisioning" /\ job[e] = NoJob /\ Free(u)
  <2>1. PICK row : row = [NoJob EXCEPT !.state = "username_confirmed", !.user = u]
    OBVIOUS
  <2>2. Fits(request[r]) /\ job \in [Identity -> Jobs]
    BY DEF RequestsFit, Tables
  <2>3. e \in Identity /\ u \in Username
    BY <1>1, <1>2, <1>3, <2>2 DEF Fits
  <2>4. job' = [job EXCEPT ![e].state = "username_confirmed", ![e].user = u]
    BY <1>1, <1>2, <1>5 DEF ConfirmUsername
  <2>5. job' = [job EXCEPT ![e] = row]
    BY <1>5, <2>1, <2>2, <2>3, <2>4
  <2>6. /\ row \in Jobs /\ row.state = "username_confirmed" /\ row.user = u
        /\ row.keys = "none"
    BY <2>1, <2>3 DEF NoJob, Jobs, JobStates
  <2>7. job'[e] = row /\ \A f \in Identity : f # e => job'[f] = job[f]
    BY <2>2, <2>3, <2>5
  <2>8. Tables'
    BY <1>3, <2>2, <2>3, <2>5, <2>6, IdleFits DEF Tables
  <2>9. Grounds
    BY <1>3, GroundsKept
  <2>10. RequestsFit' /\ AssertionsArePlayable'
    BY <1>3, <2>9, IdleFitsNext, RequestsFitStep, AssertionsStayPlayable
  <2>11. ChallengesServeOnce'
    <3>1. \A c : Spent(c) => Spent(c)'
      BY <1>3 DEF Spent
    <3> QED BY <1>3, <3>1, IdleFits, ChallengesStep
  <2>12. OneOpenSession' /\ NewestIsKept' /\ AcceptedOnce' /\ PlayersExist'
    BY <1>3, SessionsKept, BridgeKept, PlayersKept
  <2>13. LinksAreEarned'
    <3>1. SUFFICES ASSUME NEW f \in Identity PROVE LinkIsEarned(f)' /\ JobIsReserved(f)'
      BY DEF LinksAreEarned
    <3>2. LinkIsEarned(f) /\ JobIsReserved(f)
      BY DEF LinksAreEarned
    <3>3. CASE f # e
      BY <1>3, <2>7, <3>2, <3>3 DEF LinkIsEarned, JobIsReserved, Verified
    <3>4. CASE f = e
      <4>1. LinkIsEarned(e)'
        BY <1>3, <1>5, <3>2, <3>4 DEF LinkIsEarned
      <4>2. JobIsReserved(e)'
        BY <1>3, <1>5, <2>3, <2>6, <2>7 DEF JobIsReserved
      <4> QED BY <3>4, <4>1, <4>2
    <3> QED BY <3>3, <3>4
  <2>14. NamesAreReserved'
    <3>1. \A f \in Identity : job[f].user # u
      BY <1>5 DEF Free
    <3>2. u # Nobody
      BY <2>3, NamesAssumption
    <3> QED BY <2>6, <2>7, <3>1, <3>2 DEF NamesAreReserved
  <2>15. RunsFit'
    <3>1. job[e].state = "none"
      BY <1>5 DEF NoJob
    <3>2. SUFFICES ASSUME NEW w \in Worker PROVE RunFits(run[w])'
      BY DEF RunsFit
    <3>3. PICK x : x = run[w]
      OBVIOUS
    <3>4. RunFits(x)
      BY <3>3 DEF RunsFit
    <3>5. RunFits(x)'
      <4>1. CASE x.pc = "idle"
        BY <3>4, <4>1 DEF RunFits, KeyedSteps
      <4>2. CASE x.pc # "idle"
        <5>1. x.identity \in Identity /\ job'[x.identity] = job[x.identity]
          BY <2>7, <3>1, <3>4, <4>2 DEF RunFits
        <5> QED BY <1>3, <3>4, <4>2, <5>1 DEF RunFits, Verified
      <4> QED BY <4>1, <4>2
    <3> QED BY <1>3, <3>3, <3>5
  <2> QED BY <2>8, <2>10, <2>11, <2>12, <2>13, <2>14, <2>15
<1> QED BY <1>4, <1>5

(* A run links the player in one transaction.                               *)
LEMMA MarkReadyStep ==
    ASSUME ProvisioningInv, NEW w \in Worker, MarkReady(w)
    PROVE  ProvisioningInv'
<1> USE DEF ProvisioningInv
<1>1. PICK e : e = run[w].identity
  OBVIOUS
<1>2. PICK u : u = job[e].user
  OBVIOUS
<1>3. /\ run[w].pc = "mark_ready" /\ run[w].pc # "idle"
      /\ UNCHANGED <<limit, now, account, challenge, session, playerAck, request, assertion,
                     replay, accepted, final, rc, projected, faults, forks>>
  BY DEF MarkReady, At, bridgeVars
<1>4. RunFits(run[w]) /\ run[w].pc \in KeyedSteps
  BY <1>3 DEF RunsFit, KeyedSteps
<1>5. e \in Identity /\ job[e].state # "none" /\ job[e].keys # "none" /\ Verified(u)
  BY <1>1, <1>2, <1>3, <1>4 DEF RunFits
<1>6. u \in Username /\ LinkIsEarned(e) /\ JobIsReserved(e)
  BY <1>2, <1>5 DEF LinksAreEarned, JobIsReserved
<1>7. PICK x : x = IF job[e].state = "ready" \/ ReadyAdmitted(e)
                   THEN NoRun ELSE [run[w] EXCEPT !.pc = "fail"]
  OBVIOUS
<1>8. run' = [run EXCEPT ![w] = x]
  <2>1. CASE job[e].state = "ready" \/ ReadyAdmitted(e)
    BY <1>1, <1>7, <2>1 DEF MarkReady
  <2>2. CASE ~(job[e].state = "ready" \/ ReadyAdmitted(e))
    BY <1>1, <1>7, <2>2 DEF MarkReady, Continue
  <2> QED BY <2>1, <2>2
<1>9. x \in Runs /\ RunFits(x)
  <2>1. CASE job[e].state = "ready" \/ ReadyAdmitted(e)
    BY <1>7, <2>1, IdleRunFits
  <2>2. CASE ~(job[e].state = "ready" \/ ReadyAdmitted(e))
    <3>1. x = [run[w] EXCEPT !.pc = "fail"]
      BY <1>7, <2>2
    <3>2. /\ x \in Runs /\ x.pc = "fail" /\ x.identity = run[w].identity
          /\ x.identity \in Identity /\ job[x.identity].state # "none"
      BY <1>3, <3>1, Continued
    <3> QED BY <3>2 DEF RunFits, KeyedSteps
  <2> QED BY <2>1, <2>2
<1>10. CASE ~(job[e].state # "ready" /\ ReadyAdmitted(e))
  <2>1. UNCHANGED <<player, job, identity, identityAck>>
    BY <1>1, <1>10 DEF MarkReady
  <2>2. faults' \in Nat /\ faults' <= limit.faults
    BY <1>3 DEF Tables
  <2> QED BY <1>3, <1>8, <1>9, <2>1, <2>2, RunStep
<1>11. CASE job[e].state # "ready" /\ ReadyAdmitted(e)
  <2>1. LinkPlayer(e) /\ x = NoRun
    BY <1>1, <1>7, <1>11 DEF MarkReady
  <2>2. PICK control : control = Upserted(u, "platform_custodial")
    OBVIOUS
  <2>3. PICK row : row = [job[e] EXCEPT !.keys = "active",
                            !.state = IF @ \in ReadyFrom THEN "ready" ELSE @]
    OBVIOUS
  <2>4. player' = [player EXCEPT ![u] = control] /\ job' = [job EXCEPT ![e] = row]
    BY <1>2, <2>1, <2>2, <2>3 DEF LinkPlayer
  <2>5. /\ player \in [Username -> Control] /\ job \in [Identity -> Jobs]
        /\ identity \in [Identity -> Identities]
        /\ identityAck \in [Identity -> {"none", "pending", "linked"}]
    BY DEF Tables
  <2>6. /\ control \in Control /\ control # "none"
        /\ player[u] # "none" => control = player[u]
        /\ player[u] = "none" => control = "platform_custodial"
    BY <1>6, <2>2, <2>5 DEF Upserted, Control
  <2>7. /\ player' \in [Username -> Control] /\ player'[u] = control
        /\ \A v \in Username : player[v] # "none" => player'[v] = player[v]
        /\ \A v \in Username : v # u => player'[v] = player[v]
    BY <1>6, <2>4, <2>5, <2>6
  <2>8. job[e] \in Jobs
    BY <1>5, <2>5
  <2>9. /\ row \in Jobs /\ row.keys = "active" /\ row.user = u
        /\ row.delegated = job[e].delegated
        /\ row.state = IF job[e].state \in ReadyFrom THEN "ready" ELSE job[e].state
    BY <1>2, <2>3, <2>8 DEF Jobs, JobStates
  <2>10. /\ job' \in [Identity -> Jobs] /\ job'[e] = row
         /\ \A f \in Identity : f # e => job'[f] = job[f]
    BY <1>5, <2>4, <2>5, <2>9
  <2>11. identity[e].status \in {"provisioning", "linked"} /\ identity[e] \in Identities
    <3>1. identity[e] \in Identities
      BY <1>5, <2>5
    <3>2. identity[e].status # "absent"
      BY <1>5, <1>6 DEF JobIsReserved
    <3> QED BY <3>1, <3>2 DEF Identities
  <2>12. PICK link : link = IF identity[e].status = "provisioning"
                            THEN [identity[e] EXCEPT !.status = "linked", !.player = u]
                            ELSE identity[e]
    OBVIOUS
  <2>13. identity' = [identity EXCEPT ![e] = link]
    <3>1. CASE identity[e].status = "provisioning"
      BY <1>2, <2>1, <2>12, <3>1 DEF LinkPlayer
    <3>2. CASE identity[e].status # "provisioning"
      <4>1. identity' = identity /\ link = identity[e]
        BY <2>1, <2>12, <3>2 DEF LinkPlayer
      <4> QED BY <2>5, <4>1
    <3> QED BY <3>1, <3>2
  <2>14. link \in Identities /\ link.status = "linked" /\ link.player = u
    <3>1. CASE identity[e].status = "provisioning"
      BY <1>6, <2>11, <2>12, <3>1 DEF Identities
    <3>2. CASE identity[e].status # "provisioning"
      <4>1. identity[e].status = "linked" /\ identity[e].player = u
        BY <1>2, <1>6, <2>11, <3>2 DEF LinkIsEarned
      <4> QED BY <2>11, <2>12, <3>2, <4>1
    <3> QED BY <3>1, <3>2
  <2>15. /\ identity' \in [Identity -> Identities] /\ identity'[e] = link
         /\ \A f \in Identity : f # e => identity'[f] = identity[f]
    BY <1>5, <2>5, <2>13, <2>14
  <2>16. /\ identityAck' \in [Identity -> {"none", "pending", "linked"}]
         /\ \A f \in Identity : identityAck[f] = "linked" => identityAck'[f] = "linked"
    BY <1>5, <2>1, <2>5 DEF LinkPlayer
  <2>17. Tables'
    BY <1>3, <1>8, <1>9, <2>7, <2>10, <2>15, <2>16 DEF Tables
  <2>18. \A f \in Identity : identity[f].player \in Username =>
           identity'[f].player = identity[f].player
    <3>1. identity[e].player \in Username => identity[e].player = u
      BY <1>2, <1>6, NamesAssumption DEF LinkIsEarned
    <3> QED BY <2>14, <2>15, <3>1
  <2>19. Grounds
    <3>1. \A s : Playable(s) => Playable(s)'
      BY <1>3, <2>16, <2>18, PlayableStays
    <3> QED BY <1>3, <2>7, <3>1 DEF Grounds
  <2>20. RequestsFit' /\ AssertionsArePlayable'
    BY <1>3, <2>19, RequestsFitStay, AssertionsStayPlayable
  <2>21. OneOpenSession' /\ NewestIsKept' /\ ChallengesServeOnce' /\ AcceptedOnce'
    BY <1>3, SessionsKept, ChallengesKept, BridgeKept
  <2>22. PlayersExist'
    <3>1. \A s \in DOMAIN session : session[s].user \in Username
      BY SessionRows
    <3>2. \A s \in DOMAIN session' : player'[session'[s].user] # "none"
      BY <1>3, <2>7, <3>1 DEF PlayersExist
    <3>3. \A v \in Username :
            forks' = 0 /\ player'[v] = "external_self_custodial" => account'[v] = "external"
      BY <1>3, <2>6, <2>7 DEF PlayersExist
    <3>4. ASSUME NEW v \in Username
          PROVE  /\ playerAck'[v] => player'[v] # "none"
                 /\ player'[v] = "platform_custodial" =>
                      \E f \in Identity :
                        identity'[f].status = "linked" /\ identity'[f].player = v
      <4>1. CASE v = u
        BY <1>3, <1>5, <2>6, <2>7, <2>14, <2>15, <4>1
      <4>2. CASE v # u
        <5>1. player'[v] = player[v]
          BY <2>7, <4>2
        <5>2. ASSUME NEW f \in Identity, identity[f].status = "linked",
                     identity[f].player = v
              PROVE  identity'[f].status = "linked" /\ identity'[f].player = v
          BY <2>14, <2>15, <2>18, <5>2
        <5> QED BY <1>3, <5>1, <5>2 DEF PlayersExist, CustodyIsLinked
      <4> QED BY <4>1, <4>2
    <3> QED BY <3>2, <3>3, <3>4 DEF PlayersExist, CustodyIsLinked
  <2>23. LinksAreEarned'
    <3>1. SUFFICES ASSUME NEW f \in Identity PROVE LinkIsEarned(f)' /\ JobIsReserved(f)'
      BY DEF LinksAreEarned
    <3>2. LinkIsEarned(f) /\ JobIsReserved(f)
      BY DEF LinksAreEarned
    <3>3. CASE f # e
      <4>1. identity'[f] = identity[f] /\ job'[f] = job[f]
        BY <2>10, <2>15, <3>3
      <4>2. LinkIsEarned(f)'
        BY <1>3, <2>7, <3>2, <4>1 DEF LinkIsEarned, Verified
      <4>3. JobIsReserved(f)'
        BY <3>2, <4>1 DEF JobIsReserved
      <4> QED BY <4>2, <4>3
    <3>4. CASE f = e
      <4>1. LinkIsEarned(e)'
        BY <1>3, <1>5, <1>6, <2>6, <2>7, <2>9, <2>10, <2>14, <2>15 DEF LinkIsEarned, Verified
      <4>2. row.state # "none" /\ row.state # "username_confirmed"
        BY <1>5, <1>6, <2>9 DEF JobIsReserved
      <4>3. row.state = "ready" => row.delegated
        BY <1>11, <2>9 DEF ReadyAdmitted
      <4>4. JobIsReserved(e)'
        BY <1>6, <2>9, <2>10, <2>14, <2>15, <4>2, <4>3 DEF JobIsReserved
      <4> QED BY <3>4, <4>1, <4>4
    <3> QED BY <3>3, <3>4
  <2>24. NamesAreReserved'
    BY <1>2, <2>9, <2>10 DEF NamesAreReserved
  <2>25. RunsFit'
    <3>1. SUFFICES ASSUME NEW v \in Worker PROVE RunFits(run[v])'
      BY DEF RunsFit
    <3>2. PICK y : y = run'[v]
      OBVIOUS
    <3>3. RunFits(y)
      BY <1>8, <1>9, <3>2 DEF Tables, RunsFit
    <3>4. \A f \in Identity :
            /\ job[f].state # "none" => job'[f].state # "none"
            /\ job[f].keys # "none" => job'[f].keys # "none"
            /\ job'[f].user = job[f].user
      BY <1>2, <1>5, <2>9, <2>10
    <3>5. RunFits(y)'
      BY <1>3, <3>3, <3>4 DEF RunFits, Verified, KeyedSteps
    <3> QED BY <3>2, <3>5
  <2> QED BY <2>17, <2>20, <2>21, <2>22, <2>23, <2>24, <2>25
<1> QED BY <1>10, <1>11

-----------------------------------------------------------------------------
(* The theorems.                                                           *)

(* Every step of IdentitySessions keeps the invariant.                      *)
LEMMA SessionsStep ==
    ASSUME ProvisioningInv, SessionsNext, UNCHANGED provisioningVars
    PROVE  ProvisioningInv'
<1>1. CASE Tick
  BY <1>1, TickStep
<1>2. ASSUME NEW u \in Username, CreateHiveChallenge(u) PROVE ProvisioningInv'
  BY <1>2, CreateHiveChallengeStep
<1>3. ASSUME NEW r \in Request, NEW c \in DOMAIN challenge, ConsumeHiveChallenge(r, c)
      PROVE  ProvisioningInv'
  BY <1>3, ConsumeHiveChallengeStep
<1>4. ASSUME NEW r \in Request, NEW e \in limit.identities, ExchangeGoogle(r, e)
      PROVE  ProvisioningInv'
  BY <1>4, ExchangeGoogleStep
<1>5. ASSUME NEW r \in Request,
             \/ VerifyPostingAuthority(r) \/ FindOrCreateDirectHivePlayer(r)
             \/ UpsertGoogleIdentity(r) \/ SupersedeSessions(r) \/ InsertSession(r)
             \/ CreateBridgeAssertion(r) \/ Consume(r) \/ Abandon(r)
      PROVE  ProvisioningInv'
  BY <1>5, VerifyPostingAuthorityStep, FindOrCreateDirectHivePlayerStep,
     UpsertGoogleIdentityStep, SupersedeSessionsStep, InsertSessionStep,
     CreateBridgeAssertionStep, ConsumeStep, AbandonStep
<1>6. ASSUME NEW r \in Request, NEW s \in DOMAIN session, RequestRealtime(r, s)
      PROVE  ProvisioningInv'
  BY <1>6, RequestRealtimeStep
<1>7. ASSUME NEW s \in DOMAIN session,
             \/ RevokeSession(s) \/ AcknowledgeAsPlayer(s)
             \/ \E g \in 1..session[s].token : Refresh(s, g)
      PROVE  ProvisioningInv'
  BY <1>7, RevokeSessionStep, AcknowledgeAsPlayerStep, RefreshStep
<1>8. ASSUME NEW e \in Identity, AcknowledgeAsIdentity(e) PROVE ProvisioningInv'
  BY <1>8, AcknowledgeAsIdentityStep
<1>9. ASSUME NEW r \in Request, NEW n \in DOMAIN assertion, BeforeAuthenticateCustom(r, n)
      PROVE  ProvisioningInv'
  BY <1>9, BeforeAuthenticateCustomStep
<1> QED BY <1>1, <1>2, <1>3, <1>4, <1>5, <1>6, <1>7, <1>8, <1>9 DEF SessionsNext

(* Every step of a run keeps the invariant.                                 *)
LEMMA ProcessStep ==
    ASSUME ProvisioningInv, NEW w \in Worker, Process(w)
    PROVE  ProvisioningInv'
<1>1. CASE \E e \in Identity : GetJob(w, e)
  BY <1>1, GetJobStep
<1>2. CASE GetKeys(w) \/ SaveKeys(w) \/ CreateClaimedAccount(w)
  BY <1>2, GetKeysStep, SaveKeysStep, CreateClaimedAccountStep
<1>3. CASE \/ MarkAccountCreationPending(w) \/ VerifyAccount(w) \/ MarkAccountCreated(w)
           \/ MarkRcDelegationPending(w) \/ DelegateInitialResourceCredits(w)
  BY <1>3, MarkAccountCreationPendingStep, VerifyAccountStep, MarkAccountCreatedStep,
     MarkRcDelegationPendingStep, DelegateInitialResourceCreditsStep
<1>4. CASE \/ MarkRcDelegated(w) \/ VerifyReady(w) \/ MarkReady(w)
           \/ MarkRetryableFailure(w)
  BY <1>4, MarkRcDelegatedStep, VerifyReadyStep, MarkReadyStep, MarkRetryableFailureStep
<1> QED BY <1>1, <1>2, <1>3, <1>4 DEF Process

(* Nothing changes.                                                         *)
LEMMA StutteringStep ==
    ASSUME ProvisioningInv, UNCHANGED allVars
    PROVE  ProvisioningInv'
<1> USE DEF ProvisioningInv, allVars, sessionVars, provisioningVars
<1>1. Tables'
  BY DEF Tables
<1>2. Grounds
  BY GroundsKept
<1>3. RequestsFit' /\ AssertionsArePlayable'
  BY <1>2, RequestsFitStay, AssertionsStayPlayable
<1>4. OneOpenSession' /\ NewestIsKept' /\ ChallengesServeOnce' /\ AcceptedOnce'
      /\ PlayersExist'
  BY SessionsKept, ChallengesKept, BridgeKept, PlayersKept
<1>5. LinksAreEarned' /\ NamesAreReserved' /\ RunsFit'
  BY LinksKept, RunsKept
<1> QED BY <1>1, <1>3, <1>4, <1>5

(* The tables, requests and runs of the identity schema stay consistent     *)
(* with one another, whatever logins, refreshes, acknowledgments, bridge    *)
(* calls, provisioning runs, faults and forks interleave.                   *)
THEOREM IdentityInvariant == Spec => []ProvisioningInv
<1>1. Init => ProvisioningInv
  BY InitialInvariant
<1>2. ProvisioningInv /\ [Next]_allVars => ProvisioningInv'
  <2>1. SUFFICES ASSUME ProvisioningInv, [Next]_allVars PROVE ProvisioningInv'
    OBVIOUS
  <2>2. CASE SessionsNext /\ UNCHANGED provisioningVars
    BY <2>1, <2>2, SessionsStep
  <2>3. ASSUME NEW r \in Request, NEW e \in Identity, NEW u \in Username,
               CheckUsername(r, e, u)
        PROVE  ProvisioningInv'
    BY <2>1, <2>3, CheckUsernameStep
  <2>4. ASSUME NEW r \in Request, ConfirmUsername(r) PROVE ProvisioningInv'
    BY <2>1, <2>4, ConfirmUsernameStep
  <2>5. ASSUME NEW u \in Username,
               \/ RegisteredElsewhere(u) \/ BecomesIrreversible(u) \/ Fork(u)
               \/ RcDelegationProjected(u)
        PROVE  ProvisioningInv'
    BY <2>1, <2>5, RegisteredElsewhereStep, BecomesIrreversibleStep, ForkStep,
       RcDelegationProjectedStep
  <2>6. ASSUME NEW w \in Worker, Process(w) \/ CallFails(w) \/ RunLost(w)
        PROVE  ProvisioningInv'
    BY <2>1, <2>6, ProcessStep, CallFailsStep, RunLostStep
  <2>7. CASE UNCHANGED allVars
    BY <2>1, <2>7, StutteringStep
  <2> QED BY <2>1, <2>2, <2>3, <2>4, <2>5, <2>6, <2>7 DEF Next
<1> QED BY <1>1, <1>2, PTL DEF Spec

(* Every row, request and run has the shape of its type; the clock and the  *)
(* counters of faults and forks stay within the scenario.                   *)
THEOREM IdentityTypeSafe == Spec => []TypeOK
<1>1. ProvisioningInv => TypeOK
  <2>1. SUFFICES ASSUME ProvisioningInv PROVE TypeOK
    OBVIOUS
  <2>2. limit.time \in Nat /\ limit.faults \in Nat /\ limit.forks \in Nat
    BY <2>1, ScenariosAssumption, FaultsAssumption DEF ProvisioningInv, Tables
  <2>3. now \in 0..limit.time /\ faults \in 0..limit.faults /\ forks \in 0..limit.forks
    BY <2>1, <2>2 DEF ProvisioningInv, Tables
  <2>4. ASSUME NEW e \in Identity
        PROVE  /\ identity[e].status \in {"absent", "provisioning", "linked"}
               /\ identity[e].status = "linked" <=> identity[e].player \in Username
               /\ job[e].state \in JobStates
               /\ job[e].state \in {"none", "username_confirmed"} => job[e].keys = "none"
    <3>1. identity[e] \in Identities /\ job[e] \in Jobs
      BY <2>1 DEF ProvisioningInv, Tables
    <3>2. identity[e].status \in {"absent", "provisioning", "linked"}
          /\ job[e].state \in JobStates
      BY <3>1 DEF Identities, Jobs
    <3>3. LinkIsEarned(e) /\ JobIsReserved(e)
      BY <2>1 DEF ProvisioningInv, LinksAreEarned
    <3>4. identity[e].status = "linked" <=> identity[e].player \in Username
      BY <3>3, NamesAssumption DEF LinkIsEarned
    <3>5. job[e].state \in {"none", "username_confirmed"} => job[e].keys = "none"
      BY <3>3 DEF JobIsReserved
    <3> QED BY <3>2, <3>4, <3>5
  <2>5. \A s \in DOMAIN session : player[session[s].user] # "none"
    BY <2>1 DEF ProvisioningInv, PlayersExist
  <2>6. /\ account \in [Username -> {"none", "external", "ours"}]
        /\ player \in [Username -> {"none", "external_self_custodial", "platform_custodial"}]
        /\ replay \subseteq DOMAIN assertion /\ projected \subseteq Username
    BY <2>1 DEF ProvisioningInv, Tables, Control
  <2> QED BY <2>3, <2>4, <2>5, <2>6 DEF TypeOK
<1> QED BY <1>1, IdentityInvariant, PTL

(* At most one refresh token of a player would be honoured: the partial     *)
(* unique index meets every interleaving of createSession's two statements, *)
(* and rotateSession retires the token it replaces.                         *)
THEOREM OneCredentialLives == Spec => []OneLiveCredential
<1>1. ProvisioningInv => OneLiveCredential
  <2>1. SUFFICES ASSUME ProvisioningInv, NEW u \in Username
                 PROVE  Cardinality({c \in (DOMAIN session) \X (1..limit.refreshes + 1) :
                          session[c[1]].user = u /\ Honoured(c[1], c[2])}) <= 1
    BY DEF OneLiveCredential
  <2> DEFINE Live == {c \in (DOMAIN session) \X (1..limit.refreshes + 1) :
                        session[c[1]].user = u /\ Honoured(c[1], c[2])}
  <2>2. ASSUME NEW c \in Live, NEW d \in Live PROVE c = d
    <3>1. /\ c[1] \in DOMAIN session /\ d[1] \in DOMAIN session
          /\ c = <<c[1], c[2]>> /\ d = <<d[1], d[2]>>
          /\ session[c[1]].user = session[d[1]].user
          /\ IsOpen(c[1]) /\ c[2] = session[c[1]].token
          /\ IsOpen(d[1]) /\ d[2] = session[d[1]].token
      BY <2>2 DEF Honoured
    <3>2. c[1] = d[1]
      BY <2>1, <3>1 DEF ProvisioningInv, OneOpenSession
    <3> QED BY <3>1, <3>2
  <2>3. Cardinality(Live) <= 1
    <3> HIDE DEF Live
    <3>1. CASE Live = {}
      BY <3>1, FS_EmptySet
    <3>2. CASE Live # {}
      <4>1. PICK c \in Live : TRUE
        BY <3>2
      <4>2. Live = {c}
        BY <2>2, <4>1
      <4>3. Cardinality(Live) = 1
        BY <4>2, FS_Singleton
      <4> QED BY <4>3
    <3> QED BY <3>1, <3>2
  <2> QED BY <2>3
<1> QED BY <1>1, IdentityInvariant, PTL

(* A login begun earlier and committed later never displaces the session of *)
(* a later one (chk_auth_session_revoked_time).                             *)
THEOREM NewestLoginAlwaysWins == Spec => []NewestLoginWins
<1>1. ProvisioningInv => NewestLoginWins
  <2>1. SUFFICES ASSUME ProvisioningInv, NEW s \in DOMAIN session, NEW t \in DOMAIN session,
                        session[s].user = session[t].user, IsOpen(s),
                        session[t].issuedAt > session[s].issuedAt
                 PROVE  \E l \in DOMAIN session :
                          /\ session[l].user = session[s].user
                          /\ session[l].revoked = "player_logout"
                          /\ session[l].issuedAt >= session[t].issuedAt
    BY DEF NewestLoginWins
  <2>2. PICK l \in DOMAIN session :
          /\ session[l].user = session[t].user
          /\ session[l].issuedAt >= session[t].issuedAt
          /\ session[l].revoked # "superseded_login"
    BY <2>1 DEF ProvisioningInv, NewestIsKept
  <2>3. /\ session[l] \in Sessions /\ session[l].issuedAt \in Nat
        /\ session[s].issuedAt \in Nat /\ session[t].issuedAt \in Nat
    BY <2>1, SessionRows DEF ProvisioningInv
  <2>4. l # s
    BY <2>1, <2>2, <2>3
  <2>5. session[l].revoked # "no"
    BY <2>1, <2>2, <2>4 DEF ProvisioningInv, OneOpenSession, IsOpen
  <2>6. session[l].revoked = "player_logout"
    BY <2>2, <2>3, <2>5 DEF Sessions
  <2> QED BY <2>1, <2>2, <2>6
<1> QED BY <1>1, IdentityInvariant, PTL

(* A login challenge opens at most one session.  Nakama accepts a bridge    *)
(* assertion at most once before it expires, whatever handlers read the     *)
(* clock earlier and write later, and only for a player who has             *)
(* acknowledged.                                                            *)
THEOREM CredentialsServeOnce == Spec => []CredentialsAreSingleUse
<1>1. ProvisioningInv => CredentialsAreSingleUse
  <2>1. SUFFICES ASSUME ProvisioningInv PROVE CredentialsAreSingleUse
    OBVIOUS
  <2>2. \A s, t \in DOMAIN session :
          s # t /\ session[s].via \notin Identity => session[s].via # session[t].via
    BY <2>1 DEF ProvisioningInv, ChallengesServeOnce
  <2>3. ASSUME NEW n \in DOMAIN assertion
        PROVE  /\ accepted[n] > 1 => assertion[n].until <= now
               /\ Acknowledged(session[assertion[n].session].user)
    <3>1. n \in 1..limit.assertions
      BY TableRows, <2>1, ScenariosAssumption DEF ProvisioningInv, Tables
    <3>2. accepted[n] \in Nat
      BY <2>1, <3>1 DEF ProvisioningInv, Tables
    <3>3. accepted[n] > 0 => accepted[n] = 1 \/ assertion[n].until <= now
      BY <2>1 DEF ProvisioningInv, AcceptedOnce
    <3>4. Acknowledged(session[assertion[n].session].user)
      BY <2>1 DEF ProvisioningInv, AssertionsArePlayable, Playable
    <3> QED BY <3>2, <3>3, <3>4
  <2> QED BY <2>2, <2>3 DEF CredentialsAreSingleUse
<1> QED BY <1>1, IdentityInvariant, PTL

(* A Google identity is linked only to an account of its own that carries   *)
(* its keys, is irreversible and has its credits, and without a fork the    *)
(* player is in platform custody: overlapping runs of process, faults and   *)
(* retries cannot link anything else.                                       *)
THEOREM LinksAreVerified == Spec => []LinkedAccountsAreVerified
<1>1. ProvisioningInv => LinkedAccountsAreVerified
  <2>1. SUFFICES ASSUME ProvisioningInv PROVE LinkedAccountsAreVerified
    OBVIOUS
  <2>2. ASSUME NEW e \in Identity, identity[e].status = "linked", NEW u,
               u = identity[e].player
        PROVE  /\ account[u] = "ours" /\ final[u] /\ rc[u]
               /\ job[e].user = u /\ job[e].keys = "active"
               /\ \A f \in Identity \ {e} : identity[f].player # u
               /\ forks = 0 => player[u] = "platform_custodial"
    <3>1. LinkIsEarned(e)
      BY <2>1 DEF ProvisioningInv, LinksAreEarned
    <3>2. /\ u \in Username /\ player[u] # "none" /\ account[u] = "ours" /\ final[u]
          /\ rc[u] /\ job[e].user = u /\ job[e].keys = "active"
      BY <2>2, <3>1 DEF LinkIsEarned, Verified
    <3>3. ASSUME NEW f \in Identity \ {e}, identity[f].player = u PROVE FALSE
      <4>1. LinkIsEarned(f)
        BY <2>1 DEF ProvisioningInv, LinksAreEarned
      <4>2. u # Nobody
        BY <3>2, NamesAssumption
      <4>3. job[f].user = u
        BY <3>3, <4>1, <4>2 DEF LinkIsEarned
      <4> QED BY <2>1, <3>2, <3>3, <4>2, <4>3 DEF ProvisioningInv, NamesAreReserved
    <3>4. player[u] \in Control
      BY <2>1, <3>2 DEF ProvisioningInv, Tables
    <3>5. forks = 0 => player[u] # "external_self_custodial"
      BY <2>1, <3>2 DEF ProvisioningInv, PlayersExist
    <3> QED BY <3>2, <3>3, <3>4, <3>5 DEF Control
  <2>3. ASSUME NEW e \in Identity, job[e].state = "ready"
        PROVE  identity[e].status = "linked" /\ job[e].delegated
    BY <2>1, <2>3 DEF ProvisioningInv, LinksAreEarned, JobIsReserved
  <2> QED BY <2>2, <2>3 DEF LinkedAccountsAreVerified
<1> QED BY <1>1, IdentityInvariant, PTL

(* While no fork has dropped an account, nobody has acknowledged for a name *)
(* that the platform registered and has not linked, so markReady never      *)
(* meets an acknowledgment the player already has.                          *)
THEOREM NamesCanBeLinked == Spec => []AcknowledgmentsLetNamesLink
<1>1. ProvisioningInv => AcknowledgmentsLetNamesLink
  <2>1. SUFFICES ASSUME ProvisioningInv, forks = 0, NEW e \in Identity,
                        job[e].user # Nobody, account[job[e].user] = "ours",
                        identity[e].status # "linked", Acknowledged(job[e].user)
                 PROVE  FALSE
    BY DEF AcknowledgmentsLetNamesLink
  <2>2. PICK u : u = job[e].user
    OBVIOUS
  <2>3. u \in Username
    <3>1. job[e].state = "none" => job[e] = NoJob
      BY <2>1 DEF ProvisioningInv, LinksAreEarned, JobIsReserved
    <3>2. job[e].state # "none" => job[e].user \in Username
      BY <2>1 DEF ProvisioningInv, LinksAreEarned, JobIsReserved
    <3> QED BY <2>1, <2>2, <3>1, <3>2 DEF NoJob
  <2>4. \A f \in Identity : ~(identity[f].status = "linked" /\ identity[f].player = u)
    <3>1. SUFFICES ASSUME NEW f \in Identity, identity[f].status = "linked",
                          identity[f].player = u
                   PROVE  FALSE
      OBVIOUS
    <3>2. job[f].user = u
      BY <2>1, <3>1 DEF ProvisioningInv, LinksAreEarned, LinkIsEarned
    <3>3. f = e
      BY <2>1, <2>2, <3>2 DEF ProvisioningInv, NamesAreReserved
    <3> QED BY <2>1, <3>1, <3>3
  <2>5. player[u] # "none"
    <3>1. playerAck[u] \/ \E f \in Identity : identity[f].player = u
      BY <2>1, <2>2 DEF Acknowledged
    <3>2. ASSUME NEW f \in Identity, identity[f].player = u PROVE identity[f].status = "linked"
      BY <2>1, <2>3, <3>2, NamesAssumption DEF ProvisioningInv, LinksAreEarned, LinkIsEarned
    <3> QED BY <2>1, <2>3, <2>4, <3>1, <3>2 DEF ProvisioningInv, PlayersExist, CustodyIsLinked
  <2>6. player[u] # "external_self_custodial"
    BY <2>1, <2>2, <2>3 DEF ProvisioningInv, PlayersExist
  <2>7. player[u] # "platform_custodial"
    BY <2>1, <2>3, <2>4 DEF ProvisioningInv, PlayersExist, CustodyIsLinked
  <2>8. player[u] \in Control
    BY <2>1, <2>3 DEF ProvisioningInv, Tables
  <2> QED BY <2>5, <2>6, <2>7, <2>8 DEF Control
<1> QED BY <1>1, IdentityInvariant, PTL
=============================================================================

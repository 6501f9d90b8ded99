----------------------------- MODULE LobbyStore -----------------------------
(***************************************************************************)
(* The durable half of the lobby: runtime/nakama/lobby_store.go and the    *)
(* store methods of round_scaffold.go.  Every method is one SERIALIZABLE   *)
(* PostgreSQL transaction that either commits as a whole or leaves nothing *)
(* behind, so every method is one action; a call that is refused or rolled *)
(* back changes nothing and needs no action.                               *)
(*                                                                         *)
(* Version-fenced commands carry the lobby version of the last snapshot    *)
(* their caller was given (expected_lobby_version), kept in `seen'.        *)
(***************************************************************************)
EXTENDS Integers, FiniteSets, Sequences

CONSTANTS
    Lobby,          \* lobby UUIDs
    Player,         \* application player UUIDs
    Map,            \* map version UUIDs
    PublishedMap,   \* those whose content.map_version.status is published
    NoPlayer, NoMap, NoLobby,
    Capacity,       \* the max_players values a lobby may be created with
    Patches,        \* the configurations hosts try to set
    MaxVersion,     \* bound on row_version, for each lobby
    MaxClock,       \* bound on the clocks
    Ahead, Behind   \* how far a transaction's now() can be off the clock of Nakama

ASSUME ConstantsAssumption ==
    /\ IsFiniteSet(Player)
    /\ PublishedMap \subseteq Map
    /\ NoPlayer \notin Player /\ NoMap \notin Map /\ NoLobby \notin Lobby
    /\ Capacity \subseteq Nat /\ \A c \in Capacity : 2 <= c /\ c <= 10
    /\ MaxVersion \in [Lobby -> Nat] /\ MaxClock \in Nat
    /\ Ahead \in Nat /\ Behind \in Nat

VARIABLES
    lobby,       \* game.lobby, one row per lobby
    membership,  \* players with an open game.lobby_membership row
    joinedAt,    \* joined_at of that row, 0 where there is none
    nominated,   \* players whose open row has hunter_nominated
    assigned,    \* open game.lobby_host_assignment rows
    config,      \* game.lobby_configuration
    rounds,      \* status of the game.game_round rows, by sequence_number
    seen,        \* per player, the last snapshot a response carried
    now          \* the clock of the Nakama process, time.Now

tables == <<lobby, membership, joinedAt, nominated, assigned, config, rounds>>
vars == <<tables, seen, now>>

-----------------------------------------------------------------------------
(* Rows and values.                                                        *)

LobbyStatus == {"absent", "open", "closed"}
HostReason == {"creator", "host_left", "host_disconnected"}
RoundStatus == {"preparing", "hiding", "hunting", "aborted"}
Mode == {"casual", "infection"}

LobbyRow == [status: LobbyStatus, host: Player \cup {NoPlayer},
             version: Nat, capacity: Nat]
Assignment == [host: Player, reason: HostReason]
Configuration == [mode: Mode, map: Map \cup {NoMap}, hunters: {1, 2},
                  threshold: Nat]

NoRow == [status |-> "absent", host |-> NoPlayer, version |-> 0, capacity |-> 0]
NoSnapshot == [lobby |-> NoLobby, version |-> 0]

Min2(a, b) == IF a <= b THEN a ELSE b
MutantUncappedThreshold(capacity) ==
    [mode |-> "casual", map |-> NoMap, hunters |-> 1, threshold |-> 7]
DefaultConfiguration(capacity) ==
    [mode |-> "casual", map |-> NoMap, hunters |-> 1, threshold |-> Min2(7, capacity)]

IsOpen(l) == lobby[l].status = "open"
ActiveRounds(l) == {i \in DOMAIN rounds[l] : rounds[l][i] # "aborted"}
activeRoundExists(l) == ActiveRounds(l) # {}
IsOpenMember(l, p) == IsOpen(l) /\ p \in membership[l]

(* What loadLobbySnapshot returns, as far as any caller can tell two        *)
(* snapshots apart.                                                        *)
Contents(l) ==
    [host |-> lobby[l].host, closed |-> ~IsOpen(l), members |-> membership[l],
     nominees |-> nominated[l], config |-> config[l]]
Snapshot(l) ==
    [lobby |-> l, version |-> lobby[l].version, contents |-> Contents(l)]

Snapshots ==
    [lobby: Lobby, version: Nat,
     contents: [host: Player \cup {NoPlayer}, closed: BOOLEAN,
                members: SUBSET Player, nominees: SUBSET Player,
                config: Configuration]]

Init ==
    /\ lobby = [l \in Lobby |-> NoRow]
    /\ membership = [l \in Lobby |-> {}]
    /\ joinedAt = [l \in Lobby |-> [p \in Player |-> 0]]
    /\ nominated = [l \in Lobby |-> {}]
    /\ assigned = [l \in Lobby |-> {}]
    /\ config = [l \in Lobby |-> DefaultConfiguration(2)]
    /\ rounds = [l \in Lobby |-> <<>>]
    /\ seen = [p \in Player |-> NoSnapshot]
    /\ now = 1

-----------------------------------------------------------------------------
(* Transactions.                                                           *)

(* UPDATE game.lobby SET row_version = row_version + 1, which every method   *)
(* that writes to a lobby states for itself.                               *)
MutantUnbumpedRow(l) == lobby[l]
BumpedRow(l) == [lobby[l] EXCEPT !.version = @ + 1]

(* The bound applies to what grows without end; a departure needs a join.   *)
CanWrite(l) == lobby[l].version < MaxVersion[l]

Respond(p, l) == seen' = [seen EXCEPT ![p] = Snapshot(l)']

(* SELECT ... FROM lobby_membership WHERE player_id = $1 AND left_at IS NULL *)
(* finds no row.                                                           *)
MutantNotHosting(p) == \A k \in Lobby : p # lobby[k].host
HasNoOpenMembership(p) == \A k \in Lobby : p \notin membership[k]

(* now() in PostgreSQL: the moment the transaction began by the clock of the *)
(* database, which is not the clock of Nakama.                             *)
DatabaseNow == {t \in 1..MaxClock : now - Behind <= t /\ t <= now + Ahead}

HasRoom(l) == Cardinality(membership[l]) < lobby[l].capacity

(* postgresLobbyStore.Create: a player with an open membership gets that    *)
(* lobby back (a read, see Observe); otherwise lobby, creator membership,   *)
(* host assignment and default configuration are inserted together, with    *)
(* the time of the Nakama process.                                         *)
Create(p, l, capacity) ==
    /\ lobby[l].status = "absent"
    /\ HasNoOpenMembership(p)
    /\ lobby' = [lobby EXCEPT ![l] = [status |-> "open", host |-> p,
                                      version |-> 1, capacity |-> capacity]]
    /\ membership' = [membership EXCEPT ![l] = {p}]
    /\ joinedAt' = [joinedAt EXCEPT ![l][p] = now]
    /\ assigned' = [assigned EXCEPT ![l] = {[host |-> p, reason |-> "creator"]}]
    /\ config' = [config EXCEPT ![l] = DefaultConfiguration(capacity)]
    /\ UNCHANGED <<nominated, rounds, now>>
    /\ Respond(p, l)

(* postgresLobbyStore.Join: a member of this lobby gets a snapshot (a read),*)
(* a member of another, a full lobby and a lobby with an active round are   *)
(* refused.  joined_at is the column's default, the database's now().       *)
Join(p, l) ==
    /\ IsOpen(l) /\ CanWrite(l)
    /\ HasNoOpenMembership(p)
    /\ HasRoom(l)
    /\ ~activeRoundExists(l)
    /\ membership' = [membership EXCEPT ![l] = @ \cup {p}]
    /\ \E t \in DatabaseNow : joinedAt' = [joinedAt EXCEPT ![l][p] = t]
    /\ lobby' = [lobby EXCEPT ![l] = BumpedRow(l)]
    /\ UNCHANGED <<nominated, assigned, config, rounds, now>>
    /\ Respond(p, l)

(* A read-only response: Create or Join of a present member, lobby.state.   *)
Observe(p, l) ==
    /\ IsOpenMember(l, p)
    /\ UNCHANGED <<tables, now>>
    /\ Respond(p, l)

(* The version check every fenced command makes under the lobby row lock.   *)
ExpectsCurrentVersion(p, l) ==
    /\ seen[p].lobby = l
    /\ seen[p].version = lobby[l].version

(* lockHostConfiguration: the caller must be the host by the lobby row and  *)
(* by the one open assignment.                                             *)
lockHostConfiguration(p, l) ==
    /\ IsOpen(l)
    /\ \E a \in assigned[l] : a.host = lobby[l].host /\ a.host = p
    /\ ExpectsCurrentVersion(p, l)

(* applyConfigurationPatch: what a patched configuration must satisfy.      *)
ValidConfiguration(l, c) ==
    /\ c \in Configuration
    /\ 2 <= c.threshold /\ c.threshold <= lobby[l].capacity

(* A Commit operator is what the transaction writes; the caller's response  *)
(* is a step of its own because the reply of a committed call can be lost.  *)
CommitConfiguration(p, l, c) ==
    /\ CanWrite(l)
    /\ lockHostConfiguration(p, l)
    /\ ~activeRoundExists(l)
    /\ ValidConfiguration(l, c)
    /\ config' = [config EXCEPT ![l] = c]
    /\ lobby' = [lobby EXCEPT ![l] = BumpedRow(l)]
    /\ UNCHANGED <<membership, joinedAt, nominated, assigned, rounds, now>>

UpdateConfiguration(p, l, c) == CommitConfiguration(p, l, c) /\ Respond(p, l)

CommitNomination(p, l, isNominated) ==
    /\ IsOpen(l) /\ CanWrite(l)
    /\ ExpectsCurrentVersion(p, l)
    /\ ~activeRoundExists(l)
    /\ p \in membership[l]
    /\ nominated' = [nominated EXCEPT ![l] =
                        IF isNominated THEN @ \cup {p} ELSE @ \ {p}]
    /\ lobby' = [lobby EXCEPT ![l] = BumpedRow(l)]
    /\ UNCHANGED <<membership, joinedAt, assigned, config, rounds, now>>

RecordNominationChange(p, l, isNominated) ==
    CommitNomination(p, l, isNominated) /\ Respond(p, l)

NextSequence(l) == Len(rounds[l]) + 1

MutantKeepNominations(l) == nominated[l]
ConsumedNominations(l) == {}

(* postgresLobbyStore.StartRound: the round header is inserted as preparing,*)
(* the nominations are consumed; live roles stay with the match.           *)
CommitRound(p, l) ==
    /\ CanWrite(l)
    /\ lockHostConfiguration(p, l)
    /\ config[l].map \in PublishedMap
    /\ ~activeRoundExists(l)
    /\ Cardinality(membership[l]) >= config[l].hunters + 1
    /\ rounds' = [rounds EXCEPT ![l] = Append(@, "preparing")]
    /\ lobby' = [lobby EXCEPT ![l] = BumpedRow(l)]
    /\ nominated' = [nominated EXCEPT ![l] = ConsumedNominations(l)]
    /\ UNCHANGED <<membership, joinedAt, assigned, config, now>>

StartRound(p, l) == CommitRound(p, l) /\ Respond(p, l)

(* UpdateRoundPhase mirrors the live phase; it does not touch the lobby row.*)
UpdateRoundPhase(l, i, status) ==
    /\ i \in ActiveRounds(l)
    /\ status \in {"hiding", "hunting"}
    /\ rounds' = [rounds EXCEPT ![l][i] = status]
    /\ UNCHANGED <<lobby, membership, joinedAt, nominated, assigned, config, seen, now>>

-----------------------------------------------------------------------------
(* postgresLobbyStore.Leave(lobby, players, hostReason).                    *)

Affected(l, P) == membership[l] \cap P
Remaining(l, P) == membership[l] \ P

(* ORDER BY joined_at, id LIMIT 1: among equal stamps any id may come first.*)
MutantDepartedCandidates(l, S) ==
    {p \in membership[l] : \A q \in membership[l] : joinedAt[l][p] <= joinedAt[l][q]}
MutantNewest(l, S) == {p \in S : \A q \in S : joinedAt[l][p] >= joinedAt[l][q]}
Oldest(l, S) == {p \in S : \A q \in S : joinedAt[l][p] <= joinedAt[l][q]}

(* chk_lobby_membership_left_time: left_at is the time of the Nakama process *)
(* and may not precede joined_at, or the whole departure is rolled back.    *)
ClockAdmits(l, P) == \A p \in Affected(l, P) : joinedAt[l][p] <= now

CloseMemberships(l, P) ==
    /\ IsOpen(l)
    /\ Affected(l, P) # {}
    /\ ClockAdmits(l, P)
    /\ membership' = [membership EXCEPT ![l] = Remaining(l, P)]
    /\ joinedAt' = [joinedAt EXCEPT ![l] =
                       [p \in Player |-> IF p \in P THEN 0 ELSE @[p]]]
    /\ nominated' = [nominated EXCEPT ![l] = @ \ P]
    /\ UNCHANGED <<config, seen, now>>

LeaveGuests(l, P) ==
    /\ CloseMemberships(l, P)
    /\ lobby[l].host \notin Affected(l, P)
    /\ lobby' = [lobby EXCEPT ![l] = BumpedRow(l)]
    /\ UNCHANGED <<assigned, rounds>>

MigrateHost(l, P, reason) ==
    /\ CloseMemberships(l, P)
    /\ lobby[l].host \in Affected(l, P)
    /\ \E h \in Oldest(l, Remaining(l, P)) :
         /\ assigned' = [assigned EXCEPT ![l] = {[host |-> h, reason |-> reason]}]
         /\ lobby' = [lobby EXCEPT ![l] = [BumpedRow(l) EXCEPT !.host = h]]
    /\ UNCHANGED rounds

CloseLobby(l, P) ==
    /\ CloseMemberships(l, P)
    /\ lobby[l].host \in Affected(l, P)
    /\ Remaining(l, P) = {}
    /\ assigned' = [assigned EXCEPT ![l] = {}]
    /\ lobby' = [lobby EXCEPT ![l] = [BumpedRow(l) EXCEPT !.status = "closed"]]
    /\ rounds' = [rounds EXCEPT ![l] = [i \in DOMAIN @ |-> "aborted"]]

Leave(l, P, reason) ==
    \/ LeaveGuests(l, P)
    \/ MigrateHost(l, P, reason)
    \/ CloseLobby(l, P)

Tick ==
    /\ now < MaxClock
    /\ now' = now + 1
    /\ UNCHANGED <<tables, seen>>

Next ==
    \/ \E p \in Player, l \in Lobby :
         \/ \E capacity \in Capacity : Create(p, l, capacity)
         \/ Join(p, l)
         \/ Observe(p, l)
         \/ \E c \in Patches : UpdateConfiguration(p, l, c)
         \/ \E b \in BOOLEAN : RecordNominationChange(p, l, b)
         \/ StartRound(p, l)
    \/ \E l \in Lobby :
         \/ \E i \in DOMAIN rounds[l], status \in {"hiding", "hunting"} :
              UpdateRoundPhase(l, i, status)
         \/ \E P \in SUBSET Player, reason \in {"host_left", "host_disconnected"} :
              Leave(l, P, reason)
    \/ Tick

Spec == Init /\ [][Next]_vars

-----------------------------------------------------------------------------
(* Properties.                                                             *)

(* Every table holds rows of its kind, and the automatic-start threshold of *)
(* every created lobby fits its capacity whatever created or patched it.   *)
TypeOK ==
    /\ lobby \in [Lobby -> LobbyRow]
    /\ membership \in [Lobby -> SUBSET Player]
    /\ joinedAt \in [Lobby -> [Player -> Nat]]
    /\ nominated \in [Lobby -> SUBSET Player]
    /\ assigned \in [Lobby -> SUBSET Assignment]
    /\ config \in [Lobby -> Configuration]
    /\ rounds \in [Lobby -> Seq(RoundStatus)]
    /\ seen \in [Player -> Snapshots \cup {NoSnapshot}]
    /\ now \in Nat
    /\ \A l \in Lobby : lobby[l].status # "absent" =>
         2 <= config[l].threshold /\ config[l].threshold <= lobby[l].capacity

(* What hc_check_lobby_host_consistency demands at every commit: the host   *)
(* an open lobby names is one of its open members and holds its only open   *)
(* assignment; beyond it, a lobby that is not open has nobody in it.  The   *)
(* store reaches this through three tables no row of which it may forget.  *)
HostConsistency ==
    \A l \in Lobby :
      IF IsOpen(l)
      THEN /\ lobby[l].host \in membership[l]
           /\ \E reason \in HostReason :
                assigned[l] = {[host |-> lobby[l].host, reason |-> reason]}
      ELSE membership[l] = {} /\ assigned[l] = {} /\ ~activeRoundExists(l)

OneOpenMembership ==
    \A k, l \in Lobby : k # l => membership[k] \cap membership[l] = {}
WithinCapacity ==
    \A l \in Lobby : Cardinality(membership[l]) <= lobby[l].capacity

(* Whatever players create, join, leave and reconfigure, no player is an    *)
(* open member of two lobbies (Create and Join check this before inserting; *)
(* uq_lobby_membership_one_open_per_player repeats it) and no lobby holds   *)
(* more open members than its max_players.                                  *)
MembershipIsLimited == OneOpenMembership /\ WithinCapacity

OneActiveRound ==
    \A l \in Lobby : \A i, j \in ActiveRounds(l) : i = j
NominationsArePreRound ==
    \A l \in Lobby :
      /\ nominated[l] \subseteq membership[l]
      /\ activeRoundExists(l) => nominated[l] = {}

(* A lobby has at most one round that is not over, and its hunter           *)
(* nominations, which belong to open members, are all gone while it lasts:  *)
(* StartRound consumes them and nothing adds one until the round ends.      *)
RoundsAreExclusive == OneActiveRound /\ NominationsArePreRound

(* Optimistic concurrency is sound: whoever holds a snapshot whose version  *)
(* is still the lobby's holds the lobby's current host, members, nominees   *)
(* and configuration, so a fenced command acts on exactly what its caller   *)
(* saw.                                                                    *)
VersionIdentifiesSnapshot ==
    \A p \in Player, l \in Lobby :
      ExpectsCurrentVersion(p, l) => seen[p] = Snapshot(l)

(* Through every chain of departures and joins the host of an open lobby is *)
(* its longest-standing member, as nearly as the two clocks that stamp       *)
(* joined_at can tell: none precedes the host by more than both are off.    *)
HostIsSenior ==
    \A l \in Lobby : IsOpen(l) =>
      \A q \in membership[l] :
        joinedAt[l][lobby[l].host] <= joinedAt[l][q] + Ahead + Behind
=============================================================================

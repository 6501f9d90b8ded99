-------------------------- MODULE LobbyStoreProofs --------------------------
(***************************************************************************)
(* Proofs about LobbyStore for any number of lobbies, players and rounds,  *)
(* any capacities between 2 and 10 and any bounds.                         *)
(***************************************************************************)
EXTENDS LobbyStore, FiniteSetTheorems, TLAPS

(* BumpedRow raises the version of a row and leaves it a row.               *)
LEMMA BumpedRowType ==
    ASSUME NEW l \in Lobby, lobby[l] \in LobbyRow
    PROVE  /\ BumpedRow(l) \in LobbyRow
           /\ BumpedRow(l).status = lobby[l].status
           /\ BumpedRow(l).host = lobby[l].host
           /\ BumpedRow(l).capacity = lobby[l].capacity
           /\ BumpedRow(l).version = lobby[l].version + 1
BY DEF BumpedRow, LobbyRow

(* The configuration Create inserts is valid for every capacity in use.     *)
LEMMA DefaultConfigurationType ==
    ASSUME NEW c \in Nat, 2 <= c
    PROVE  /\ DefaultConfiguration(c) \in Configuration
           /\ 2 <= DefaultConfiguration(c).threshold
           /\ DefaultConfiguration(c).threshold <= c
BY DEF DefaultConfiguration, Configuration, Mode, Min2

(* A snapshot of well-typed tables is a snapshot record.                    *)
LEMMA SnapshotType ==
    ASSUME TypeOK, NEW l \in Lobby
    PROVE  Snapshot(l) \in Snapshots
BY DEF TypeOK, Snapshot, Snapshots, Contents, LobbyRow, IsOpen

(* The tables and the clock, without the responses players hold.            *)
TablesOK ==
    /\ lobby \in [Lobby -> LobbyRow]
    /\ membership \in [Lobby -> SUBSET Player]
    /\ joinedAt \in [Lobby -> [Player -> Nat]]
    /\ nominated \in [Lobby -> SUBSET Player]
    /\ assigned \in [Lobby -> SUBSET Assignment]
    /\ config \in [Lobby -> Configuration]
    /\ rounds \in [Lobby -> Seq(RoundStatus)]
    /\ now \in Nat
    /\ \A l \in Lobby : lobby[l].status # "absent" =>
         2 <= config[l].threshold /\ config[l].threshold <= lobby[l].capacity

(* What any step does to the tables: one transaction of the store, or none. *)
(* It leaves open whether the reply reaches the player, so that the lemmas   *)
(* below serve the store and the match handler alike.                       *)
Unwritten == UNCHANGED tables /\ now' \in {now, now + 1}
Transaction ==
    \/ \E p \in Player, l \in Lobby :
         \/ \E capacity \in Capacity : Create(p, l, capacity)
         \/ Join(p, l)
         \/ \E c \in Patches : CommitConfiguration(p, l, c)
         \/ \E b \in BOOLEAN : CommitNomination(p, l, b)
         \/ CommitRound(p, l)
    \/ \E l \in Lobby :
         \/ \E i \in DOMAIN rounds[l], status \in {"hiding", "hunting"} :
              UpdateRoundPhase(l, i, status)
         \/ \E P \in SUBSET Player, reason \in {"host_left", "host_disconnected"} :
              Leave(l, P, reason)
    \/ Unwritten

(* Every step of the store is a transaction.                                *)
LEMMA NextIsTransaction == [Next]_vars => Transaction
<1> SUFFICES ASSUME [Next]_vars PROVE Transaction
  OBVIOUS
<1>1. ASSUME NEW p \in Player, NEW l \in Lobby,
             \/ \E capacity \in Capacity : Create(p, l, capacity)
             \/ Join(p, l) \/ Observe(p, l)
             \/ \E c \in Patches : UpdateConfiguration(p, l, c)
             \/ \E b \in BOOLEAN : RecordNominationChange(p, l, b)
             \/ StartRound(p, l)
      PROVE  Transaction
  BY <1>1 DEF Transaction, Unwritten, Observe, UpdateConfiguration, RecordNominationChange,
              StartRound
<1>2. CASE Tick \/ UNCHANGED vars
  BY <1>2 DEF Transaction, Unwritten, Tick, vars
<1>3. ASSUME NEW l \in Lobby,
             \/ \E i \in DOMAIN rounds[l], status \in {"hiding", "hunting"} :
                  UpdateRoundPhase(l, i, status)
             \/ \E P \in SUBSET Player, reason \in {"host_left", "host_disconnected"} :
                  Leave(l, P, reason)
      PROVE  Transaction
  BY <1>3 DEF Transaction
<1> QED BY <1>1, <1>2, <1>3 DEF Next

(* A response keeps `seen' a table of snapshots.                            *)
LEMMA RespondType ==
    ASSUME TypeOK, TablesOK', NEW p \in Player, NEW l \in Lobby, Respond(p, l)
    PROVE  TypeOK'
<1>1. (Snapshot(l) \in Snapshots)'
  BY DEF TablesOK, Snapshot, Snapshots, Contents, LobbyRow, IsOpen
<1>2. seen' \in [Player -> Snapshots \cup {NoSnapshot}]
  BY <1>1 DEF TypeOK, Respond
<1> QED
  BY <1>2 DEF TypeOK, TablesOK

(* A step of the store gives one player an answer or none.                  *)
LEMMA NextResponds ==
    [Next]_vars => UNCHANGED seen \/ \E p \in Player, l \in Lobby : Respond(p, l)
<1> SUFFICES ASSUME [Next]_vars
             PROVE  UNCHANGED seen \/ \E p \in Player, l \in Lobby : Respond(p, l)
  OBVIOUS
<1>1. ASSUME NEW p \in Player, NEW l \in Lobby,
             \/ \E capacity \in Capacity : Create(p, l, capacity)
             \/ Join(p, l) \/ Observe(p, l)
             \/ \E c \in Patches : UpdateConfiguration(p, l, c)
             \/ \E b \in BOOLEAN : RecordNominationChange(p, l, b)
             \/ StartRound(p, l)
      PROVE  Respond(p, l)
  BY <1>1 DEF Create, Join, Observe, UpdateConfiguration, RecordNominationChange, StartRound
<1>2. CASE Tick \/ UNCHANGED vars
  BY <1>2 DEF Tick, vars
<1>3. ASSUME NEW l \in Lobby,
             \/ \E i \in DOMAIN rounds[l], status \in {"hiding", "hunting"} :
                  UpdateRoundPhase(l, i, status)
             \/ \E P \in SUBSET Player, reason \in {"host_left", "host_disconnected"} :
                  Leave(l, P, reason)
      PROVE  UNCHANGED seen
  BY <1>3 DEF UpdateRoundPhase, Leave, LeaveGuests, MigrateHost, CloseLobby, CloseMemberships
<1> QED BY <1>1, <1>2, <1>3 DEF Next

(* One transaction keeps the tables well typed.                             *)
LEMMA TablesStep ==
    ASSUME TypeOK, Transaction
    PROVE  TablesOK'
<1> USE ConstantsAssumption DEF LobbyStatus
<1>1. ASSUME NEW p \in Player, NEW l \in Lobby, NEW capacity \in Capacity,
             Create(p, l, capacity)
      PROVE  TablesOK'
  <2>1. /\ capacity \in Nat /\ 2 <= capacity
        /\ DefaultConfiguration(capacity) \in Configuration
        /\ 2 <= DefaultConfiguration(capacity).threshold
        /\ DefaultConfiguration(capacity).threshold <= capacity
    BY DefaultConfigurationType
  <2>2. lobby' \in [Lobby -> LobbyRow] /\ config' \in [Lobby -> Configuration]
    BY <1>1, <2>1 DEF Create, TypeOK, LobbyRow
  <2>3. /\ membership' \in [Lobby -> SUBSET Player]
        /\ joinedAt' \in [Lobby -> [Player -> Nat]]
        /\ assigned' \in [Lobby -> SUBSET Assignment]
    BY <1>1 DEF Create, TypeOK, Assignment, HostReason
  <2>4. \A k \in Lobby : lobby'[k].status # "absent" =>
          2 <= config'[k].threshold /\ config'[k].threshold <= lobby'[k].capacity
    BY <1>1, <2>1 DEF Create, TypeOK
  <2> QED
    BY <1>1, <2>2, <2>3, <2>4 DEF Create, TypeOK, TablesOK
<1>2. ASSUME NEW p \in Player, NEW l \in Lobby, Join(p, l)
      PROVE  TablesOK'
  <2>1. joinedAt' \in [Lobby -> [Player -> Nat]]
    BY <1>2 DEF Join, DatabaseNow, TypeOK
  <2> QED
    BY <1>2, <2>1, BumpedRowType DEF Join, TypeOK, TablesOK
<1>4. ASSUME NEW p \in Player, NEW l \in Lobby, NEW c \in Patches,
             CommitConfiguration(p, l, c)
      PROVE  TablesOK'
  BY <1>4, BumpedRowType DEF CommitConfiguration, ValidConfiguration, TypeOK, TablesOK
<1>5. ASSUME NEW p \in Player, NEW l \in Lobby, NEW b \in BOOLEAN,
             CommitNomination(p, l, b)
      PROVE  TablesOK'
  BY <1>5, BumpedRowType DEF CommitNomination, TypeOK, TablesOK
<1>6. ASSUME NEW p \in Player, NEW l \in Lobby, CommitRound(p, l)
      PROVE  TablesOK'
  <2>1. rounds' \in [Lobby -> Seq(RoundStatus)]
    <3>1. Append(rounds[l], "preparing") \in Seq(RoundStatus)
      BY DEF TypeOK, RoundStatus
    <3> QED
      BY <1>6, <3>1 DEF CommitRound, TypeOK
  <2> QED
    BY <1>6, <2>1, BumpedRowType DEF CommitRound, ConsumedNominations, TypeOK, TablesOK
<1>7. ASSUME NEW l \in Lobby, NEW i \in DOMAIN rounds[l],
             NEW status \in {"hiding", "hunting"}, UpdateRoundPhase(l, i, status)
      PROVE  TablesOK'
  <2>1. [rounds[l] EXCEPT ![i] = status] \in Seq(RoundStatus)
    BY DEF TypeOK, RoundStatus
  <2>2. rounds' \in [Lobby -> Seq(RoundStatus)]
    BY <1>7, <2>1 DEF UpdateRoundPhase, TypeOK
  <2> QED
    BY <1>7, <2>2 DEF UpdateRoundPhase, TypeOK, TablesOK
<1>8. ASSUME NEW l \in Lobby, NEW P \in SUBSET Player,
             NEW reason \in {"host_left", "host_disconnected"}, Leave(l, P, reason)
      PROVE  TablesOK'
  <2>1. CloseMemberships(l, P)
    BY <1>8 DEF Leave, LeaveGuests, MigrateHost, CloseLobby
  <2>2. /\ membership' \in [Lobby -> SUBSET Player]
        /\ joinedAt' \in [Lobby -> [Player -> Nat]]
        /\ nominated' \in [Lobby -> SUBSET Player]
        /\ UNCHANGED <<config, seen, now>>
    BY <2>1 DEF CloseMemberships, TypeOK, Remaining
  <2>3. CASE LeaveGuests(l, P)
    BY <2>2, <2>3, BumpedRowType DEF LeaveGuests, TypeOK, TablesOK
  <2>4. CASE MigrateHost(l, P, reason)
    <3>1. PICK h \in Remaining(l, P) :
            /\ assigned' = [assigned EXCEPT ![l] = {[host |-> h, reason |-> reason]}]
            /\ lobby' = [lobby EXCEPT ![l] = [BumpedRow(l) EXCEPT !.host = h]]
      BY <2>4 DEF MigrateHost, Oldest
    <3>2. h \in Player
      BY DEF Remaining, TypeOK
    <3>3. [BumpedRow(l) EXCEPT !.host = h] \in LobbyRow
      BY <3>2, BumpedRowType DEF LobbyRow, TypeOK
    <3>4. assigned' \in [Lobby -> SUBSET Assignment]
      BY <3>1, <3>2 DEF Assignment, HostReason, TypeOK
    <3>5. /\ [BumpedRow(l) EXCEPT !.host = h].status = lobby[l].status
          /\ [BumpedRow(l) EXCEPT !.host = h].capacity = lobby[l].capacity
      BY BumpedRowType DEF LobbyRow, TypeOK
    <3> QED
      BY <2>2, <2>4, <3>1, <3>3, <3>4, <3>5 DEF MigrateHost, TypeOK, TablesOK
  <2>5. CASE CloseLobby(l, P)
    <3>1. [i \in DOMAIN rounds[l] |-> "aborted"] \in Seq(RoundStatus)
      BY DEF TypeOK, RoundStatus
    <3>2. [BumpedRow(l) EXCEPT !.status = "closed"] \in LobbyRow
      BY BumpedRowType DEF LobbyRow, TypeOK
    <3>3. [BumpedRow(l) EXCEPT !.status = "closed"].capacity = lobby[l].capacity
      BY BumpedRowType DEF LobbyRow, TypeOK
    <3>4. lobby[l].status # "absent"
      BY <2>1 DEF CloseMemberships, IsOpen
    <3> QED
      BY <2>2, <2>5, <3>1, <3>2, <3>3, <3>4 DEF CloseLobby, TypeOK, TablesOK
  <2> QED
    BY <1>8, <2>3, <2>4, <2>5 DEF Leave
<1>9. CASE Unwritten
  BY <1>9 DEF Unwritten, TypeOK, TablesOK, tables
<1> QED
  BY <1>1, <1>2, <1>4, <1>5, <1>6, <1>7, <1>8, <1>9 DEF Transaction

(* One step of the store keeps the tables and the responses well typed.     *)
LEMMA TypeStep ==
    ASSUME TypeOK, [Next]_vars
    PROVE  TypeOK'
<1>1. TablesOK'
  BY NextIsTransaction, TablesStep
<1>2. ASSUME NEW p \in Player, NEW l \in Lobby, Respond(p, l) PROVE TypeOK'
  BY <1>1, <1>2, RespondType
<1>3. CASE UNCHANGED seen
  BY <1>1, <1>3 DEF TypeOK, TablesOK
<1>4. UNCHANGED seen \/ \E p \in Player, l \in Lobby : Respond(p, l)
  BY NextResponds
<1> QED BY <1>2, <1>3, <1>4

(* The empty tables are well typed.                                        *)
LEMMA TypeInit == Init => TypeOK
<1> USE ConstantsAssumption
<1>1. DefaultConfiguration(2) \in Configuration
  BY DefaultConfigurationType
<1> QED
  BY <1>1 DEF Init, TypeOK, NoRow, LobbyRow, LobbyStatus

(* Whatever the players and the match do, every table of the lobby store    *)
(* holds rows of its kind and every lobby's automatic-start threshold fits  *)
(* its capacity.                                                           *)
THEOREM TypeCorrect == Spec => []TypeOK
BY TypeInit, TypeStep, PTL DEF Spec

-----------------------------------------------------------------------------
(* The inductive invariant.  Seniority needs the clock of Nakama never to     *)
(* run back and the database's to stay within Ahead and Behind of it, and    *)
(* version fencing needs every version a player holds to be one the lobby    *)
(* has already had.                                                        *)

(* No membership is stamped further ahead of the clock than the database's   *)
(* now() may be, so a member who joins now precedes nobody by more than      *)
(* both stamps can be off.                                                  *)
StampsArePast == \A l \in Lobby, p \in Player : joinedAt[l][p] <= now + Ahead
(* A lobby that was never created has version 0.                           *)
AbsentIsUnversioned == \A l \in Lobby : lobby[l].status = "absent" => lobby[l].version = 0
(* No player holds a version the lobby has not reached.                    *)
SeenIsPast ==
    \A p \in Player, l \in Lobby :
      seen[p].lobby = l => seen[p].version <= lobby[l].version

(* The inductive invariant of the store.                                   *)
StoreInv ==
    /\ TypeOK /\ HostConsistency /\ OneOpenMembership /\ WithinCapacity
    /\ OneActiveRound /\ NominationsArePreRound
    /\ StampsArePast /\ HostIsSenior
    /\ AbsentIsUnversioned /\ SeenIsPast /\ VersionIdentifiesSnapshot

(* What each step does to the set of active rounds: a round begins only     *)
(* where none is active, a phase change keeps the set and a closed lobby    *)
(* loses it.                                                               *)
LEMMA ActiveRoundsStep ==
    ASSUME TypeOK, Transaction, NEW k \in Lobby
    PROVE  \/ (ActiveRounds(k))' = ActiveRounds(k)
           \/ /\ ActiveRounds(k) = {} /\ (ActiveRounds(k))' = {Len(rounds[k]) + 1}
              /\ \E p \in Player : CommitRound(p, k)
           \/ (ActiveRounds(k))' = {}
<1> USE DEF ActiveRounds
<1>1. ASSUME NEW p \in Player, NEW l \in Lobby, CommitRound(p, l)
      PROVE  \/ (ActiveRounds(k))' = ActiveRounds(k)
             \/ /\ ActiveRounds(k) = {} /\ (ActiveRounds(k))' = {Len(rounds[k]) + 1}
                /\ CommitRound(p, k)
  <2>1. CASE k # l
    BY <1>1, <2>1 DEF CommitRound, TypeOK
  <2>2. CASE k = l
    <3>1. rounds'[k] = Append(rounds[k], "preparing") /\ rounds[k] \in Seq(RoundStatus)
      BY <1>1, <2>2 DEF CommitRound, TypeOK
    <3>2. /\ DOMAIN rounds'[k] = 1..(Len(rounds[k]) + 1)
          /\ rounds'[k][Len(rounds[k]) + 1] = "preparing"
          /\ \A i \in 1..Len(rounds[k]) : rounds'[k][i] = rounds[k][i]
          /\ DOMAIN rounds[k] = 1..Len(rounds[k])
          /\ Len(rounds[k]) \in Nat
      BY <3>1 DEF RoundStatus
    <3>3. ActiveRounds(k) = {}
      BY <1>1, <2>2 DEF CommitRound, activeRoundExists
    <3>4. (ActiveRounds(k))' = {Len(rounds[k]) + 1}
      BY <3>2, <3>3
    <3> QED
      BY <1>1, <2>2, <3>3, <3>4
  <2> QED
    BY <2>1, <2>2
<1>2. ASSUME NEW l \in Lobby, NEW i \in DOMAIN rounds[l],
             NEW status \in {"hiding", "hunting"}, UpdateRoundPhase(l, i, status)
      PROVE  (ActiveRounds(k))' = ActiveRounds(k)
  BY <1>2 DEF UpdateRoundPhase, TypeOK
<1>3. ASSUME NEW l \in Lobby, NEW P \in SUBSET Player,
             NEW reason \in {"host_left", "host_disconnected"}, Leave(l, P, reason)
      PROVE  (ActiveRounds(k))' = ActiveRounds(k) \/ (ActiveRounds(k))' = {}
  BY <1>3 DEF Leave, LeaveGuests, MigrateHost, CloseLobby, TypeOK
<1>4. ASSUME UNCHANGED rounds
      PROVE  (ActiveRounds(k))' = ActiveRounds(k)
  BY <1>4
<1>5. ASSUME NEW p \in Player, NEW l \in Lobby,
             \/ \E capacity \in Capacity : Create(p, l, capacity)
             \/ Join(p, l)
             \/ \E c \in Patches : CommitConfiguration(p, l, c)
             \/ \E b \in BOOLEAN : CommitNomination(p, l, b)
      PROVE  UNCHANGED rounds
  BY <1>5 DEF Create, Join, CommitConfiguration, CommitNomination
<1>6. CASE Unwritten
  BY <1>4, <1>6 DEF Unwritten, tables
<1> QED
  BY <1>1, <1>2, <1>3, <1>4, <1>5, <1>6 DEF Transaction

(* At most one round of a lobby is active.                                  *)
LEMMA OneActiveRoundStep ==
    ASSUME TypeOK, OneActiveRound, Transaction
    PROVE  OneActiveRound'
BY ActiveRoundsStep DEF OneActiveRound

(* How each step changes who is in a lobby: it is created, joined, left, or *)
(* keeps its members, hosts and stamps.                                    *)
Kept(k) ==
    /\ membership'[k] = membership[k] /\ assigned'[k] = assigned[k]
    /\ joinedAt'[k] = joinedAt[k]
    /\ lobby'[k].status = lobby[k].status /\ lobby'[k].host = lobby[k].host
    /\ lobby'[k].capacity = lobby[k].capacity
    /\ lobby'[k].version >= lobby[k].version

(* Every step of the store creates, joins or leaves one lobby, or only     *)
(* touches rows that say nothing of who is in it.                          *)
LEMMA LobbyStep ==
    ASSUME TypeOK, Transaction, NEW k \in Lobby
    PROVE  \/ Kept(k)
           \/ \E p \in Player, capacity \in Capacity : Create(p, k, capacity)
           \/ \E p \in Player : Join(p, k)
           \/ \E P \in SUBSET Player, reason \in {"host_left", "host_disconnected"} :
                Leave(k, P, reason)
<1> USE DEF Kept
<1>0. lobby[k] \in LobbyRow /\ lobby[k].version \in Nat
  BY DEF TypeOK, LobbyRow
<1>1. ASSUME NEW p \in Player, NEW l \in Lobby, NEW capacity \in Capacity,
             Create(p, l, capacity), l # k
      PROVE  Kept(k)
  BY <1>0, <1>1 DEF Create, TypeOK
<1>2. ASSUME NEW p \in Player, NEW l \in Lobby, Join(p, l), l # k
      PROVE  Kept(k)
  BY <1>0, <1>2 DEF Join, TypeOK
<1>4. ASSUME NEW p \in Player, NEW l \in Lobby, NEW c \in Patches,
             CommitConfiguration(p, l, c)
      PROVE  Kept(k)
  BY <1>0, <1>4, BumpedRowType DEF CommitConfiguration, TypeOK
<1>5. ASSUME NEW p \in Player, NEW l \in Lobby, NEW b \in BOOLEAN,
             CommitNomination(p, l, b)
      PROVE  Kept(k)
  BY <1>0, <1>5, BumpedRowType DEF CommitNomination, TypeOK
<1>6. ASSUME NEW p \in Player, NEW l \in Lobby, CommitRound(p, l)
      PROVE  Kept(k)
  BY <1>0, <1>6, BumpedRowType DEF CommitRound, TypeOK
<1>7. ASSUME NEW l \in Lobby, NEW i \in DOMAIN rounds[l],
             NEW status \in {"hiding", "hunting"}, UpdateRoundPhase(l, i, status)
      PROVE  Kept(k)
  BY <1>0, <1>7 DEF UpdateRoundPhase
<1>8. ASSUME NEW l \in Lobby, NEW P \in SUBSET Player,
             NEW reason \in {"host_left", "host_disconnected"},
             Leave(l, P, reason), l # k
      PROVE  Kept(k)
  BY <1>0, <1>8 DEF Leave, LeaveGuests, MigrateHost, CloseLobby, CloseMemberships, TypeOK
<1>9. CASE Unwritten
  BY <1>0, <1>9 DEF Unwritten, tables
<1> QED
  BY <1>1, <1>2, <1>4, <1>5, <1>6, <1>7, <1>8, <1>9 DEF Transaction

(* Every departure removes exactly the players it names.                    *)
LEMMA LeaveMembers ==
    ASSUME TypeOK, NEW k \in Lobby, NEW P, NEW reason, Leave(k, P, reason)
    PROVE  /\ membership'[k] = membership[k] \ P
           /\ nominated'[k] = nominated[k] \ P
           /\ lobby'[k].capacity = lobby[k].capacity
           /\ lobby'[k].version = lobby[k].version + 1
           /\ lobby'[k].status # "absent"
           /\ config' = config /\ seen' = seen /\ now' = now
<1>1. CloseMemberships(k, P)
  BY DEF Leave, LeaveGuests, MigrateHost, CloseLobby
<1>2. /\ membership'[k] = membership[k] \ P
      /\ nominated'[k] = nominated[k] \ P
      /\ config' = config /\ seen' = seen /\ now' = now
  BY <1>1 DEF CloseMemberships, TypeOK, Remaining
<1>3. /\ BumpedRow(k).capacity = lobby[k].capacity /\ BumpedRow(k) \in LobbyRow
      /\ BumpedRow(k).version = lobby[k].version + 1
      /\ BumpedRow(k).status = "open"
  BY <1>1, BumpedRowType DEF TypeOK, CloseMemberships, IsOpen
<1>4. \/ lobby'[k] = BumpedRow(k)
      \/ \E h : lobby'[k] = [BumpedRow(k) EXCEPT !.host = h]
      \/ lobby'[k] = [BumpedRow(k) EXCEPT !.status = "closed"]
  BY DEF Leave, LeaveGuests, MigrateHost, CloseLobby, TypeOK
<1>5. /\ lobby'[k].capacity = BumpedRow(k).capacity
      /\ lobby'[k].version = BumpedRow(k).version
      /\ lobby'[k].status # "absent"
  BY <1>3, <1>4 DEF LobbyRow
<1> QED
  BY <1>2, <1>3, <1>5

(* The rows a departure leaves behind, in its three cases.                  *)
LEMMA LeaveRows ==
    ASSUME TypeOK, NEW k \in Lobby, NEW P \in SUBSET Player,
           NEW reason \in {"host_left", "host_disconnected"}, Leave(k, P, reason)
    PROVE  /\ IsOpen(k)
           /\ membership'[k] = membership[k] \ P
           /\ \A p \in membership'[k] : joinedAt'[k][p] = joinedAt[k][p]
           /\ lobby'[k].capacity = lobby[k].capacity
           /\ lobby'[k].version = lobby[k].version + 1
           /\ nominated'[k] = nominated[k] \ P
           /\ \/ /\ lobby'[k].status = "open" /\ lobby'[k].host = lobby[k].host
                 /\ lobby[k].host \notin membership[k] \cap P
                 /\ assigned'[k] = assigned[k]
              \/ /\ lobby'[k].status = "open"
                 /\ lobby'[k].host \in Oldest(k, membership[k] \ P)
                 /\ assigned'[k] = {[host |-> lobby'[k].host, reason |-> reason]}
              \/ /\ lobby'[k].status = "closed" /\ membership'[k] = {}
                 /\ assigned'[k] = {} /\ (ActiveRounds(k))' = {}
<1>1. CloseMemberships(k, P)
  BY DEF Leave, LeaveGuests, MigrateHost, CloseLobby
<1>2. /\ IsOpen(k) /\ lobby[k].status = "open"
      /\ membership'[k] = membership[k] \ P
      /\ \A p \in membership'[k] : joinedAt'[k][p] = joinedAt[k][p]
      /\ nominated'[k] = nominated[k] \ P
  BY <1>1 DEF CloseMemberships, IsOpen, TypeOK, Remaining
<1>3. CASE LeaveGuests(k, P)
  BY <1>2, <1>3, BumpedRowType DEF LeaveGuests, Affected, TypeOK
<1>4. CASE MigrateHost(k, P, reason)
  <2>1. PICK h \in Oldest(k, Remaining(k, P)) :
          /\ assigned' = [assigned EXCEPT ![k] = {[host |-> h, reason |-> reason]}]
          /\ lobby' = [lobby EXCEPT ![k] = [BumpedRow(k) EXCEPT !.host = h]]
    BY <1>4 DEF MigrateHost
  <2>2. lobby'[k] = [BumpedRow(k) EXCEPT !.host = h]
    BY <2>1 DEF TypeOK
  <2>3. /\ lobby'[k].host = h /\ lobby'[k].status = "open"
        /\ lobby'[k].capacity = lobby[k].capacity
        /\ lobby'[k].version = lobby[k].version + 1
    BY <1>2, <2>2, BumpedRowType DEF LobbyRow, TypeOK
  <2>4. assigned'[k] = {[host |-> h, reason |-> reason]}
    BY <2>1 DEF TypeOK
  <2> QED
    BY <1>2, <2>1, <2>3, <2>4 DEF Remaining
<1>5. CASE CloseLobby(k, P)
  <2>1. lobby'[k] = [BumpedRow(k) EXCEPT !.status = "closed"]
    BY <1>5 DEF CloseLobby, TypeOK
  <2>2. /\ lobby'[k].status = "closed"
        /\ lobby'[k].capacity = lobby[k].capacity
        /\ lobby'[k].version = lobby[k].version + 1
    BY <2>1, BumpedRowType DEF LobbyRow, TypeOK
  <2>3. membership'[k] = {} /\ assigned'[k] = {} /\ (ActiveRounds(k))' = {}
    BY <1>2, <1>5 DEF CloseLobby, Remaining, ActiveRounds, TypeOK
  <2> QED
    BY <1>2, <2>2, <2>3
<1> QED
  BY <1>3, <1>4, <1>5 DEF Leave

(* The rows Create inserts and the row Join adds.                           *)
LEMMA CreateRows ==
    ASSUME TypeOK, NEW k \in Lobby, NEW p \in Player, NEW capacity \in Capacity,
           Create(p, k, capacity)
    PROVE  /\ lobby[k].status = "absent" /\ HasNoOpenMembership(p)
           /\ lobby'[k].status = "open" /\ lobby'[k].host = p
           /\ lobby'[k].version = 1 /\ lobby'[k].capacity = capacity
           /\ membership'[k] = {p} /\ joinedAt'[k][p] = now
           /\ assigned'[k] = {[host |-> p, reason |-> "creator"]}
           /\ nominated' = nominated /\ rounds' = rounds /\ now' = now
BY DEF Create, TypeOK

(* The membership row Join inserts and the lobby row it bumps.             *)
LEMMA JoinRows ==
    ASSUME TypeOK, NEW k \in Lobby, NEW p \in Player, Join(p, k)
    PROVE  /\ IsOpen(k) /\ HasNoOpenMembership(p) /\ HasRoom(k) /\ ~activeRoundExists(k)
           /\ membership'[k] = membership[k] \cup {p} /\ joinedAt'[k][p] \in DatabaseNow
           /\ \A q \in Player : q # p => joinedAt'[k][q] = joinedAt[k][q]
           /\ lobby'[k].status = lobby[k].status /\ lobby'[k].host = lobby[k].host
           /\ lobby'[k].capacity = lobby[k].capacity
           /\ lobby'[k].version = lobby[k].version + 1
           /\ assigned' = assigned /\ nominated' = nominated
           /\ rounds' = rounds /\ now' = now
BY BumpedRowType DEF Join, TypeOK

(* Host row, membership and assignment stay in agreement.                   *)
LEMMA HostConsistencyStep ==
    ASSUME TypeOK, HostConsistency, Transaction
    PROVE  HostConsistency'
<1> SUFFICES ASSUME NEW k \in Lobby
             PROVE  IF IsOpen(k)'
                    THEN /\ lobby'[k].host \in membership'[k]
                         /\ \E reason \in HostReason :
                              assigned'[k] = {[host |-> lobby'[k].host, reason |-> reason]}
                    ELSE /\ membership'[k] = {} /\ assigned'[k] = {}
                         /\ (ActiveRounds(k))' = {}
  BY DEF HostConsistency, activeRoundExists
<1> USE DEF IsOpen, HostReason
<1>1. CASE Kept(k)
  <2>1. CASE lobby[k].status = "open"
    BY <1>1, <2>1 DEF Kept, HostConsistency
  <2>2. CASE lobby[k].status # "open"
    <3>1. ~ \E p \in Player : CommitRound(p, k)
      BY <2>2 DEF CommitRound, lockHostConfiguration
    <3>2. (ActiveRounds(k))' = {}
      BY <2>2, <3>1, ActiveRoundsStep DEF HostConsistency, activeRoundExists
    <3> QED
      BY <1>1, <2>2, <3>2 DEF Kept, HostConsistency
  <2> QED
    BY <2>1, <2>2
<1>2. ASSUME NEW p \in Player, NEW capacity \in Capacity, Create(p, k, capacity)
      PROVE  /\ lobby'[k].status = "open" /\ lobby'[k].host \in membership'[k]
             /\ assigned'[k] = {[host |-> lobby'[k].host, reason |-> "creator"]}
  BY <1>2, CreateRows
<1>3. ASSUME NEW p \in Player, Join(p, k)
      PROVE  /\ lobby'[k].status = "open" /\ lobby'[k].host \in membership'[k]
             /\ \E reason \in HostReason :
                  assigned'[k] = {[host |-> lobby'[k].host, reason |-> reason]}
  BY <1>3, JoinRows DEF HostConsistency
<1>4. ASSUME NEW P \in SUBSET Player, NEW reason \in {"host_left", "host_disconnected"},
             Leave(k, P, reason)
      PROVE  IF lobby'[k].status = "open"
             THEN /\ lobby'[k].host \in membership'[k]
                  /\ \E r \in HostReason :
                       assigned'[k] = {[host |-> lobby'[k].host, reason |-> r]}
             ELSE membership'[k] = {} /\ assigned'[k] = {} /\ (ActiveRounds(k))' = {}
  BY <1>4, LeaveRows DEF HostConsistency, Oldest
<1> QED
  BY <1>1, <1>2, <1>3, <1>4, LobbyStep

(* Nobody is in two lobbies.                                               *)
LEMMA OneOpenMembershipStep ==
    ASSUME TypeOK, OneOpenMembership, Transaction
    PROVE  OneOpenMembership'
<1>1. ASSUME NEW k \in Lobby, NEW p \in membership'[k]
      PROVE  \/ p \in membership[k]
             \/ HasNoOpenMembership(p) /\ \A l \in Lobby : l # k => membership'[l] = membership[l]
  <2>1. CASE Kept(k)
    BY <2>1 DEF Kept
  <2>2. ASSUME NEW q \in Player, NEW capacity \in Capacity, Create(q, k, capacity)
        PROVE  /\ p = q /\ HasNoOpenMembership(q)
               /\ \A l \in Lobby : l # k => membership'[l] = membership[l]
    BY <1>1, <2>2, CreateRows DEF Create, TypeOK
  <2>3. ASSUME NEW q \in Player, Join(q, k)
        PROVE  \/ p \in membership[k]
               \/ /\ p = q /\ HasNoOpenMembership(q)
                  /\ \A l \in Lobby : l # k => membership'[l] = membership[l]
    BY <1>1, <2>3, JoinRows DEF Join, TypeOK
  <2>4. ASSUME NEW P \in SUBSET Player,
               NEW reason \in {"host_left", "host_disconnected"}, Leave(k, P, reason)
        PROVE  p \in membership[k]
    <3>1. membership'[k] = membership[k] \ P
      BY <2>4, LeaveMembers
    <3> QED
      BY <1>1, <3>1
  <2> QED
    BY <2>1, <2>2, <2>3, <2>4, LobbyStep
<1> QED
  BY <1>1 DEF OneOpenMembership, HasNoOpenMembership

(* No lobby holds more members than its capacity.                           *)
LEMMA WithinCapacityStep ==
    ASSUME TypeOK, WithinCapacity, Transaction
    PROVE  WithinCapacity'
<1> SUFFICES ASSUME NEW k \in Lobby
             PROVE  Cardinality(membership'[k]) <= lobby'[k].capacity
  BY DEF WithinCapacity
<1>1. IsFiniteSet(membership[k])
  BY ConstantsAssumption, FS_Subset DEF TypeOK
<1>2. /\ Cardinality(membership[k]) <= lobby[k].capacity
      /\ Cardinality(membership[k]) \in Nat /\ lobby[k].capacity \in Nat
  BY <1>1, FS_CardinalityType DEF WithinCapacity, TypeOK, LobbyRow
<1>3. CASE Kept(k)
  BY <1>2, <1>3 DEF Kept
<1>4. ASSUME NEW p \in Player, NEW capacity \in Capacity, Create(p, k, capacity)
      PROVE  Cardinality(membership'[k]) <= lobby'[k].capacity
  <2>1. Cardinality({p}) = 1
    BY FS_Singleton
  <2>2. capacity \in Nat /\ 2 <= capacity
    BY ConstantsAssumption
  <2> QED
    <3>1. membership'[k] = {p} /\ lobby'[k].capacity = capacity
      BY <1>4, CreateRows
    <3> QED
      BY <2>1, <2>2, <3>1
<1>5. ASSUME NEW p \in Player, Join(p, k)
      PROVE  Cardinality(membership'[k]) <= lobby'[k].capacity
  <2>1. /\ membership'[k] = membership[k] \cup {p}
        /\ lobby'[k].capacity = lobby[k].capacity /\ HasRoom(k)
    BY <1>5, JoinRows
  <2>2. p \notin membership[k]
    BY <1>5, JoinRows DEF HasNoOpenMembership
  <2>3. Cardinality(membership[k] \cup {p}) = Cardinality(membership[k]) + 1
    BY <1>1, <2>2, FS_AddElement, Zenon
  <2> QED
    BY <1>2, <2>1, <2>3 DEF HasRoom
<1>6. ASSUME NEW P \in SUBSET Player, NEW reason \in {"host_left", "host_disconnected"},
             Leave(k, P, reason)
      PROVE  Cardinality(membership'[k]) <= lobby'[k].capacity
  <2>1. /\ Cardinality(membership[k] \ P) <= Cardinality(membership[k])
        /\ Cardinality(membership[k] \ P) \in Nat
    BY <1>1, FS_Subset, FS_CardinalityType
  <2>2. membership'[k] = membership[k] \ P /\ lobby'[k].capacity = lobby[k].capacity
    BY <1>6, LeaveMembers
  <2> QED
    BY <1>2, <2>1, <2>2
<1> QED
  BY <1>3, <1>4, <1>5, <1>6, LobbyStep

(* Every step either leaves all that a snapshot of k shows as it was or      *)
(* raises the version of k, and every player holds what it held or the      *)
(* current snapshot of some lobby.                                         *)
SameView(k) ==
    /\ lobby'[k] = lobby[k] /\ membership'[k] = membership[k]
    /\ nominated'[k] = nominated[k] /\ config'[k] = config[k]
Newer(k) == lobby'[k].version > lobby[k].version /\ lobby'[k].status # "absent"
Informed ==
    \A p \in Player : seen'[p] = seen[p] \/ \E l \in Lobby : seen'[p] = Snapshot(l)'

(* The response of a store call hands its caller the current snapshot of   *)
(* the lobby and changes what nobody else holds.                           *)
LEMMA RespondInforms ==
    ASSUME TypeOK, NEW q \in Player, NEW l \in Lobby, Respond(q, l)
    PROVE  Informed
BY DEF Respond, Informed, TypeOK

(* Every transaction that changes what a snapshot shows raises             *)
(* row_version, which is what expected_lobby_version fences on.            *)
LEMMA ViewStep ==
    ASSUME TypeOK, AbsentIsUnversioned, Transaction, NEW k \in Lobby
    PROVE  SameView(k) \/ Newer(k)
<1>0. lobby[k] \in LobbyRow /\ lobby[k].version \in Nat
  BY DEF TypeOK, LobbyRow
<1>1. ASSUME NEW q \in Player, NEW l \in Lobby, NEW capacity \in Capacity,
             Create(q, l, capacity)
      PROVE  SameView(k) \/ Newer(k)
  <2>1. CASE l # k
    BY <1>1, <2>1 DEF Create, SameView, TypeOK
  <2>2. CASE l = k
    <3>1. lobby[k].version = 0 /\ lobby'[k].version = 1 /\ lobby'[k].status = "open"
      BY <1>1, <2>2, CreateRows DEF AbsentIsUnversioned
    <3> QED
      BY <1>1, <2>2, <3>1 DEF Create, Newer
  <2> QED
    BY <2>1, <2>2
<1>2. ASSUME NEW q \in Player, NEW l \in Lobby, Join(q, l)
      PROVE  SameView(k) \/ Newer(k)
  <2>1. CASE l # k
    BY <1>2, <2>1 DEF Join, SameView, TypeOK
  <2>2. CASE l = k
    <3>1. lobby'[k].version = lobby[k].version + 1 /\ lobby'[k].status = "open"
      BY <1>2, <2>2, JoinRows DEF IsOpen
    <3> QED
      BY <1>0, <1>2, <3>1 DEF Join, Newer
  <2> QED
    BY <2>1, <2>2
<1>4. ASSUME NEW q \in Player, NEW l \in Lobby, NEW c \in Patches,
             CommitConfiguration(q, l, c)
      PROVE  SameView(k) \/ Newer(k)
  BY <1>0, <1>4, BumpedRowType
  DEF CommitConfiguration, lockHostConfiguration, IsOpen,
      SameView, Newer, TypeOK
<1>5. ASSUME NEW q \in Player, NEW l \in Lobby, NEW b \in BOOLEAN,
             CommitNomination(q, l, b)
      PROVE  SameView(k) \/ Newer(k)
  BY <1>0, <1>5, BumpedRowType
  DEF CommitNomination, IsOpen, SameView, Newer, TypeOK
<1>6. ASSUME NEW q \in Player, NEW l \in Lobby, CommitRound(q, l)
      PROVE  SameView(k) \/ Newer(k)
  BY <1>0, <1>6, BumpedRowType
  DEF CommitRound, lockHostConfiguration, IsOpen, SameView, Newer, TypeOK
<1>7. ASSUME NEW l \in Lobby, NEW i \in DOMAIN rounds[l],
             NEW status \in {"hiding", "hunting"}, UpdateRoundPhase(l, i, status)
      PROVE  SameView(k)
  BY <1>7 DEF UpdateRoundPhase, SameView
<1>8. ASSUME NEW l \in Lobby, NEW P \in SUBSET Player,
             NEW reason \in {"host_left", "host_disconnected"}, Leave(l, P, reason)
      PROVE  SameView(k) \/ Newer(k)
  <2>2. CASE l # k
    BY <1>8, <2>2 DEF Leave, LeaveGuests, MigrateHost, CloseLobby, CloseMemberships,
                      SameView, TypeOK
  <2>3. CASE l = k
    <3>1. lobby'[k].version = lobby[k].version + 1 /\ lobby'[k].status # "absent"
      BY <1>8, <2>3, LeaveMembers
    <3> QED
      BY <1>0, <3>1 DEF Newer
  <2> QED
    BY <2>2, <2>3
<1>9. CASE Unwritten
  BY <1>9 DEF Unwritten, tables, SameView
<1> QED
  BY <1>1, <1>2, <1>4, <1>5, <1>6, <1>7, <1>8, <1>9 DEF Transaction

(* The same of a step of the store, with what players then hold.            *)
LEMMA SnapshotStep ==
    ASSUME TypeOK, AbsentIsUnversioned, [Next]_vars, NEW k \in Lobby
    PROVE  (SameView(k) \/ Newer(k)) /\ Informed
<1>1. SameView(k) \/ Newer(k)
  BY NextIsTransaction, ViewStep
<1>2. ASSUME UNCHANGED seen PROVE Informed
  BY <1>2 DEF Informed
<1>3. ASSUME NEW q \in Player, NEW l \in Lobby, Respond(q, l) PROVE Informed
  BY <1>3, RespondInforms
<1>4. UNCHANGED seen \/ \E q \in Player, l \in Lobby : Respond(q, l)
  BY NextResponds
<1> QED BY <1>1, <1>2, <1>3, <1>4

(* A lobby that does not exist has version 0: Create is the only step that   *)
(* touches it.                                                             *)
LEMMA AbsentStep ==
    ASSUME TypeOK, AbsentIsUnversioned, Transaction
    PROVE  AbsentIsUnversioned'
BY ViewStep DEF AbsentIsUnversioned, SameView, Newer

(* The version a player holds is a number.                                  *)
LEMMA SeenVersionType ==
    ASSUME TypeOK, NEW p \in Player
    PROVE  seen[p].version \in Nat
<1>1. seen[p] \in Snapshots \/ seen[p] = NoSnapshot
  BY DEF TypeOK
<1>2. CASE seen[p] \in Snapshots
  BY <1>2 DEF Snapshots
<1>3. CASE seen[p] = NoSnapshot
  BY <1>3 DEF NoSnapshot
<1> QED
  BY <1>1, <1>2, <1>3

(* A version a player holds is never ahead of the lobby's.                  *)
LEMMA SeenIsPastStep ==
    ASSUME TypeOK, TypeOK', AbsentIsUnversioned, SeenIsPast, [Next]_vars
    PROVE  SeenIsPast'
<1> SUFFICES ASSUME NEW p \in Player, NEW k \in Lobby, seen'[p].lobby = k
             PROVE  seen'[p].version <= lobby'[k].version
  BY DEF SeenIsPast
<1>1. /\ lobby[k].version \in Nat /\ lobby'[k].version \in Nat
      /\ lobby[k].version <= lobby'[k].version
  <2>1. lobby[k].version \in Nat /\ lobby'[k].version \in Nat
    BY DEF TypeOK, LobbyRow
  <2>2. SameView(k) \/ Newer(k)
    BY SnapshotStep
  <2> QED
    BY <2>1, <2>2 DEF SameView, Newer
<1>2. CASE seen'[p] = seen[p]
  <2>1. seen[p].version \in Nat /\ seen[p].version <= lobby[k].version
    BY <1>2, SeenVersionType DEF SeenIsPast
  <2> QED
    BY <1>1, <1>2, <2>1
<1>3. ASSUME NEW l \in Lobby, seen'[p] = Snapshot(l)'
      PROVE  seen'[p].version <= lobby'[k].version
  BY <1>1, <1>3 DEF Snapshot
<1> QED
  BY <1>2, <1>3, SnapshotStep DEF Informed

(* A player whose version is current knows the lobby as it is.               *)
LEMMA VersionStep ==
    ASSUME TypeOK, AbsentIsUnversioned, SeenIsPast, VersionIdentifiesSnapshot,
           [Next]_vars
    PROVE  VersionIdentifiesSnapshot'
<1> SUFFICES ASSUME NEW p \in Player, NEW k \in Lobby, seen'[p].lobby = k,
                    seen'[p].version = lobby'[k].version
             PROVE  seen'[p] = Snapshot(k)'
  BY DEF VersionIdentifiesSnapshot, ExpectsCurrentVersion
<1>1. CASE seen'[p] = seen[p]
  <2>1. /\ seen[p].version <= lobby[k].version
        /\ seen[p].version \in Nat /\ lobby[k].version \in Nat
    BY <1>1, SeenVersionType DEF SeenIsPast, TypeOK, LobbyRow
  <2>2. ~Newer(k)
    BY <1>1, <2>1 DEF Newer
  <2>3. SameView(k)
    BY <2>2, SnapshotStep
  <2>4. seen[p] = Snapshot(k)
    BY <1>1, <2>3 DEF SameView, VersionIdentifiesSnapshot, ExpectsCurrentVersion
  <2> QED
    BY <1>1, <2>3, <2>4 DEF SameView, Snapshot, Contents, IsOpen
<1>2. ASSUME NEW l \in Lobby, seen'[p] = Snapshot(l)'
      PROVE  seen'[p] = Snapshot(k)'
  BY <1>2 DEF Snapshot
<1> QED
  BY <1>1, <1>2, SnapshotStep DEF Informed

(* Nominations belong to members and end when a round begins.               *)
LEMMA NominationsStep ==
    ASSUME TypeOK, HostConsistency, NominationsArePreRound, Transaction
    PROVE  NominationsArePreRound'
<1> SUFFICES ASSUME NEW k \in Lobby
             PROVE  /\ nominated'[k] \subseteq membership'[k]
                    /\ (ActiveRounds(k))' # {} => nominated'[k] = {}
  BY DEF NominationsArePreRound, activeRoundExists
<1> DEFINE Fine == /\ nominated'[k] \subseteq membership'[k]
                   /\ (ActiveRounds(k))' # {} => nominated'[k] = {}
<1>0. /\ nominated[k] \subseteq membership[k]
      /\ ActiveRounds(k) # {} => nominated[k] = {}
  BY DEF NominationsArePreRound, activeRoundExists
<1>1. ASSUME NEW p \in Player, NEW l \in Lobby, NEW capacity \in Capacity,
             Create(p, l, capacity)
      PROVE  Fine
  <2>1. nominated' = nominated /\ rounds' = rounds
    BY <1>1, CreateRows
  <2>2. CASE l = k
    <3>1. lobby[k].status = "absent"
      BY <1>1, <2>2, CreateRows
    <3>2. membership[k] = {}
      BY <3>1 DEF HostConsistency, IsOpen
    <3> QED
      BY <1>0, <2>1, <3>2 DEF ActiveRounds
  <2>3. CASE l # k
    <3>1. membership'[k] = membership[k]
      BY <1>1, <2>3 DEF Create, TypeOK
    <3> QED
      BY <1>0, <2>1, <3>1 DEF ActiveRounds
  <2> QED
    BY <2>2, <2>3
<1>2. ASSUME NEW p \in Player, NEW l \in Lobby, Join(p, l)
      PROVE  Fine
  <2>1. /\ membership[k] \subseteq membership'[k]
        /\ nominated' = nominated /\ rounds' = rounds
    BY <1>2 DEF Join, TypeOK
  <2> QED
    BY <1>0, <2>1 DEF ActiveRounds
<1>3. ASSUME UNCHANGED <<membership, nominated, rounds>>
      PROVE  Fine
  BY <1>0, <1>3 DEF ActiveRounds
<1>4. ASSUME NEW p \in Player, NEW l \in Lobby, NEW b \in BOOLEAN,
             CommitNomination(p, l, b)
      PROVE  Fine
  <2>1. membership' = membership /\ (ActiveRounds(k))' = ActiveRounds(k)
    BY <1>4 DEF CommitNomination, ActiveRounds
  <2>2. CASE l = k
    <3>1. ActiveRounds(k) = {} /\ p \in membership[k]
      BY <1>4, <2>2 DEF CommitNomination, activeRoundExists
    <3>2. nominated'[k] \subseteq nominated[k] \cup {p}
      BY <1>4, <2>2 DEF CommitNomination, TypeOK
    <3> QED
      BY <1>0, <2>1, <3>1, <3>2
  <2>3. CASE l # k
    <3>1. nominated'[k] = nominated[k]
      BY <1>4, <2>3 DEF CommitNomination, TypeOK
    <3> QED
      BY <1>0, <2>1, <3>1
  <2> QED
    BY <2>2, <2>3
<1>5. ASSUME NEW p \in Player, NEW l \in Lobby, CommitRound(p, l)
      PROVE  Fine
  <2>1. membership' = membership
    BY <1>5 DEF CommitRound
  <2>2. CASE l = k
    BY <1>5, <2>1, <2>2 DEF CommitRound, ConsumedNominations, TypeOK
  <2>3. CASE l # k
    BY <1>0, <1>5, <2>1, <2>3 DEF CommitRound, ActiveRounds, TypeOK
  <2> QED
    BY <2>2, <2>3
<1>6. ASSUME NEW l \in Lobby, NEW i \in DOMAIN rounds[l],
             NEW status \in {"hiding", "hunting"}, UpdateRoundPhase(l, i, status)
      PROVE  Fine
  <2>1. (ActiveRounds(k))' = ActiveRounds(k)
    BY <1>6 DEF UpdateRoundPhase, ActiveRounds, TypeOK
  <2> QED
    BY <1>0, <1>6, <2>1 DEF UpdateRoundPhase
<1>7. ASSUME NEW l \in Lobby, NEW P \in SUBSET Player,
             NEW reason \in {"host_left", "host_disconnected"}, Leave(l, P, reason)
      PROVE  Fine
  <2>1. (ActiveRounds(k))' = ActiveRounds(k) \/ (ActiveRounds(k))' = {}
    BY <1>7 DEF Leave, LeaveGuests, MigrateHost, CloseLobby, ActiveRounds, TypeOK
  <2>2. CASE l = k
    <3>1. membership'[k] = membership[k] \ P /\ nominated'[k] = nominated[k] \ P
      BY <1>7, <2>2, LeaveMembers
    <3> QED
      BY <1>0, <2>1, <3>1
  <2>3. CASE l # k
    <3>1. membership'[k] = membership[k] /\ nominated'[k] = nominated[k]
      BY <1>7, <2>3 DEF Leave, LeaveGuests, MigrateHost, CloseLobby,
                        CloseMemberships, TypeOK
    <3> QED
      BY <1>0, <2>1, <3>1
  <2> QED
    BY <2>2, <2>3
<1>8. ASSUME NEW p \in Player, NEW l \in Lobby,
             \E c \in Patches : CommitConfiguration(p, l, c)
      PROVE  Fine
  BY <1>3, <1>8 DEF CommitConfiguration
<1>9. CASE Unwritten
  BY <1>3, <1>9 DEF Unwritten, tables
<1> QED
  BY <1>1, <1>2, <1>4, <1>5, <1>6, <1>7, <1>8, <1>9 DEF Transaction

(* No row is stamped further ahead of the clock than Ahead.                  *)
LEMMA StampsStep ==
    ASSUME TypeOK, StampsArePast, Transaction
    PROVE  StampsArePast'
<1> SUFFICES ASSUME NEW k \in Lobby, NEW p \in Player
             PROVE  joinedAt'[k][p] <= now' + Ahead
  BY DEF StampsArePast
<1>0. /\ joinedAt[k][p] <= now + Ahead /\ joinedAt[k][p] \in Nat
      /\ now \in Nat /\ Ahead \in Nat
  BY ConstantsAssumption DEF StampsArePast, TypeOK
<1>1. ASSUME NEW q \in Player, NEW l \in Lobby,
             (\E capacity \in Capacity : Create(q, l, capacity)) \/ Join(q, l)
      PROVE  joinedAt'[k][p] <= now' + Ahead
  <2>1. PICK t \in {now} \cup DatabaseNow :
          joinedAt' = [joinedAt EXCEPT ![l][q] = t] /\ now' = now
    BY <1>1 DEF Create, Join
  <2>2. t <= now + Ahead
    BY <1>0 DEF DatabaseNow
  <2>3. joinedAt'[k][p] = joinedAt[k][p] \/ joinedAt'[k][p] = t
    BY <2>1 DEF TypeOK
  <2> QED
    BY <1>0, <2>1, <2>2, <2>3
<1>2. ASSUME UNCHANGED joinedAt, now' \in {now, now + 1}
      PROVE  joinedAt'[k][p] <= now' + Ahead
  BY <1>0, <1>2
<1>3. ASSUME NEW q \in Player, NEW l \in Lobby,
             \/ CommitRound(q, l)
             \/ \E c \in Patches : CommitConfiguration(q, l, c)
             \/ \E b \in BOOLEAN : CommitNomination(q, l, b)
      PROVE  UNCHANGED <<joinedAt, now>>
  BY <1>3 DEF CommitRound, CommitConfiguration, CommitNomination
<1>4. ASSUME NEW l \in Lobby, NEW i \in DOMAIN rounds[l],
             NEW status \in {"hiding", "hunting"}, UpdateRoundPhase(l, i, status)
      PROVE  UNCHANGED <<joinedAt, now>>
  BY <1>4 DEF UpdateRoundPhase
<1>5. ASSUME NEW l \in Lobby, NEW P \in SUBSET Player,
             NEW reason \in {"host_left", "host_disconnected"}, Leave(l, P, reason)
      PROVE  joinedAt'[k][p] <= now' + Ahead
  <2>1. CloseMemberships(l, P)
    BY <1>5 DEF Leave, LeaveGuests, MigrateHost, CloseLobby
  <2>2. joinedAt'[k][p] \in {0, joinedAt[k][p]} /\ now' = now
    BY <2>1 DEF CloseMemberships, TypeOK
  <2> QED
    BY <1>0, <2>2
<1>6. CASE Unwritten
  BY <1>2, <1>6 DEF Unwritten, tables
<1> QED
  BY <1>1, <1>2, <1>3, <1>4, <1>5, <1>6 DEF Transaction

(* The host stays senior, as nearly as the stamps can tell.                 *)
LEMMA HostIsSeniorStep ==
    ASSUME TypeOK, HostConsistency, StampsArePast, HostIsSenior, Transaction
    PROVE  HostIsSenior'
<1> SUFFICES ASSUME NEW k \in Lobby, lobby'[k].status = "open", NEW q \in membership'[k]
             PROVE  joinedAt'[k][lobby'[k].host] <= joinedAt'[k][q] + Ahead + Behind
  BY DEF HostIsSenior, IsOpen
<1> USE ConstantsAssumption
<1>1. CASE Kept(k)
  BY <1>1 DEF Kept, HostIsSenior, IsOpen
<1>2. ASSUME NEW p \in Player, NEW capacity \in Capacity, Create(p, k, capacity)
      PROVE  joinedAt'[k][lobby'[k].host] <= joinedAt'[k][q] + Ahead + Behind
  <2>1. lobby'[k].host = p /\ membership'[k] = {p} /\ joinedAt'[k][p] = now
    BY <1>2, CreateRows
  <2> QED
    BY <2>1 DEF TypeOK
<1>3. ASSUME NEW p \in Player, Join(p, k)
      PROVE  joinedAt'[k][lobby'[k].host] <= joinedAt'[k][q] + Ahead + Behind
  <2>1. /\ IsOpen(k) /\ HasNoOpenMembership(p)
        /\ membership'[k] = membership[k] \cup {p} /\ joinedAt'[k][p] \in DatabaseNow
        /\ \A r \in Player : r # p => joinedAt'[k][r] = joinedAt[k][r]
        /\ lobby'[k].host = lobby[k].host
    BY <1>3, JoinRows
  <2>2. lobby[k].host \in membership[k] /\ lobby[k].host # p /\ lobby[k].host \in Player
    BY <2>1 DEF HostConsistency, HasNoOpenMembership, TypeOK
  <2>3. joinedAt[k][lobby[k].host] <= now + Ahead
    BY <2>2 DEF StampsArePast
  <2>4. \A r \in membership[k] :
          joinedAt[k][lobby[k].host] <= joinedAt[k][r] + Ahead + Behind
    BY <2>1 DEF HostIsSenior
  <2>5. /\ q \in Player /\ now \in Nat /\ joinedAt[k][lobby[k].host] \in Nat
        /\ joinedAt'[k][lobby'[k].host] = joinedAt[k][lobby[k].host]
    BY <2>1, <2>2 DEF TypeOK
  <2>6. CASE q = p
    <3>1. now - Behind <= joinedAt'[k][q] /\ joinedAt'[k][q] \in Nat
      BY <2>1, <2>6 DEF DatabaseNow
    <3> QED BY <2>3, <2>5, <3>1
  <2>7. CASE q # p
    BY <2>1, <2>4, <2>5, <2>7
  <2> QED
    BY <2>6, <2>7
<1>4. ASSUME NEW P \in SUBSET Player, NEW reason \in {"host_left", "host_disconnected"},
             Leave(k, P, reason)
      PROVE  joinedAt'[k][lobby'[k].host] <= joinedAt'[k][q] + Ahead + Behind
  <2>1. membership'[k] = membership[k] \ P /\ q \in membership[k]
    BY <1>4, LeaveMembers
  <2>2. IsOpen(k) /\ \A p \in membership'[k] : joinedAt'[k][p] = joinedAt[k][p]
    BY <1>4, LeaveRows DEF IsOpen, Oldest
  <2>3. \/ lobby'[k].host = lobby[k].host /\ lobby[k].host \notin membership[k] \cap P
        \/ lobby'[k].host \in Oldest(k, membership[k] \ P)
    BY <1>4, LeaveRows DEF IsOpen, Oldest
  <2>4. lobby'[k].host \in membership'[k]
    BY <2>1, <2>2, <2>3 DEF HostConsistency, Oldest
  <2>5. joinedAt[k][lobby'[k].host] <= joinedAt[k][q] + Ahead + Behind
    <3>1. lobby'[k].host \in Player /\ q \in Player
      BY <2>1, <2>4 DEF TypeOK
    <3>2. joinedAt[k][lobby'[k].host] \in Nat /\ joinedAt[k][q] \in Nat
      BY <3>1 DEF TypeOK
    <3>3. CASE lobby'[k].host = lobby[k].host
      BY <2>1, <2>2, <3>3 DEF HostIsSenior
    <3>4. CASE lobby'[k].host \in Oldest(k, membership[k] \ P)
      <4>1. joinedAt[k][lobby'[k].host] <= joinedAt[k][q]
        BY <2>1, <3>4 DEF Oldest
      <4> QED BY <3>2, <4>1
    <3> QED
      BY <2>3, <3>3, <3>4
  <2> QED
    BY <2>2, <2>4, <2>5
<1> QED
  BY <1>1, <1>2, <1>3, <1>4, LobbyStep

-----------------------------------------------------------------------------
(* The theorems.                                                           *)

(* The inductive invariant holds of the empty store.                       *)
LEMMA StoreInit == Init => StoreInv
<1> SUFFICES ASSUME Init PROVE StoreInv
  OBVIOUS
<1>1. TypeOK
  BY TypeInit
<1>2. \A l \in Lobby : /\ membership[l] = {} /\ assigned[l] = {} /\ nominated[l] = {}
                        /\ ~IsOpen(l) /\ lobby[l].version = 0 /\ lobby[l].capacity = 0
                        /\ ActiveRounds(l) = {}
  BY DEF Init, NoRow, IsOpen, ActiveRounds
<1>3. /\ HostConsistency /\ OneOpenMembership /\ OneActiveRound
      /\ NominationsArePreRound /\ HostIsSenior /\ AbsentIsUnversioned
  BY <1>2 DEF HostConsistency, OneOpenMembership, OneActiveRound, activeRoundExists,
              NominationsArePreRound, HostIsSenior, AbsentIsUnversioned
<1>4. Cardinality({}) = 0
  BY FS_EmptySet
<1>5. WithinCapacity
  <2> SUFFICES ASSUME NEW l \in Lobby
               PROVE  Cardinality(membership[l]) <= lobby[l].capacity
    BY DEF WithinCapacity
  <2>1. membership[l] = {} /\ lobby[l].capacity = 0
    BY <1>2
  <2>2. Cardinality(membership[l]) = 0
    BY <1>4, <2>1, Zenon
  <2> QED
    BY <2>1, <2>2
<1>6. StampsArePast
  BY ConstantsAssumption DEF Init, StampsArePast
<1>7. SeenIsPast /\ VersionIdentifiesSnapshot
  BY ConstantsAssumption
  DEF Init, NoSnapshot, SeenIsPast, VersionIdentifiesSnapshot, ExpectsCurrentVersion
<1> QED
  BY <1>1, <1>3, <1>5, <1>6, <1>7 DEF StoreInv

(* Every transaction of the store preserves the inductive invariant.       *)
LEMMA StoreStep == StoreInv /\ [Next]_vars => StoreInv'
BY NextIsTransaction, TypeStep, HostConsistencyStep, OneOpenMembershipStep, WithinCapacityStep,
   OneActiveRoundStep, NominationsStep, StampsStep, HostIsSeniorStep, AbsentStep,
   SeenIsPastStep, VersionStep DEF StoreInv

(* The inductive invariant holds in every reachable state of the store.     *)
THEOREM StoreCorrect == Spec => []StoreInv
BY StoreInit, StoreStep, PTL DEF Spec

(* The trigger hc_check_lobby_host_consistency never fires: host row,        *)
(* membership and assignment agree after every transaction.                *)
THEOREM HostAgreement == Spec => []HostConsistency
<1>1. StoreInv => HostConsistency
  BY DEF StoreInv
<1> QED
  BY <1>1, StoreCorrect, PTL

(* Neither Create nor Join ever puts a player in a second lobby, and Join    *)
(* never overfills one.                                                     *)
THEOREM MembershipLimited == Spec => []MembershipIsLimited
<1>1. StoreInv => MembershipIsLimited
  BY DEF StoreInv, MembershipIsLimited
<1> QED
  BY <1>1, StoreCorrect, PTL

(* StartRound never begins a round beside one that is not over, and consumes *)
(* the nominations, which are of open members only.                         *)
THEOREM RoundsExclusive == Spec => []RoundsAreExclusive
<1>1. StoreInv => RoundsAreExclusive
  BY DEF StoreInv, RoundsAreExclusive
<1> QED
  BY <1>1, StoreCorrect, PTL

(* The expected_lobby_version fence is sound: a command that passes it acts  *)
(* on exactly the snapshot its caller holds.                                *)
THEOREM FencingSound == Spec => []VersionIdentifiesSnapshot
<1>1. StoreInv => VersionIdentifiesSnapshot
  BY DEF StoreInv
<1> QED
  BY <1>1, StoreCorrect, PTL

(* Whatever the two clocks that stamp joined_at make of it within their      *)
(* bounds, no member has been in a lobby longer than the host Leave left it  *)
(* with, but for the time both stamps can be off.                           *)
THEOREM SeniorHost == Spec => []HostIsSenior
<1>1. StoreInv => HostIsSenior
  BY DEF StoreInv
<1> QED
  BY <1>1, StoreCorrect, PTL
=============================================================================

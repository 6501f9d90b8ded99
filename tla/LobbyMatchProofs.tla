-------------------------- MODULE LobbyMatchProofs --------------------------
(***************************************************************************)
(* Proofs about LobbyMatch, the match handler composed with the store, for *)
(* any number of players, sessions, lobbies, faults and process losses.    *)
(***************************************************************************)
EXTENDS LobbyMatch, LobbyStoreProofs

-----------------------------------------------------------------------------
(* The inductive invariant.                                                *)

(* The handler's memory has the shape its Go types give it.                 *)
HandlerTypes ==
    /\ up \in BOOLEAN
    /\ cache \in Snapshots \cup {NoSnapshot}
    /\ presences \subseteq Session /\ pendingIDs \subseteq Session
    /\ pendingLeaves \in [Player -> {"none", "host_left", "host_disconnected"}]
    /\ liveRound \in Nat /\ phase \in PhaseSet
    /\ socket \in [Session -> {"offline", "attempted", "joined", "left", "lost"}]
    /\ phase # "none" => liveRound # 0

(* The handler's memory and the surroundings have their types.             *)
MatchTypes ==
    /\ HandlerTypes
    /\ reading \in {v \in Snapshots : v.lobby = L} \cup {NoSnapshot}
    /\ syncOwed \subseteq Player /\ tracked \subseteq Player
    /\ faults \in Nat /\ crashes \in Nat

(* A view of a lobby is of a version the lobby has had, and exact when that *)
(* is still the version.                                                   *)
Exact(v) ==
    \A l \in Lobby : v.lobby = l =>
      /\ v.version <= lobby[l].version
      /\ v.version = lobby[l].version => v = Snapshot(l)

(* A Snapshot in progress counts as a view: what FinishSnapshot installs    *)
(* has the version its first statement read.                               *)
ViewsAreExact ==
    /\ \A p \in Player : Exact(seen[p])
    /\ Exact(cache) /\ Exact(reading)

(* Without a handler there is no live round, and before there is a lobby    *)
(* there is neither a handler nor anybody it has had.                       *)
NothingWithoutHandler ==
    /\ ~up => phase = "none"
    /\ lobby[L].status = "absent" => ~up /\ tracked = {}

(* Nakama's sessions and the handler's maps agree.                          *)
SocketsAreKnown ==
    \A s \in Session :
      /\ socket[s] = "joined" => s \in presences
      /\ socket[s] = "attempted" => s \in pendingIDs
      /\ s \in presences => socket[s] # "offline"

(* A member the handler has had is queued for removal or has a presence     *)
(* whose departure will queue it.                                          *)
MembersAreFollowed ==
    \A p \in tracked :
      p \in membership[L] => p \in Leaving \/ \E s \in presences : Owner[s] = p

(* The inductive invariant of the store under its match handler.            *)
MatchInv ==
    /\ StoreInv /\ MatchTypes /\ ViewsAreExact /\ NothingWithoutHandler
    /\ SocketsAreKnown /\ MembersAreFollowed /\ MirrorTrailsLiveRound

-----------------------------------------------------------------------------
(* What the steps of the match are to the store.                           *)

(* The order of the phases.                                                *)
LEMMA PhaseOrder ==
    /\ PhaseRank("none") = 1 /\ PhaseRank("preparing") = 2 /\ PhaseRank("hiding") = 3
    /\ PhaseRank("hunting") = 4 /\ PhaseRank("terminal") = 5
    /\ PhaseSet = {"none", "preparing", "hiding", "hunting", "terminal"}
<1>1. /\ Phases[1] = "none" /\ Phases[2] = "preparing" /\ Phases[3] = "hiding"
      /\ Phases[4] = "hunting" /\ Phases[5] = "terminal"
  BY DEF Phases
<1>2. \A i \in 1..5 : i = 1 \/ i = 2 \/ i = 3 \/ i = 4 \/ i = 5
  OBVIOUS
<1>3. \A i \in 1..5 : (Phases[i] = "none") = (i = 1)
  BY <1>1, <1>2
<1>4. \A i \in 1..5 : (Phases[i] = "preparing") = (i = 2)
  BY <1>1, <1>2
<1>5. \A i \in 1..5 : (Phases[i] = "hiding") = (i = 3)
  BY <1>1, <1>2
<1>6. \A i \in 1..5 : (Phases[i] = "hunting") = (i = 4)
  BY <1>1, <1>2
<1>7. \A i \in 1..5 : (Phases[i] = "terminal") = (i = 5)
  BY <1>1, <1>2
<1>8. /\ PhaseRank("none") = 1 /\ PhaseRank("preparing") = 2 /\ PhaseRank("hiding") = 3
      /\ PhaseRank("hunting") = 4 /\ PhaseRank("terminal") = 5
  BY <1>3, <1>4, <1>5, <1>6, <1>7 DEF PhaseRank
<1>9. PhaseSet = {"none", "preparing", "hiding", "hunting", "terminal"}
  BY <1>1, <1>2 DEF PhaseSet
<1> QED BY <1>8, <1>9

(* What a late tick writes last is the later of the phases it may write.    *)
LEMMA LastWrittenIs ==
    ASSUME NEW S \in SUBSET {"hiding", "hunting"}, S # {}
    PROVE  LastWritten(S) = IF "hunting" \in S THEN "hunting" ELSE "hiding"
<1>1. CASE "hunting" \in S
  <2>1. \A x \in S : (\A y \in S : PhaseRank(y) <= PhaseRank(x)) <=> x = "hunting"
    BY <1>1, PhaseOrder
  <2> QED BY <1>1, <2>1 DEF LastWritten
<1>2. CASE "hunting" \notin S
  <2>1. S = {"hiding"}
    BY <1>2
  <2>2. \A x \in S : (\A y \in S : PhaseRank(y) <= PhaseRank(x)) <=> x = "hiding"
    BY <2>1, PhaseOrder
  <2> QED BY <1>2, <2>1, <2>2 DEF LastWritten
<1> QED BY <1>1, <1>2

(* A store call on behalf of departed players is one transaction or none.   *)
LEMMA DepartureIsTransaction ==
    ASSUME NEW P \in SUBSET Player, NEW reason \in {"host_left", "host_disconnected"},
           StoreLeave(P, reason) \/ Leave(L, P, reason) \/ UNCHANGED vars
    PROVE  Transaction
<1>1. CASE Leave(L, P, reason)
  BY <1>1, MatchAssumption DEF Transaction
<1>2. CASE UNCHANGED vars
  BY <1>2 DEF vars, Unwritten, Transaction
<1> QED BY <1>1, <1>2 DEF StoreLeave

(* Flushing the queued departures is a transaction of the store or leaves   *)
(* it alone.                                                                *)
LEMMA FlushIsTransaction ==
    ASSUME NEW leaves, NEW gone, FlushPendingLeaves(leaves, gone)
    PROVE  Transaction
<1>1. {p \in Player : leaves[p] # "none"} \in SUBSET Player
  OBVIOUS
<1>2. FlushReason(leaves) \in {"host_left", "host_disconnected"}
  BY DEF FlushReason
<1>3. \/ StoreLeave({p \in Player : leaves[p] # "none"}, FlushReason(leaves))
      \/ Leave(L, {p \in Player : leaves[p] # "none"}, FlushReason(leaves))
      \/ UNCHANGED vars
  BY DEF FlushPendingLeaves
<1> QED BY <1>1, <1>2, <1>3, DepartureIsTransaction

(* A tick writes the phase of the live round or nothing.                    *)
LEMMA AdvanceIsTransaction ==
    ASSUME NEW to \in PhaseSet, LoopAdvance(to)
    PROVE  Transaction
<1>1. PICK failed \in SUBSET Crossed(to) : MirrorPhases(Crossed(to) \ failed)
  BY DEF LoopAdvance
<1> DEFINE written == Crossed(to) \ failed
<1>2. written \in SUBSET {"hiding", "hunting"}
  BY DEF Crossed
<1>3. UNCHANGED <<lobby, membership, joinedAt, nominated, assigned, config, seen, now>>
  BY DEF LoopAdvance
<1>4. CASE written # {} /\ liveRound \in ActiveRounds(L)
  <2>1. LastWritten(written) \in {"hiding", "hunting"}
    BY <1>2, <1>4, LastWrittenIs
  <2>2. rounds' = [rounds EXCEPT ![L][liveRound] = LastWritten(written)]
    BY <1>1, <1>4 DEF MirrorPhases
  <2>3. liveRound \in DOMAIN rounds[L]
    BY <1>4 DEF ActiveRounds
  <2>4. UpdateRoundPhase(L, liveRound, LastWritten(written))
    BY <1>3, <1>4, <2>1, <2>2 DEF UpdateRoundPhase
  <2> QED BY <2>1, <2>3, <2>4, MatchAssumption DEF Transaction
<1>5. CASE ~(written # {} /\ liveRound \in ActiveRounds(L))
  <2>1. UNCHANGED rounds
    BY <1>1, <1>5 DEF MirrorPhases
  <2> QED BY <1>3, <2>1 DEF Transaction, Unwritten, tables
<1> QED BY <1>4, <1>5

(* Every step of the match is a transaction of the store or none.           *)
LEMMA MatchIsTransaction == [MatchNext]_allVars => Transaction
<1> SUFFICES ASSUME [MatchNext]_allVars PROVE Transaction
  OBVIOUS
<1> USE MatchAssumption
<1>0. ASSUME UNCHANGED vars PROVE Transaction
  BY <1>0 DEF vars, Unwritten, Transaction
<1>1. ASSUME NEW p \in Player, CreateRPC(p) \/ JoinRPC(p) PROVE Transaction
  BY <1>1 DEF CreateRPC, JoinRPC, Observe, Transaction, Unwritten
<1>2. ASSUME NEW p \in Player, SyncLost(p) \/ SyncSignal(p) PROVE Transaction
  BY <1>0, <1>2 DEF SyncLost, SyncSignal
<1>3. ASSUME NEW p \in Player, DeliverState(p) PROVE Transaction
  BY <1>3 DEF DeliverState, Transaction, Unwritten
<1>4. ASSUME NEW p \in Player, SignalLeave(p) PROVE Transaction
  BY <1>4, DepartureIsTransaction DEF SignalLeave
<1>5. ASSUME NEW p \in Player, SignalStart(p) PROVE Transaction
  BY <1>5 DEF SignalStart, Transaction
<1>6. ASSUME NEW p \in Player, NEW c \in Patches, SignalUpdateConfiguration(p, c)
      PROVE  Transaction
  BY <1>6 DEF SignalUpdateConfiguration, Transaction
<1>7. ASSUME NEW p \in Player, NEW b \in Toggles, SignalNominate(p, b) PROVE Transaction
  BY <1>7 DEF SignalNominate, Transaction, Unwritten
<1>8. ASSUME NEW s \in Session, MatchJoinAttempt(s) \/ MatchJoin(s) PROVE Transaction
  BY <1>0, <1>8 DEF MatchJoinAttempt, MatchJoin
<1>9. ASSUME NEW s \in Session, NEW why, SocketGone(s, why) PROVE Transaction
  BY <1>0, <1>9 DEF SocketGone
<1>10. ASSUME NEW s \in Session, MatchLeave(s) PROVE Transaction
  BY <1>0, <1>10, FlushIsTransaction DEF MatchLeave
<1>11. CASE MatchInit \/ FinishSnapshot \/ Crash
  BY <1>0, <1>11 DEF MatchInit, FinishSnapshot, Crash
<1>12. CASE MatchLoop
  BY <1>0, <1>12, FlushIsTransaction, AdvanceIsTransaction
  DEF MatchLoop, LoopClosed, LoopFlush
<1>13. CASE UNCHANGED allVars
  BY <1>0, <1>13 DEF allVars
<1>14. CASE ClockTick
  BY <1>14 DEF ClockTick, Tick, Transaction, Unwritten
<1> QED BY <1>1, <1>2, <1>3, <1>4, <1>5, <1>6, <1>7, <1>8, <1>9, <1>10, <1>11, <1>12, <1>13,
           <1>14 DEF MatchNext

-----------------------------------------------------------------------------
(* Views.                                                                  *)

(* A player is answered with the current snapshot or sent the cache.        *)
SeenMoves ==
    /\ seen' = [p \in Player |-> seen'[p]]
    /\ \A p \in Player : seen'[p] = seen[p] \/ seen'[p] = Snapshot(L)' \/ seen'[p] = cache

(* The cache is dropped, replaced by the current snapshot after a call, or   *)
(* installed by the second statement of a Snapshot.                         *)
CacheMoves ==
    \/ cache' = cache \/ cache' = NoSnapshot \/ cache' = Snapshot(L)'
    \/ reading # NoSnapshot /\ cache' = LoadedSnapshot(reading) /\ UNCHANGED vars

(* A Snapshot begins, goes on or ends.                                      *)
ReadingMoves ==
    \/ reading' = reading \/ reading' = NoSnapshot
    \/ reading' = Snapshot(L) /\ UNCHANGED vars

(* An answer and a broadcast each give one player something new.            *)
LEMMA AnswerMoves ==
    ASSUME TypeOK, NEW p \in Player, Respond(p, L)
    PROVE  SeenMoves
BY DEF TypeOK, Respond, SeenMoves

(* A broadcast takes a socket to the cached snapshot.                       *)
LEMMA BroadcastMoves ==
    ASSUME TypeOK, NEW p \in Player, seen' = [seen EXCEPT ![p] = cache]
    PROVE  SeenMoves
BY DEF TypeOK, SeenMoves

(* Without a broadcast the views stay.                                      *)
LEMMA SilenceMoves ==
    ASSUME TypeOK, UNCHANGED seen
    PROVE  SeenMoves
BY DEF TypeOK, SeenMoves

(* Departures answer nobody.                                                *)
LEMMA DepartureIsSilent ==
    ASSUME NEW P, NEW reason, StoreLeave(P, reason) \/ Leave(L, P, reason) \/ UNCHANGED vars
    PROVE  UNCHANGED seen
BY DEF StoreLeave, Leave, LeaveGuests, MigrateHost, CloseLobby, CloseMemberships, vars

(* Flushing moves the views, the cache and a pending reading forward only.  *)
LEMMA FlushMoves ==
    ASSUME TypeOK, NEW leaves, NEW gone, FlushPendingLeaves(leaves, gone)
    PROVE  SeenMoves /\ CacheMoves /\ ReadingMoves
<1>1. \/ StoreLeave({p \in Player : leaves[p] # "none"}, FlushReason(leaves))
      \/ Leave(L, {p \in Player : leaves[p] # "none"}, FlushReason(leaves))
      \/ UNCHANGED vars
  BY DEF FlushPendingLeaves
<1>2. SeenMoves
  BY <1>1, DepartureIsSilent, SilenceMoves
<1>3. CacheMoves /\ ReadingMoves
  BY DEF FlushPendingLeaves, MatchGone, NotReading, CacheMoves, ReadingMoves
<1> QED BY <1>2, <1>3

(* How the views move in a step of the match.                               *)
LEMMA ViewMoves ==
    ASSUME TypeOK, [MatchNext]_allVars
    PROVE  SeenMoves /\ CacheMoves /\ ReadingMoves
<1> DEFINE Goal == SeenMoves /\ CacheMoves /\ ReadingMoves
<1>0. ASSUME UNCHANGED <<seen, cache, reading>> PROVE Goal
  BY <1>0, SilenceMoves DEF CacheMoves, ReadingMoves
<1>1. ASSUME NEW p \in Player, CreateRPC(p) \/ JoinRPC(p) PROVE Goal
  <2>1. Respond(p, L) /\ UNCHANGED <<cache, reading>>
    BY <1>1 DEF CreateRPC, JoinRPC, Create, Join, Observe, matchVars
  <2> QED BY <2>1, AnswerMoves DEF CacheMoves, ReadingMoves
<1>2. ASSUME NEW p \in Player, SyncLost(p) PROVE Goal
  BY <1>0, <1>2 DEF SyncLost, vars, matchVars
<1>3. ASSUME NEW p \in Player, SyncSignal(p) PROVE Goal
  <2>1. UNCHANGED <<seen, cache, vars>> /\ reading' = Snapshot(L)
    BY <1>3 DEF SyncSignal, ReadLobbyRow, vars
  <2> QED BY <2>1, SilenceMoves DEF CacheMoves, ReadingMoves
<1>4. ASSUME NEW p \in Player, DeliverState(p) PROVE Goal
  BY <1>4, BroadcastMoves DEF DeliverState, matchVars, CacheMoves, ReadingMoves
<1>5. ASSUME NEW p \in Player, SignalLeave(p) PROVE Goal
  <2>1. UNCHANGED seen
    BY <1>5, DepartureIsSilent DEF SignalLeave
  <2> QED BY <1>5, <2>1, SilenceMoves DEF SignalLeave, CacheMoves, ReadingMoves
<1>6. ASSUME NEW p \in Player, UNCHANGED reading, (Applied /\ Respond(p, L)) \/ ReplyLost
      PROVE  Goal
  <2>1. SeenMoves
    BY <1>6, AnswerMoves, SilenceMoves DEF ReplyLost
  <2> QED BY <1>6, <2>1 DEF Applied, ReplyLost, CacheMoves, ReadingMoves
<1>7. ASSUME NEW p \in Player, SignalStart(p) PROVE Goal
  <2>1. UNCHANGED reading
    BY <1>7 DEF SignalStart, SignalUnchanged
  <2>2. CASE UNCHANGED <<cache, seen>>
    BY <1>0, <2>1, <2>2
  <2>3. CASE (Applied /\ Respond(p, L)) \/ ReplyLost
    BY <1>6, <2>1, <2>3
  <2> QED BY <1>7, <2>2, <2>3 DEF SignalStart
<1>8. ASSUME NEW p \in Player, NEW c \in Patches, SignalUpdateConfiguration(p, c) PROVE Goal
  <2>1. UNCHANGED reading /\ ((Applied /\ Respond(p, L)) \/ ReplyLost)
    BY <1>8 DEF SignalUpdateConfiguration, SignalUnchanged
  <2> QED BY <1>6, <2>1
<1>9. ASSUME NEW p \in Player, NEW b \in Toggles, SignalNominate(p, b) PROVE Goal
  <2>1. UNCHANGED reading
    BY <1>9 DEF SignalNominate, SignalUnchanged
  <2>2. CASE (Applied /\ Respond(p, L)) \/ ReplyLost
    BY <1>6, <2>1, <2>2
  <2>3. CASE seen' = [seen EXCEPT ![p] = cache] /\ UNCHANGED cache
    BY <2>1, <2>3, BroadcastMoves DEF CacheMoves, ReadingMoves
  <2> QED BY <1>9, <2>2, <2>3 DEF SignalNominate
<1>10. ASSUME NEW s \in Session, MatchJoinAttempt(s) PROVE Goal
  BY <1>0, <1>10 DEF MatchJoinAttempt, vars
<1>11. ASSUME NEW s \in Session, MatchJoin(s) PROVE Goal
  <2>1. UNCHANGED <<seen, cache, vars>> /\ (reading' = Snapshot(L) \/ UNCHANGED reading)
    BY <1>11 DEF MatchJoin, ReadLobbyRow, vars
  <2> QED BY <2>1, SilenceMoves DEF CacheMoves, ReadingMoves
<1>12. ASSUME NEW s \in Session, NEW why, SocketGone(s, why) PROVE Goal
  BY <1>0, <1>12 DEF SocketGone, vars, matchVars
<1>13. ASSUME MatchGone, UNCHANGED vars PROVE Goal
  <2>1. UNCHANGED seen /\ cache' = NoSnapshot /\ reading' = NoSnapshot
    BY <1>13 DEF MatchGone, NotReading, vars
  <2> QED BY <2>1, SilenceMoves DEF CacheMoves, ReadingMoves
<1>14. ASSUME NEW s \in Session, MatchLeave(s) PROVE Goal
  <2>1. ASSUME NEW leaves, FlushPendingLeaves(leaves, {s}) PROVE Goal
    BY <2>1, FlushMoves
  <2>2. CASE UNCHANGED <<vars, cache, reading>>
    BY <1>0, <2>2 DEF vars
  <2>3. CASE MatchGone /\ UNCHANGED vars
    BY <1>13, <2>3
  <2> QED BY <1>14, <2>1, <2>2, <2>3 DEF MatchLeave
<1>15. CASE MatchInit
  <2>1. UNCHANGED <<seen, cache, vars>> /\ reading' = Snapshot(L)
    BY <1>15 DEF MatchInit, ReadLobbyRow, vars
  <2> QED BY <2>1, SilenceMoves DEF CacheMoves, ReadingMoves
<1>16. CASE FinishSnapshot
  <2>1. /\ UNCHANGED <<seen, vars>> /\ reading # NoSnapshot
        /\ cache' = LoadedSnapshot(reading) /\ reading' = NoSnapshot
    BY <1>16 DEF FinishSnapshot, NotReading, vars
  <2> QED BY <2>1, SilenceMoves DEF CacheMoves, ReadingMoves
<1>17. CASE LoopClosed \/ Crash
  BY <1>13, <1>17 DEF LoopClosed, Crash
<1>18. CASE LoopFlush
  BY <1>18, FlushMoves DEF LoopFlush
<1>19. ASSUME NEW to \in PhaseSet, LoopAdvance(to) PROVE Goal
  BY <1>0, <1>19 DEF LoopAdvance
<1>20. CASE UNCHANGED allVars
  BY <1>0, <1>20 DEF allVars, vars, matchVars
<1>21. CASE ClockTick
  BY <1>0, <1>21 DEF ClockTick, Tick, matchVars
<1> QED BY <1>1, <1>2, <1>3, <1>4, <1>5, <1>7, <1>8, <1>9, <1>10, <1>11, <1>12, <1>14,
           <1>15, <1>16, <1>17, <1>18, <1>19, <1>20, <1>21 DEF MatchNext, MatchLoop

(* An exact view stays exact: a transaction that changes what a snapshot    *)
(* shows leaves every view behind.                                          *)
LEMMA ExactStep ==
    ASSUME TypeOK, TablesOK', AbsentIsUnversioned, Transaction,
           NEW v \in Snapshots \cup {NoSnapshot}, Exact(v)
    PROVE  Exact(v)'
<1> SUFFICES ASSUME NEW l \in Lobby, v.lobby = l
             PROVE  /\ v.version <= lobby'[l].version
                    /\ v.version = lobby'[l].version => v = Snapshot(l)'
  BY DEF Exact
<1>1. v.version <= lobby[l].version /\ (v.version = lobby[l].version => v = Snapshot(l))
  BY DEF Exact
<1>2. v.version \in Nat
  <2>1. CASE v \in Snapshots
    BY <2>1 DEF Snapshots
  <2>2. CASE v = NoSnapshot
    BY <2>2 DEF NoSnapshot
  <2> QED BY <2>1, <2>2
<1>3. lobby[l].version \in Nat /\ lobby'[l].version \in Nat
  BY DEF TypeOK, TablesOK, LobbyRow
<1>4. CASE SameView(l)
  <2>1. Snapshot(l)' = Snapshot(l)
    BY <1>4 DEF SameView, Snapshot, Contents, IsOpen
  <2> QED BY <1>1, <1>4, <2>1 DEF SameView
<1>5. CASE Newer(l)
  BY <1>1, <1>2, <1>3, <1>5 DEF Newer
<1> QED BY <1>4, <1>5, ViewStep

(* The snapshot of the tables as a step leaves them is exact then, and none  *)
(* always is.                                                               *)
LEMMA SnapshotIsExact ==
    ASSUME TablesOK', NEW l \in Lobby, NEW n, n = Snapshot(l)'
    PROVE  Exact(n)' /\ n \in Snapshots /\ n.lobby = l
<1>1. lobby'[l].version \in Nat
  BY DEF TablesOK, LobbyRow
<1>2. n.lobby = l /\ n.version = lobby'[l].version
  BY DEF Snapshot
<1>3. Exact(n)'
  BY <1>1, <1>2 DEF Exact
<1>4. n \in Snapshots
  BY DEF TablesOK, Snapshot, Snapshots, Contents, LobbyRow, IsOpen
<1> QED BY <1>2, <1>3, <1>4

(* Having seen nothing is no wrong view.                                    *)
LEMMA NoSnapshotIsExact == Exact(NoSnapshot)
BY ConstantsAssumption DEF Exact, NoSnapshot

(* The second statement of a Snapshot reads members and nominations anew    *)
(* but keeps the version of the first: if that is still the version, no      *)
(* lobby.join came between.                                                 *)
LEMMA LoadedIsExact ==
    ASSUME TypeOK, NEW r \in Snapshots, Exact(r)
    PROVE  LoadedSnapshot(r) \in Snapshots /\ (r.lobby = L => Exact(LoadedSnapshot(r)))
<1> USE MatchAssumption
<1>1. membership[L] \in SUBSET Player /\ nominated[L] \in SUBSET Player
  BY DEF TypeOK
<1>2. LoadedSnapshot(r) \in Snapshots
  BY <1>1 DEF LoadedSnapshot, Snapshots
<1>3. LoadedSnapshot(r).lobby = r.lobby /\ LoadedSnapshot(r).version = r.version
  BY DEF LoadedSnapshot, Snapshots
<1>4. ASSUME r = Snapshot(L) PROVE LoadedSnapshot(r) = r
  <2>1. r.contents.members = membership[L] /\ r.contents.nominees = nominated[L]
    BY <1>4 DEF Snapshot, Contents
  <2>2. /\ LoadedSnapshot(r).contents.members = r.contents.members
        /\ LoadedSnapshot(r).contents.nominees = r.contents.nominees
        /\ LoadedSnapshot(r).contents.host = r.contents.host
        /\ LoadedSnapshot(r).contents.closed = r.contents.closed
        /\ LoadedSnapshot(r).contents.config = r.contents.config
    BY <2>1 DEF LoadedSnapshot, Snapshots
  <2>3. LoadedSnapshot(r).contents = r.contents
    BY <1>2, <2>2 DEF Snapshots
  <2> QED BY <1>2, <1>3, <2>3 DEF Snapshots
<1>5. ASSUME r.lobby = L PROVE Exact(LoadedSnapshot(r))
  <2>1. r.version <= lobby[L].version /\ (r.version = lobby[L].version => r = Snapshot(L))
    BY <1>5 DEF Exact
  <2>2. \A l \in Lobby : LoadedSnapshot(r).lobby = l => l = L
    BY <1>3, <1>5
  <2>3. LoadedSnapshot(r).version = lobby[L].version => LoadedSnapshot(r) = Snapshot(L)
    BY <1>3, <1>4, <2>1
  <2> QED BY <1>3, <2>1, <2>2, <2>3 DEF Exact
<1> QED BY <1>2, <1>5

(* What a view is replaced by is exact after the step.                      *)
LEMMA ViewsStep ==
    ASSUME MatchInv, [MatchNext]_allVars
    PROVE  /\ TypeOK' /\ ViewsAreExact'
           /\ cache' \in Snapshots \cup {NoSnapshot}
           /\ reading' \in {v \in Snapshots : v.lobby = L} \cup {NoSnapshot}
<1> USE MatchAssumption
<1>1. TypeOK /\ AbsentIsUnversioned /\ Transaction /\ TablesOK'
  BY MatchIsTransaction, TablesStep DEF MatchInv, StoreInv
<1>2. SeenMoves /\ CacheMoves /\ ReadingMoves
  BY <1>1, ViewMoves
<1> DEFINE Views == Snapshots \cup {NoSnapshot}
<1>3. ASSUME NEW v \in Views, Exact(v) PROVE Exact(v)'
  BY <1>1, <1>3, ExactStep
<1>4. PICK c : c = cache
  OBVIOUS
<1>5. PICK r : r = reading
  OBVIOUS
<1>6. PICK n : n = Snapshot(L)'
  OBVIOUS
<1>7. c \in Views /\ Exact(c) /\ Exact(c)'
  BY <1>3, <1>4 DEF MatchInv, MatchTypes, HandlerTypes, ViewsAreExact
<1>8. r \in Views /\ Exact(r) /\ Exact(r)' /\ (r # NoSnapshot => r \in Snapshots /\ r.lobby = L)
  BY <1>3, <1>5 DEF MatchInv, MatchTypes, ViewsAreExact
<1>9. n \in Snapshots /\ Exact(n)' /\ n.lobby = L
  BY <1>1, <1>6, SnapshotIsExact
<1>10. NoSnapshot \in Views /\ Exact(NoSnapshot)'
  BY NoSnapshotIsExact, <1>3
<1>11. ASSUME NEW p \in Player PROVE seen'[p] \in Views /\ Exact(seen[p])'
  <2>1. PICK o : o = seen[p]
    OBVIOUS
  <2>2. o \in Views /\ Exact(o)
    BY <1>1, <2>1 DEF TypeOK, MatchInv, ViewsAreExact
  <2>4. Exact(o)'
    BY <1>3, <2>2
  <2>3. seen'[p] = o \/ seen'[p] = n \/ seen'[p] = c
    BY <1>2, <1>4, <1>6, <2>1 DEF SeenMoves
  <2> QED BY <1>7, <1>9, <2>2, <2>3, <2>4 DEF Exact
<1>12. cache' \in Views /\ Exact(cache)'
  <2>1. CASE cache' = c \/ cache' = NoSnapshot \/ cache' = n
    BY <1>7, <1>9, <1>10, <2>1 DEF Exact
  <2>2. CASE r # NoSnapshot /\ cache' = LoadedSnapshot(r) /\ UNCHANGED vars
    <3>1. PICK w : w = LoadedSnapshot(r)
      OBVIOUS
    <3>2. w \in Snapshots /\ Exact(w)
      BY <1>1, <1>8, <2>2, <3>1, LoadedIsExact
    <3>3. Exact(w)'
      BY <1>3, <3>2
    <3> QED BY <2>2, <3>1, <3>2, <3>3 DEF Exact
  <2> QED BY <1>2, <1>4, <1>5, <1>6, <2>1, <2>2 DEF CacheMoves
<1>13. /\ reading' \in {v \in Snapshots : v.lobby = L} \cup {NoSnapshot}
       /\ Exact(reading)'
  <2>1. CASE reading' = r \/ reading' = NoSnapshot
    BY <1>8, <1>10, <2>1 DEF Exact
  <2>2. CASE reading' = Snapshot(L) /\ UNCHANGED vars
    <3>1. reading' = n
      BY <1>6, <2>2 DEF vars, tables, Snapshot, Contents, IsOpen
    <3> QED BY <1>9, <3>1 DEF Exact
  <2> QED BY <1>2, <1>5, <2>1, <2>2 DEF ReadingMoves
<1>14. TypeOK'
  <2>1. seen' \in [Player -> Views]
    <3>1. seen' = [p \in Player |-> seen'[p]]
      BY <1>2 DEF SeenMoves
    <3> QED BY <1>11, <3>1
  <2> QED BY <1>1, <2>1 DEF TypeOK, TablesOK
<1> QED BY <1>11, <1>12, <1>13, <1>14 DEF ViewsAreExact

(* The match handler keeps everything the store promises.                   *)
LEMMA StoreHolds ==
    ASSUME MatchInv, [MatchNext]_allVars
    PROVE  StoreInv'
<1>1. StoreInv /\ Transaction /\ TypeOK' /\ ViewsAreExact'
  BY MatchIsTransaction, ViewsStep DEF MatchInv
<1>2. /\ HostConsistency' /\ OneOpenMembership' /\ WithinCapacity' /\ OneActiveRound'
      /\ NominationsArePreRound' /\ StampsArePast' /\ HostIsSenior' /\ AbsentIsUnversioned'
  BY <1>1, HostConsistencyStep, OneOpenMembershipStep, WithinCapacityStep,
     OneActiveRoundStep, NominationsStep, StampsStep, HostIsSeniorStep, AbsentStep
  DEF StoreInv
<1>3. SeenIsPast' /\ VersionIdentifiesSnapshot'
  <2> SUFFICES ASSUME NEW p \in Player, NEW l \in Lobby, seen'[p].lobby = l
               PROVE  /\ seen'[p].version <= lobby'[l].version
                      /\ seen'[p].version = lobby'[l].version => seen'[p] = Snapshot(l)'
    BY DEF SeenIsPast, VersionIdentifiesSnapshot, ExpectsCurrentVersion
  <2>1. Exact(seen[p])'
    BY <1>1 DEF ViewsAreExact
  <2> QED BY <2>1 DEF Exact
<1> QED BY <1>1, <1>2, <1>3 DEF StoreInv

-----------------------------------------------------------------------------
(* What the handler keeps in memory.                                        *)

(* The part of the invariant that is neither the store's nor about views.   *)
HandlerInv ==
    /\ MatchTypes /\ NothingWithoutHandler
    /\ SocketsAreKnown /\ MembersAreFollowed /\ MirrorTrailsLiveRound

(* What every step may rely on: the invariant before, and the store and the *)
(* views after.                                                            *)
StepContext ==
    /\ MatchInv /\ StoreInv' /\ Transaction
    /\ cache' \in Snapshots \cup {NoSnapshot}
    /\ reading' \in {v \in Snapshots : v.lobby = L} \cup {NoSnapshot}

(* A lobby is created once, and never opened again.                         *)
LEMMA StatusStep ==
    ASSUME StepContext
    PROVE  /\ lobby'[L].status = "absent" => lobby[L].status = "absent"
           /\ lobby'[L].status = "open" => lobby[L].status \in {"absent", "open"}
<1> USE MatchAssumption
<1>1. TypeOK /\ AbsentIsUnversioned /\ Transaction
  BY DEF StepContext, MatchInv, StoreInv
<1>2. SameView(L) \/ Newer(L)
  BY <1>1, ViewStep
<1>3. \/ lobby'[L].status = lobby[L].status
      \/ lobby[L].status \in {"absent", "open"}
  <2>1. \/ Kept(L)
        \/ \E p \in Player, capacity \in Capacity : Create(p, L, capacity)
        \/ \E p \in Player : Join(p, L)
        \/ \E P \in SUBSET Player, reason \in {"host_left", "host_disconnected"} :
             Leave(L, P, reason)
    BY <1>1, LobbyStep
  <2>2. ASSUME NEW P \in SUBSET Player, NEW reason \in {"host_left", "host_disconnected"},
               Leave(L, P, reason)
        PROVE  lobby[L].status = "open"
    BY <2>2 DEF Leave, LeaveGuests, MigrateHost, CloseLobby, CloseMemberships, IsOpen
  <2> QED BY <2>1, <2>2 DEF Kept, Create, Join, IsOpen
<1> QED BY <1>2, <1>3 DEF SameView, Newer

(* Each part of the invariant rests on some variables only.                 *)
LEMMA QuietKept ==
    ASSUME StepContext, UNCHANGED <<up, phase, tracked>>
    PROVE  NothingWithoutHandler'
BY StatusStep DEF StepContext, MatchInv, NothingWithoutHandler

(* Sockets stay known while presences and queued departures stay.           *)
LEMMA SocketsKept ==
    ASSUME StepContext, UNCHANGED <<socket, presences, pendingIDs>>
    PROVE  SocketsAreKnown'
BY DEF StepContext, MatchInv, SocketsAreKnown

(* Members stay followed while nobody new is a member.                      *)
LEMMA FollowedKept ==
    ASSUME StepContext, UNCHANGED <<tracked, presences, pendingLeaves>>,
           membership'[L] \subseteq membership[L]
    PROVE  MembersAreFollowed'
BY DEF StepContext, MatchInv, MembersAreFollowed, Leaving

(* The stored phase still trails the live round if neither moves.           *)
LEMMA MirrorKept ==
    ASSUME StepContext, UNCHANGED <<up, phase, liveRound>>,
           rounds'[L] = rounds[L] \/ ~IsOpen(L)', faults' \in Nat, faults' >= faults
    PROVE  MirrorTrailsLiveRound'
<1> SUFFICES ASSUME up', IsOpen(L)', phase' # "none"
             PROVE  /\ liveRound' \in ActiveRounds(L)'
                    /\ PhaseRank(rounds'[L][liveRound']) <= PhaseRank(phase')
                    /\ faults' = 0 => rounds'[L][liveRound'] =
                         IF phase' = "terminal" THEN "hunting" ELSE phase'
  BY DEF MirrorTrailsLiveRound
<1>1. up /\ phase # "none" /\ rounds'[L] = rounds[L] /\ MirrorTrailsLiveRound
  BY DEF StepContext, MatchInv
<1>2. IsOpen(L)
  <2>1. lobby[L].status # "absent"
    BY <1>1 DEF StepContext, MatchInv, NothingWithoutHandler
  <2> QED BY <2>1, StatusStep DEF IsOpen
<1>3. faults \in Nat /\ (faults' = 0 => faults = 0)
  BY DEF StepContext, MatchInv, MatchTypes
<1>4. ActiveRounds(L)' = ActiveRounds(L)
  BY <1>1 DEF ActiveRounds
<1> QED BY <1>1, <1>2, <1>3, <1>4 DEF MirrorTrailsLiveRound

(* When the match is gone, nothing of it remains to be wrong.               *)
LEMMA GoneKeeps ==
    ASSUME StepContext, MatchGone, faults' \in Nat, crashes' \in Nat
    PROVE  HandlerInv'
<1>1. MatchTypes'
  <2>1. HandlerTypes'
    BY PhaseOrder DEF MatchGone, HandlerTypes, NoLeaves, StepContext
  <2> QED BY <2>1 DEF StepContext, MatchTypes, MatchGone
<1>2. NothingWithoutHandler' /\ SocketsAreKnown' /\ MembersAreFollowed'
  BY DEF MatchGone, NothingWithoutHandler, SocketsAreKnown, MembersAreFollowed
<1>3. MirrorTrailsLiveRound'
  BY DEF MatchGone, MirrorTrailsLiveRound
<1> QED BY <1>1, <1>2, <1>3 DEF HandlerInv

(* A step that leaves the memory and the sockets alone and removes no round *)
(* of an open lobby keeps all of it.                                        *)
LEMMA AsideKeeps ==
    ASSUME StepContext, UNCHANGED <<up, presences, pendingIDs, pendingLeaves, liveRound, phase>>,
           UNCHANGED <<socket, tracked>>, membership'[L] \subseteq membership[L],
           rounds'[L] = rounds[L] \/ ~IsOpen(L)', syncOwed' \subseteq Player,
           faults' \in Nat, faults' >= faults, crashes' \in Nat
    PROVE  HandlerInv'
<1>1. MatchTypes'
  BY DEF StepContext, MatchInv, MatchTypes, HandlerTypes
<1>2. NothingWithoutHandler' /\ SocketsAreKnown' /\ MembersAreFollowed'
  BY QuietKept, SocketsKept, FollowedKept
<1>3. MirrorTrailsLiveRound'
  BY MirrorKept
<1> QED BY <1>1, <1>2, <1>3 DEF HandlerInv

(* The counters of a state the invariant holds in.                          *)
LEMMA Counters ==
    ASSUME StepContext
    PROVE  /\ faults \in Nat /\ crashes \in Nat /\ syncOwed \subseteq Player
           /\ tracked \subseteq Player /\ liveRound \in Nat /\ TypeOK /\ TypeOK'
BY DEF StepContext, MatchInv, MatchTypes, HandlerTypes, StoreInv

(* lobby.create: nobody is tracked before there is a lobby.                 *)
LEMMA CreateRPCKeeps ==
    ASSUME StepContext, NEW p \in Player, CreateRPC(p)
    PROVE  HandlerInv'
<1> USE MatchAssumption
<1>1. PICK capacity \in Capacity : Create(p, L, capacity)
  BY DEF CreateRPC
<1>2. /\ UNCHANGED <<up, presences, pendingIDs, pendingLeaves, liveRound, phase>>
      /\ UNCHANGED <<socket, syncOwed, tracked, faults, crashes>>
  BY DEF CreateRPC, matchVars, envVars
<1>3. lobby[L].status = "absent" /\ rounds' = rounds
  BY <1>1 DEF Create
<1>4. tracked = {}
  BY <1>3 DEF StepContext, MatchInv, NothingWithoutHandler
<1>5. MatchTypes'
  BY <1>2 DEF StepContext, MatchInv, MatchTypes, HandlerTypes
<1>6. NothingWithoutHandler' /\ SocketsAreKnown'
  BY <1>2, QuietKept, SocketsKept
<1>7. MembersAreFollowed'
  BY <1>2, <1>4 DEF MembersAreFollowed
<1>8. MirrorTrailsLiveRound'
  BY <1>2, <1>3, Counters, MirrorKept
<1> QED BY <1>5, <1>6, <1>7, <1>8 DEF HandlerInv

(* lobby.join: a player who is tracked again has a socket in the match.      *)
LEMMA JoinRPCKeeps ==
    ASSUME StepContext, NEW p \in Player, JoinRPC(p)
    PROVE  HandlerInv'
<1> USE MatchAssumption
<1>1. /\ UNCHANGED <<up, presences, pendingIDs, pendingLeaves, liveRound, phase>>
      /\ UNCHANGED <<socket, faults, crashes>> /\ syncOwed' \subseteq Player
  BY Counters DEF JoinRPC, matchVars
<1>2. CASE Observe(p, L) /\ UNCHANGED tracked
  <2>1. membership' = membership /\ rounds' = rounds
    BY <1>2 DEF Observe, tables
  <2> QED BY <1>1, <1>2, <2>1, Counters, AsideKeeps
<1>3. CASE Join(p, L) /\ tracked' = IF InMatch(p) THEN tracked \cup {p} ELSE tracked \ {p}
  <2>1. /\ membership'[L] = membership[L] \cup {p} /\ rounds' = rounds
        /\ lobby[L].status = "open"
    BY <1>3, Counters, JoinRows DEF IsOpen
  <2>2. MatchTypes'
    <3>1. tracked' \subseteq Player
      BY <1>3, Counters
    <3> QED BY <1>1, <3>1 DEF StepContext, MatchInv, MatchTypes, HandlerTypes
  <2>3. NothingWithoutHandler'
    <3>1. lobby'[L].status # "absent"
      BY <2>1, StatusStep
    <3> QED BY <1>1, <3>1 DEF StepContext, MatchInv, NothingWithoutHandler
  <2>4. SocketsAreKnown'
    BY <1>1, SocketsKept
  <2>5. MembersAreFollowed'
    <3> SUFFICES ASSUME NEW q \in tracked', q \in membership'[L]
                 PROVE  q \in Leaving \/ \E s \in presences : Owner[s] = q
      BY <1>1 DEF MembersAreFollowed, Leaving
    <3>1. CASE q = p
      <4>1. InMatch(p)
        BY <1>3, <3>1
      <4>2. PICK s \in SessionsOf(p) : socket[s] = "joined"
        BY <4>1 DEF InMatch
      <4>3. s \in presences /\ Owner[s] = p
        BY <4>2 DEF SessionsOf, StepContext, MatchInv, SocketsAreKnown
      <4> QED BY <3>1, <4>3
    <3>2. CASE q # p
      <4>1. q \in tracked /\ q \in membership[L]
        BY <1>3, <2>1, <3>2
      <4> QED BY <4>1 DEF StepContext, MatchInv, MembersAreFollowed
    <3> QED BY <3>1, <3>2
  <2>6. MirrorTrailsLiveRound'
    BY <1>1, <2>1, Counters, MirrorKept
  <2> QED BY <2>2, <2>3, <2>4, <2>5, <2>6 DEF HandlerInv
<1> QED BY <1>2, <1>3 DEF JoinRPC

(* Steps about views only, and a lost sync signal.                          *)
LEMMA ViewStepsKeep ==
    ASSUME StepContext, NEW p \in Player,
           SyncLost(p) \/ SyncSignal(p) \/ DeliverState(p) \/ FinishSnapshot
    PROVE  HandlerInv'
<1>1. /\ UNCHANGED <<up, presences, pendingIDs, pendingLeaves, liveRound, phase>>
      /\ UNCHANGED <<socket, tracked, crashes, membership, rounds>>
      /\ syncOwed' \subseteq syncOwed /\ (faults' = faults \/ faults' = faults + 1)
  BY DEF SyncLost, SyncSignal, DeliverState, FinishSnapshot, vars, tables, matchVars, envVars
<1> QED BY <1>1, Counters, AsideKeeps

(* MatchInit loads a header, not a live round.                              *)
LEMMA MatchInitKeeps ==
    ASSUME StepContext, MatchInit
    PROVE  HandlerInv'
<1>1. /\ up' = TRUE /\ UNCHANGED <<presences, pendingIDs, pendingLeaves, phase>>
      /\ UNCHANGED <<socket, syncOwed, tracked, faults, crashes, membership, rounds, lobby>>
      /\ ~up /\ lobby[L].status = "open"
  BY DEF MatchInit, vars, tables, envVars, IsOpen
<1>2. phase = "none"
  BY <1>1 DEF StepContext, MatchInv, NothingWithoutHandler
<1>3. liveRound' \in Nat
  <2>1. ActiveRounds(L) \subseteq Nat
    <3>1. rounds[L] \in Seq(RoundStatus)
      BY Counters, MatchAssumption DEF TypeOK
    <3> QED BY <3>1 DEF ActiveRounds
  <2>2. CASE activeRoundExists(L)
    <3>1. liveRound' = CHOOSE i \in ActiveRounds(L) : TRUE
      BY <2>2 DEF MatchInit
    <3>2. liveRound' \in ActiveRounds(L)
      BY <2>2, <3>1 DEF activeRoundExists
    <3> QED BY <2>1, <3>2
  <2>3. CASE ~activeRoundExists(L)
    BY <2>3 DEF MatchInit
  <2> QED BY <2>2, <2>3
<1>4. MatchTypes'
  BY <1>1, <1>2, <1>3 DEF StepContext, MatchInv, MatchTypes, HandlerTypes
<1>5. NothingWithoutHandler'
  BY <1>1, <1>2 DEF NothingWithoutHandler
<1>6. SocketsAreKnown' /\ MembersAreFollowed'
  BY <1>1, SocketsKept, FollowedKept
<1>7. MirrorTrailsLiveRound'
  BY <1>1, <1>2 DEF MirrorTrailsLiveRound
<1> QED BY <1>4, <1>5, <1>6, <1>7 DEF HandlerInv

-----------------------------------------------------------------------------
(* Sessions come and go.                                                    *)

(* A session that is accepted is remembered until it joins.                 *)
LEMMA JoinAttemptKeeps ==
    ASSUME StepContext, NEW s \in Session, MatchJoinAttempt(s)
    PROVE  HandlerInv'
<1>1. /\ UNCHANGED <<up, presences, pendingLeaves, liveRound, phase>>
      /\ UNCHANGED <<syncOwed, tracked, faults, crashes, membership, rounds>>
      /\ pendingIDs' = pendingIDs \cup {s} /\ socket[s] = "offline"
      /\ socket' = [socket EXCEPT ![s] = "attempted"]
  BY DEF MatchJoinAttempt, vars, tables
<1>2. MatchTypes'
  BY <1>1 DEF StepContext, MatchInv, MatchTypes, HandlerTypes
<1>3. NothingWithoutHandler' /\ MembersAreFollowed'
  BY <1>1, QuietKept, FollowedKept
<1>4. SocketsAreKnown'
  BY <1>1 DEF StepContext, MatchInv, MatchTypes, HandlerTypes, SocketsAreKnown
<1>5. MirrorTrailsLiveRound'
  BY <1>1, Counters, MirrorKept
<1> QED BY <1>2, <1>3, <1>4, <1>5 DEF HandlerInv

(* A session that joins is a presence, so that its departure will count.    *)
LEMMA MatchJoinKeeps ==
    ASSUME StepContext, NEW s \in Session, MatchJoin(s)
    PROVE  HandlerInv'
<1> USE MatchAssumption
<1>1. /\ UNCHANGED <<up, pendingLeaves, liveRound, phase>>
      /\ UNCHANGED <<syncOwed, crashes, membership, rounds, lobby>>
      /\ up /\ socket[s] = "attempted"
      /\ presences' = presences \cup ({s} \cap pendingIDs)
      /\ pendingIDs' = pendingIDs \ {s}
      /\ socket' = [socket EXCEPT ![s] = "joined"]
      /\ tracked' = tracked \cup {Owner[s]}
      /\ faults' = faults \/ faults' = faults + 1
  BY DEF MatchJoin, Idle, vars, tables
<1>2. s \in pendingIDs
  BY <1>1 DEF StepContext, MatchInv, SocketsAreKnown
<1>3. presences' = presences \cup {s}
  BY <1>1, <1>2
<1>4. MatchTypes'
  <2>1. tracked' \subseteq Player /\ faults' \in Nat
    BY <1>1, Counters
  <2> QED BY <1>1, <1>3, <2>1 DEF StepContext, MatchInv, MatchTypes, HandlerTypes
<1>5. NothingWithoutHandler'
  BY <1>1 DEF StepContext, MatchInv, NothingWithoutHandler
<1>6. SocketsAreKnown'
  BY <1>1, <1>3 DEF StepContext, MatchInv, MatchTypes, HandlerTypes, SocketsAreKnown
<1>7. MembersAreFollowed'
  BY <1>1, <1>3 DEF StepContext, MatchInv, MembersAreFollowed, Leaving
<1>8. MirrorTrailsLiveRound'
  BY <1>1, Counters, MirrorKept
<1> QED BY <1>4, <1>5, <1>6, <1>7, <1>8 DEF HandlerInv

(* A socket that is gone stays a presence until MatchLeave.                 *)
LEMMA SocketGoneKeeps ==
    ASSUME StepContext, NEW s \in Session, NEW why \in {"left", "lost"}, SocketGone(s, why)
    PROVE  HandlerInv'
<1>1. /\ UNCHANGED <<up, presences, pendingIDs, pendingLeaves, liveRound, phase>>
      /\ UNCHANGED <<syncOwed, tracked, faults, crashes, membership, rounds>>
      /\ socket[s] = "joined" /\ socket' = [socket EXCEPT ![s] = why]
  BY DEF SocketGone, vars, tables, matchVars
<1>2. MatchTypes'
  BY <1>1 DEF StepContext, MatchInv, MatchTypes, HandlerTypes
<1>3. NothingWithoutHandler' /\ MembersAreFollowed'
  BY <1>1, QuietKept, FollowedKept
<1>4. SocketsAreKnown'
  BY <1>1 DEF StepContext, MatchInv, MatchTypes, HandlerTypes, SocketsAreKnown
<1>5. MirrorTrailsLiveRound'
  BY <1>1, Counters, MirrorKept
<1> QED BY <1>2, <1>3, <1>4, <1>5 DEF HandlerInv

-----------------------------------------------------------------------------
(* Departures.                                                              *)

(* A departure that committed has removed whom it names, and left the       *)
(* rounds alone unless it closed the lobby.                                  *)
LEMMA DepartureRows ==
    ASSUME StepContext, NEW P \in SUBSET Player,
           NEW reason \in {"host_left", "host_disconnected"},
           StoreLeave(P, reason) \/ Leave(L, P, reason)
    PROVE  /\ membership'[L] = membership[L] \ P
           /\ rounds'[L] = rounds[L] \/ ~IsOpen(L)'
<1> USE MatchAssumption
<1>1. CASE Leave(L, P, reason)
  <2>1. membership'[L] = membership[L] \ P
    BY <1>1, Counters, LeaveMembers
  <2>2. CASE LeaveGuests(L, P) \/ MigrateHost(L, P, reason)
    BY <2>1, <2>2 DEF LeaveGuests, MigrateHost
  <2>3. CASE CloseLobby(L, P)
    <3>1. lobby'[L] = [BumpedRow(L) EXCEPT !.status = "closed"]
      BY <2>3, Counters DEF CloseLobby, TypeOK
    <3>2. BumpedRow(L) \in LobbyRow
      BY Counters, BumpedRowType DEF TypeOK
    <3>3. lobby'[L].status = "closed"
      BY <3>1, <3>2 DEF LobbyRow
    <3> QED BY <2>1, <3>3 DEF IsOpen
  <2> QED BY <1>1, <2>2, <2>3 DEF Leave
<1>2. CASE (~IsOpen(L) \/ Affected(L, P) = {}) /\ UNCHANGED vars
  <2>1. membership[L] \cap P = {}
    <3>1. CASE ~IsOpen(L)
      BY <3>1 DEF StepContext, MatchInv, StoreInv, HostConsistency
    <3> QED BY <1>2, <3>1 DEF Affected
  <2> QED BY <1>2, <2>1 DEF vars, tables
<1> QED BY <1>1, <1>2 DEF StoreLeave

(* The sessions a departure forgets.                                        *)
LEMMA ForgetKeeps ==
    ASSUME StepContext, NEW gone \in SUBSET Session,
           presences' = presences \ gone, pendingIDs' = pendingIDs \ gone,
           socket' = [s \in Session |-> IF s \in gone THEN "offline" ELSE socket[s]]
    PROVE  /\ SocketsAreKnown'
           /\ presences' \subseteq Session /\ pendingIDs' \subseteq Session
           /\ socket' \in [Session -> {"offline", "attempted", "joined", "left", "lost"}]
BY DEF StepContext, MatchInv, MatchTypes, HandlerTypes, SocketsAreKnown

(* flushPendingLeaves, given every departure so far: what it removes from   *)
(* its map it has removed from the lobby, and what it could not remove it   *)
(* keeps.                                                                   *)
LEMMA FlushKeeps ==
    ASSUME StepContext, NEW gone \in SUBSET Session,
           NEW leaves \in [Player -> {"none", "host_left", "host_disconnected"}],
           \A s \in gone \cap presences : leaves[Owner[s]] # "none",
           \A p \in Leaving : leaves[p] # "none",
           FlushPendingLeaves(leaves, gone), UNCHANGED crashes
    PROVE  HandlerInv'
<1> USE MatchAssumption
<1> DEFINE P == {p \in Player : leaves[p] # "none"}
           reason == FlushReason(leaves)
           Forget == /\ presences' = presences \ gone
                     /\ pendingIDs' = pendingIDs \ gone
                     /\ socket' = [s \in Session |-> IF s \in gone THEN "offline" ELSE socket[s]]
                     /\ UNCHANGED <<up, liveRound, phase, reading, syncOwed, tracked>>
<1>0. P \in SUBSET Player /\ reason \in {"host_left", "host_disconnected"}
  BY DEF FlushReason
<1>1. CASE ~IsOpen(L)' /\ MatchGone /\ UNCHANGED faults
  BY <1>1, Counters, GoneKeeps
<1>2. ASSUME Forget, faults' \in Nat, faults' >= faults,
             rounds'[L] = rounds[L] \/ ~IsOpen(L)', MembersAreFollowed',
             pendingLeaves' \in [Player -> {"none", "host_left", "host_disconnected"}]
      PROVE  HandlerInv'
  <2>1. /\ SocketsAreKnown'
        /\ presences' \subseteq Session /\ pendingIDs' \subseteq Session
        /\ socket' \in [Session -> {"offline", "attempted", "joined", "left", "lost"}]
    BY <1>2, ForgetKeeps
  <2>2. MatchTypes'
    BY <1>2, <2>1 DEF StepContext, MatchInv, MatchTypes, HandlerTypes
  <2>3. NothingWithoutHandler'
    BY <1>2, QuietKept
  <2>4. MirrorTrailsLiveRound'
    BY <1>2, MirrorKept
  <2> QED BY <1>2, <2>1, <2>2, <2>3, <2>4 DEF HandlerInv
<1>3. ASSUME NEW q \in tracked, q \in membership[L], q \notin P
      PROVE  \E s \in presences \ gone : Owner[s] = q
  <2>1. q \in Player /\ q \notin Leaving
    BY <1>3, Counters
  <2>2. PICK s \in presences : Owner[s] = q
    BY <1>3, <2>1 DEF StepContext, MatchInv, MembersAreFollowed
  <2>3. s \notin gone
    BY <1>3, <2>1, <2>2
  <2> QED BY <2>2, <2>3
<1>4. CASE /\ StoreLeave(P, reason) /\ Forget
           /\ pendingLeaves' = NoLeaves /\ UNCHANGED faults
  <2>1. membership'[L] = membership[L] \ P /\ (rounds'[L] = rounds[L] \/ ~IsOpen(L)')
    BY <1>0, <1>4, DepartureRows
  <2>2. MembersAreFollowed'
    BY <1>3, <1>4, <2>1 DEF MembersAreFollowed
  <2>3. pendingLeaves' \in [Player -> {"none", "host_left", "host_disconnected"}]
    BY <1>4 DEF NoLeaves
  <2> QED BY <1>2, <1>4, <2>1, <2>2, <2>3, Counters
<1>5. CASE /\ faults' \in {faults, faults + 1} /\ (Leave(L, P, reason) \/ UNCHANGED vars)
           /\ pendingLeaves' = leaves /\ Forget
  <2>1. membership'[L] \subseteq membership[L] /\ (rounds'[L] = rounds[L] \/ ~IsOpen(L)')
    <3>1. CASE Leave(L, P, reason)
      BY <1>0, <3>1, DepartureRows
    <3>2. CASE UNCHANGED vars
      BY <3>2 DEF vars, tables
    <3> QED BY <1>5, <3>1, <3>2
  <2>2. MembersAreFollowed'
    <3> SUFFICES ASSUME NEW q \in tracked, q \in membership[L]
                 PROVE  leaves[q] # "none" \/ \E s \in presences \ gone : Owner[s] = q
      BY <1>5, <2>1, Counters DEF MembersAreFollowed, Leaving
    <3> QED BY <1>3, Counters
  <2> QED BY <1>2, <1>5, <2>1, <2>2, Counters
<1>6. \/ /\ StoreLeave(P, reason)
         /\ \/ IsOpen(L)' /\ Forget /\ pendingLeaves' = NoLeaves
            \/ ~IsOpen(L)' /\ MatchGone
         /\ UNCHANGED faults
      \/ /\ faults' \in {faults, faults + 1}
         /\ Leave(L, P, reason) \/ UNCHANGED vars
         /\ pendingLeaves' = leaves /\ Forget
  BY DEF FlushPendingLeaves, KeptLeaves
<1> QED BY <1>1, <1>4, <1>5, <1>6

(* MatchLeave queues the departure of a presence before it flushes.         *)
LEMMA MatchLeaveKeeps ==
    ASSUME StepContext, NEW s \in Session, MatchLeave(s)
    PROVE  HandlerInv'
<1> USE MatchAssumption
<1> DEFINE reason == IF socket[s] = "lost" THEN "host_disconnected" ELSE "host_left"
           leaves == IF s \in presences THEN [pendingLeaves EXCEPT ![Owner[s]] = reason]
                     ELSE pendingLeaves
<1>1. /\ leaves \in [Player -> {"none", "host_left", "host_disconnected"}]
      /\ \A q \in {s} \cap presences : leaves[Owner[q]] # "none"
      /\ \A p \in Leaving : leaves[p] # "none"
  <2>1. pendingLeaves \in [Player -> {"none", "host_left", "host_disconnected"}]
    BY DEF StepContext, MatchInv, MatchTypes, HandlerTypes
  <2> QED BY <2>1 DEF Leaving
<1>2. UNCHANGED crashes
  BY DEF MatchLeave
<1>3. CASE FlushPendingLeaves(leaves, {s})
  <2>1. {s} \in SUBSET Session
    OBVIOUS
  <2> HIDE DEF leaves
  <2> QED BY <1>1, <1>2, <1>3, <2>1, FlushKeeps
<1>4. CASE /\ leaves = NoLeaves
           /\ presences' = presences \ {s} /\ pendingIDs' = pendingIDs \ {s}
           /\ socket' = [socket EXCEPT ![s] = "offline"]
           /\ UNCHANGED <<vars, up, cache, pendingLeaves, liveRound, phase,
                          reading, syncOwed, tracked, faults>>
  <2>1. s \notin presences /\ presences' = presences
    BY <1>1, <1>4 DEF NoLeaves
  <2>2. UNCHANGED <<membership, rounds>>
    BY <1>4 DEF vars, tables
  <2>3. SocketsAreKnown'
    BY <1>4, <2>1 DEF StepContext, MatchInv, MatchTypes, HandlerTypes, SocketsAreKnown
  <2>4. MatchTypes'
    BY <1>2, <1>4 DEF StepContext, MatchInv, MatchTypes, HandlerTypes
  <2>5. NothingWithoutHandler' /\ MembersAreFollowed'
    BY <1>4, <2>1, <2>2, QuietKept, FollowedKept
  <2>6. MirrorTrailsLiveRound'
    BY <1>4, <2>2, Counters, MirrorKept
  <2> QED BY <2>3, <2>4, <2>5, <2>6 DEF HandlerInv
<1>5. CASE MatchGone /\ UNCHANGED faults
  BY <1>2, <1>5, Counters, GoneKeeps
<1> QED BY <1>3, <1>4, <1>5 DEF MatchLeave

(* lobby.leave closes the membership before the presences are dropped.      *)
LEMMA SignalLeaveKeeps ==
    ASSUME StepContext, NEW p \in Player, SignalLeave(p)
    PROVE  HandlerInv'
<1> USE MatchAssumption
<1>1. /\ UNCHANGED <<up, pendingIDs, pendingLeaves, liveRound, phase, syncOwed, crashes>>
      /\ up /\ tracked' = tracked \cup {p}
      /\ faults' = faults \/ faults' = faults + 1
  BY DEF SignalLeave, Idle
<1>2. membership'[L] = membership[L] \ {p} /\ (rounds'[L] = rounds[L] \/ ~IsOpen(L)')
  BY DepartureRows DEF SignalLeave
<1>3. \/ UNCHANGED <<presences, socket>>
      \/ /\ presences' = presences \ SessionsOf(p)
         /\ socket' = [s \in Session |->
                         IF s \in presences \cap SessionsOf(p) /\ socket[s] = "joined"
                         THEN "left" ELSE socket[s]]
  BY DEF SignalLeave
<1>4. SocketsAreKnown'
  BY <1>1, <1>3 DEF StepContext, MatchInv, MatchTypes, HandlerTypes, SocketsAreKnown
<1>5. MatchTypes'
  <2>1. /\ presences' \subseteq Session
        /\ socket' \in [Session -> {"offline", "attempted", "joined", "left", "lost"}]
    BY <1>3 DEF StepContext, MatchInv, MatchTypes, HandlerTypes
  <2>2. tracked' \subseteq Player /\ faults' \in Nat
    BY <1>1, Counters
  <2> QED BY <1>1, <2>1, <2>2 DEF StepContext, MatchInv, MatchTypes, HandlerTypes
<1>6. NothingWithoutHandler'
  BY <1>1, StatusStep DEF StepContext, MatchInv, NothingWithoutHandler
<1>7. MembersAreFollowed'
  <2> SUFFICES ASSUME NEW q \in tracked', q \in membership'[L]
               PROVE  q \in Leaving \/ \E s \in presences' : Owner[s] = q
    BY <1>1 DEF MembersAreFollowed, Leaving
  <2>1. q # p /\ q \in tracked /\ q \in membership[L]
    BY <1>1, <1>2
  <2>2. CASE q \in Leaving
    BY <2>2
  <2>3. CASE q \notin Leaving
    <3>1. PICK s \in presences : Owner[s] = q
      BY <2>1, <2>3 DEF StepContext, MatchInv, MembersAreFollowed
    <3>2. s \in presences'
      BY <1>3, <2>1, <3>1 DEF SessionsOf
    <3> QED BY <3>1, <3>2
  <2> QED BY <2>2, <2>3
<1>8. MirrorTrailsLiveRound'
  BY <1>1, <1>2, Counters, MirrorKept
<1> QED BY <1>4, <1>5, <1>6, <1>7, <1>8 DEF HandlerInv

-----------------------------------------------------------------------------
(* Fenced commands.                                                         *)

(* A configuration or a nomination leaves members and rounds alone.         *)
LEMMA FencedKeeps ==
    ASSUME StepContext, NEW p \in Player,
           \/ \E c \in Patches : SignalUpdateConfiguration(p, c)
           \/ \E b \in Toggles : SignalNominate(p, b)
    PROVE  HandlerInv'
<1>1. /\ UNCHANGED <<up, presences, pendingIDs, pendingLeaves, liveRound, phase>>
      /\ UNCHANGED <<socket, syncOwed, tracked, crashes>>
  BY DEF SignalUpdateConfiguration, SignalNominate, SignalUnchanged
<1>2. UNCHANGED <<membership, rounds>>
  BY DEF SignalUpdateConfiguration, SignalNominate, CommitConfiguration, CommitNomination, tables
<1>3. faults' = faults \/ faults' = faults + 1
  BY DEF SignalUpdateConfiguration, SignalNominate, Applied, ReplyLost
<1> QED BY <1>1, <1>2, <1>3, Counters, AsideKeeps

(* round.start: the live round begins where its durable header does.        *)
LEMMA SignalStartKeeps ==
    ASSUME StepContext, NEW p \in Player, SignalStart(p)
    PROVE  HandlerInv'
<1> USE MatchAssumption
<1>1. /\ UNCHANGED <<up, presences, pendingIDs, pendingLeaves>>
      /\ UNCHANGED <<socket, syncOwed, tracked, crashes, membership>>
      /\ liveRound = 0 /\ faults' \in Nat /\ up
      /\ rounds' = [rounds EXCEPT ![L] = Append(@, "preparing")]
  <2>1. faults' = faults \/ faults' = faults + 1
    BY DEF SignalStart, Applied, ReplyLost
  <2> QED BY <2>1, Counters DEF SignalStart, SignalUnchanged, CommitRound, Idle
<1>2. phase = "none"
  BY <1>1 DEF StepContext, MatchInv, MatchTypes, HandlerTypes
<1>3. \/ UNCHANGED <<liveRound, phase>>
      \/ liveRound' = Len(rounds[L]) + 1 /\ phase' = "preparing"
  BY DEF SignalStart, NextSequence
<1>4. rounds[L] \in Seq(RoundStatus) /\ rounds'[L] = Append(rounds[L], "preparing")
  BY <1>1, Counters DEF TypeOK
<1>5. MatchTypes'
  <2>1. liveRound' \in Nat /\ phase' \in PhaseSet /\ (phase' # "none" => liveRound' # 0)
    BY <1>1, <1>2, <1>3, <1>4, PhaseOrder
  <2> QED BY <1>1, <2>1 DEF StepContext, MatchInv, MatchTypes, HandlerTypes
<1>6. NothingWithoutHandler'
  BY <1>1, StatusStep DEF StepContext, MatchInv, NothingWithoutHandler
<1>7. SocketsAreKnown' /\ MembersAreFollowed'
  BY <1>1, SocketsKept, FollowedKept
<1>8. MirrorTrailsLiveRound'
  <2>1. CASE UNCHANGED <<liveRound, phase>>
    BY <1>2, <2>1 DEF MirrorTrailsLiveRound
  <2>2. CASE liveRound' = Len(rounds[L]) + 1 /\ phase' = "preparing"
    <3>1. liveRound' \in DOMAIN rounds'[L] /\ rounds'[L][liveRound'] = "preparing"
      BY <1>4, <2>2
    <3>2. liveRound' \in ActiveRounds(L)'
      BY <3>1 DEF ActiveRounds
    <3> QED BY <2>2, <3>1, <3>2, PhaseOrder DEF MirrorTrailsLiveRound
  <2> QED BY <1>3, <2>1, <2>2
<1> QED BY <1>5, <1>6, <1>7, <1>8 DEF HandlerInv

-----------------------------------------------------------------------------
(* The loop.                                                                *)

(* The phases a tick crosses, and what it must write.                       *)
LEMMA CrossedIs ==
    ASSUME NEW to \in PhaseSet, phase \in PhaseSet, phase # "none",
           PhaseRank(phase) < PhaseRank(to)
    PROVE  /\ Crossed(to) \in SUBSET {"hiding", "hunting"}
           /\ \A x \in Crossed(to) : PhaseRank(x) <= PhaseRank(to)
           /\ Crossed(to) = {} => phase = "hunting" /\ to = "terminal"
           /\ Crossed(to) # {} =>
                LastWritten(Crossed(to)) = IF to = "terminal" THEN "hunting" ELSE to
           /\ to # "none"
<1>1. /\ phase \in {"preparing", "hiding", "hunting", "terminal"}
      /\ to \in {"none", "preparing", "hiding", "hunting", "terminal"}
  BY PhaseOrder
<1>2. Crossed(to) \in SUBSET {"hiding", "hunting"}
  BY DEF Crossed
<1>3. \A x \in Crossed(to) : PhaseRank(x) <= PhaseRank(to)
  BY DEF Crossed
<1>4. /\ "hiding" \in Crossed(to) <=> PhaseRank(phase) < 3 /\ 3 <= PhaseRank(to)
      /\ "hunting" \in Crossed(to) <=> PhaseRank(phase) < 4 /\ 4 <= PhaseRank(to)
  BY PhaseOrder DEF Crossed
<1>5. \/ phase = "preparing" /\ to \in {"hiding", "hunting", "terminal"}
      \/ phase = "hiding" /\ to \in {"hunting", "terminal"}
      \/ phase = "hunting" /\ to = "terminal"
  BY <1>1, PhaseOrder
<1>6. Crossed(to) = {} => phase = "hunting" /\ to = "terminal"
  BY <1>4, <1>5, PhaseOrder
<1>7. ASSUME Crossed(to) # {}
      PROVE  LastWritten(Crossed(to)) = IF to = "terminal" THEN "hunting" ELSE to
  <2>1. LastWritten(Crossed(to)) = IF "hunting" \in Crossed(to) THEN "hunting" ELSE "hiding"
    BY <1>2, <1>7, LastWrittenIs
  <2>2. CASE to = "hiding"
    BY <1>4, <2>1, <2>2, PhaseOrder
  <2>3. CASE to \in {"hunting", "terminal"}
    <3>1. phase # "hunting"
      <4>1. ASSUME phase = "hunting" PROVE FALSE
        <5>1. "hiding" \notin Crossed(to) /\ "hunting" \notin Crossed(to)
          BY <1>4, <4>1, PhaseOrder
        <5> QED BY <1>2, <1>7, <5>1
      <4> QED BY <4>1
    <3>2. "hunting" \in Crossed(to)
      BY <1>4, <1>5, <2>3, <3>1, PhaseOrder
    <3> QED BY <2>1, <2>3, <3>2
  <2> QED BY <1>5, <2>2, <2>3
<1> QED BY <1>2, <1>3, <1>5, <1>6, <1>7

(* The mirror of a live round that advances: a write that fails leaves it   *)
(* behind, and without a failure the last phase written is the live one.    *)
LEMMA LoopAdvanceKeeps ==
    ASSUME StepContext, NEW to \in PhaseSet, LoopAdvance(to)
    PROVE  HandlerInv'
<1> USE MatchAssumption
<1>1. /\ UNCHANGED <<up, presences, pendingIDs, pendingLeaves, liveRound>>
      /\ UNCHANGED <<socket, syncOwed, tracked, crashes, membership, lobby>>
      /\ up /\ liveRound # 0 /\ phase # "none" /\ phase' = to
      /\ PhaseRank(phase) < PhaseRank(to)
  BY DEF LoopAdvance, Idle
<1>2. PICK failed \in SUBSET Crossed(to) :
        /\ faults' = faults + Cardinality(failed)
        /\ MirrorPhases(Crossed(to) \ failed)
  BY DEF LoopAdvance
<1>3. phase \in PhaseSet
  BY DEF StepContext, MatchInv, MatchTypes, HandlerTypes
<1> DEFINE written == Crossed(to) \ failed
<1>4. /\ Crossed(to) \in SUBSET {"hiding", "hunting"}
      /\ \A x \in Crossed(to) : PhaseRank(x) <= PhaseRank(to)
      /\ Crossed(to) = {} => phase = "hunting" /\ to = "terminal"
      /\ Crossed(to) # {} =>
           LastWritten(Crossed(to)) = IF to = "terminal" THEN "hunting" ELSE to
      /\ to # "none"
  BY <1>1, <1>3, CrossedIs
<1>5. /\ faults' \in Nat
      /\ faults' = 0 => faults = 0 /\ failed = {}
  <2>1. IsFiniteSet({"hiding", "hunting"})
    <3>1. IsFiniteSet({"hiding"} \cup {"hunting"})
      BY FS_Singleton, FS_AddElement
    <3>2. {"hiding"} \cup {"hunting"} = {"hiding", "hunting"}
      OBVIOUS
    <3> QED BY <3>1, <3>2
  <2>2. IsFiniteSet(failed)
    BY <1>2, <1>4, <2>1, FS_Subset
  <2>3. Cardinality(failed) \in Nat /\ (Cardinality(failed) = 0 => failed = {})
    BY <2>2, FS_CardinalityType, FS_EmptySet
  <2> QED BY <1>2, <2>3, Counters
<1>6. MatchTypes'
  BY <1>1, <1>4, <1>5 DEF StepContext, MatchInv, MatchTypes, HandlerTypes
<1>7. NothingWithoutHandler'
  BY <1>1 DEF StepContext, MatchInv, NothingWithoutHandler
<1>8. SocketsAreKnown' /\ MembersAreFollowed'
  BY <1>1, SocketsKept, FollowedKept
<1>9. MirrorTrailsLiveRound'
  <2> SUFFICES ASSUME IsOpen(L)
               PROVE  /\ liveRound \in ActiveRounds(L)'
                      /\ PhaseRank(rounds'[L][liveRound]) <= PhaseRank(to)
                      /\ faults' = 0 => rounds'[L][liveRound] =
                           IF to = "terminal" THEN "hunting" ELSE to
    BY <1>1 DEF MirrorTrailsLiveRound, IsOpen
  <2>1. /\ liveRound \in ActiveRounds(L)
        /\ PhaseRank(rounds[L][liveRound]) <= PhaseRank(phase)
        /\ faults = 0 => rounds[L][liveRound] =
             IF phase = "terminal" THEN "hunting" ELSE phase
    BY <1>1 DEF StepContext, MatchInv, MirrorTrailsLiveRound
  <2>2. CASE written = {}
    <3>1. rounds' = rounds
      BY <1>2, <2>2 DEF MirrorPhases
    <3>2. ActiveRounds(L)' = ActiveRounds(L)
      BY <3>1 DEF ActiveRounds
    <3>3. PhaseRank(rounds[L][liveRound]) <= PhaseRank(to)
      <4>1. rounds[L][liveRound] \in {"preparing", "hiding", "hunting"}
        BY <2>1, Counters DEF TypeOK, ActiveRounds, RoundStatus
      <4> QED BY <1>1, <1>3, <2>1, <4>1, PhaseOrder
    <3>4. ASSUME faults' = 0 PROVE rounds[L][liveRound] = IF to = "terminal" THEN "hunting" ELSE to
      <4>1. Crossed(to) = {}
        BY <1>5, <2>2, <3>4
      <4> QED BY <1>4, <1>5, <2>1, <3>4, <4>1
    <3> QED BY <2>1, <3>1, <3>2, <3>3, <3>4
  <2>3. CASE written # {}
    <3>1. rounds' = [rounds EXCEPT ![L][liveRound] = LastWritten(written)]
      BY <1>2, <2>1, <2>3 DEF MirrorPhases
    <3>2. LastWritten(written) \in written /\ LastWritten(written) \in {"hiding", "hunting"}
      <4>1. written \in SUBSET {"hiding", "hunting"}
        BY <1>4
      <4> HIDE DEF written
      <4>2. LastWritten(written) = IF "hunting" \in written THEN "hunting" ELSE "hiding"
        BY <2>3, <4>1, LastWrittenIs
      <4> QED BY <2>3, <4>1, <4>2
    <3>3. /\ rounds'[L][liveRound] = LastWritten(written)
          /\ DOMAIN rounds'[L] = DOMAIN rounds[L]
      BY <2>1, <3>1, Counters DEF TypeOK, ActiveRounds
    <3>4. liveRound \in ActiveRounds(L)'
      BY <2>1, <3>2, <3>3 DEF ActiveRounds
    <3>5. ASSUME faults' = 0 PROVE rounds'[L][liveRound] = IF to = "terminal" THEN "hunting" ELSE to
      <4>1. written = Crossed(to)
        BY <1>5, <3>5
      <4> QED BY <1>4, <2>3, <3>3, <4>1
    <3> QED BY <1>4, <3>2, <3>3, <3>4, <3>5
  <2> QED BY <2>2, <2>3
<1> QED BY <1>6, <1>7, <1>8, <1>9 DEF HandlerInv

-----------------------------------------------------------------------------
(* Every step, and the theorems.                                            *)

(* One case for each disjunct of MatchNext.                                 *)
LEMMA HandlerStep ==
    ASSUME StepContext, [MatchNext]_allVars
    PROVE  HandlerInv'
<1>1. ASSUME NEW p \in Player, CreateRPC(p) PROVE HandlerInv'
  BY <1>1, CreateRPCKeeps
<1>2. ASSUME NEW p \in Player, JoinRPC(p) PROVE HandlerInv'
  BY <1>2, JoinRPCKeeps
<1>3. ASSUME NEW p \in Player, SyncLost(p) \/ SyncSignal(p) \/ DeliverState(p)
      PROVE  HandlerInv'
  BY <1>3, ViewStepsKeep
<1>4. ASSUME NEW p \in Player, SignalLeave(p) PROVE HandlerInv'
  BY <1>4, SignalLeaveKeeps
<1>5. ASSUME NEW p \in Player, SignalStart(p) PROVE HandlerInv'
  BY <1>5, SignalStartKeeps
<1>6. ASSUME NEW p \in Player,
             \/ \E c \in Patches : SignalUpdateConfiguration(p, c)
             \/ \E b \in Toggles : SignalNominate(p, b)
      PROVE  HandlerInv'
  BY <1>6, FencedKeeps
<1>7. ASSUME NEW s \in Session, MatchJoinAttempt(s) PROVE HandlerInv'
  BY <1>7, JoinAttemptKeeps
<1>8. ASSUME NEW s \in Session, MatchJoin(s) PROVE HandlerInv'
  BY <1>8, MatchJoinKeeps
<1>9. ASSUME NEW s \in Session, MatchLeave(s) PROVE HandlerInv'
  BY <1>9, MatchLeaveKeeps
<1>10. ASSUME NEW s \in Session, NEW why \in {"left", "lost"}, SocketGone(s, why)
       PROVE  HandlerInv'
  BY <1>10, SocketGoneKeeps
<1>11. CASE MatchInit
  BY <1>11, MatchInitKeeps
<1>12. CASE FinishSnapshot
  <2>1. /\ UNCHANGED <<up, presences, pendingIDs, pendingLeaves, liveRound, phase>>
        /\ UNCHANGED <<socket, syncOwed, tracked, faults, crashes, membership, rounds>>
    BY <1>12 DEF FinishSnapshot, vars, tables, envVars
  <2> QED BY <2>1, Counters, AsideKeeps
<1>13. CASE LoopClosed \/ Crash
  <2>1. MatchGone /\ UNCHANGED faults /\ (crashes' = crashes \/ crashes' = crashes + 1)
    BY <1>13 DEF LoopClosed, Crash
  <2> QED BY <2>1, Counters, GoneKeeps
<1>14. CASE LoopFlush
  <2>1. pendingLeaves \in [Player -> {"none", "host_left", "host_disconnected"}]
    BY DEF StepContext, MatchInv, MatchTypes, HandlerTypes
  <2>2. FlushPendingLeaves(pendingLeaves, {}) /\ UNCHANGED crashes
    BY <1>14 DEF LoopFlush
  <2>3. \A p \in Leaving : pendingLeaves[p] # "none"
    BY DEF Leaving
  <2> QED BY <2>1, <2>2, <2>3, FlushKeeps
<1>15. ASSUME NEW to \in PhaseSet, LoopAdvance(to) PROVE HandlerInv'
  BY <1>15, LoopAdvanceKeeps
<1>16. CASE UNCHANGED allVars
  <2>1. /\ UNCHANGED <<up, presences, pendingIDs, pendingLeaves, liveRound, phase>>
        /\ UNCHANGED <<socket, syncOwed, tracked, faults, crashes, membership, rounds>>
    BY <1>16 DEF allVars, vars, tables, matchVars, envVars
  <2> QED BY <2>1, Counters, AsideKeeps
<1>17. CASE ClockTick
  <2>1. /\ UNCHANGED <<up, presences, pendingIDs, pendingLeaves, liveRound, phase>>
        /\ UNCHANGED <<socket, syncOwed, tracked, faults, crashes, membership, rounds>>
    BY <1>17 DEF ClockTick, Tick, tables, matchVars, envVars
  <2> QED BY <2>1, Counters, AsideKeeps
<1> QED BY <1>1, <1>2, <1>3, <1>4, <1>5, <1>6, <1>7, <1>8, <1>9, <1>10, <1>11, <1>12,
           <1>13, <1>14, <1>15, <1>16, <1>17 DEF MatchNext, MatchLoop

(* A lobby without a handler satisfies the invariant.                       *)
LEMMA MatchStart == MatchInitial => MatchInv
<1> SUFFICES ASSUME MatchInitial PROVE MatchInv
  OBVIOUS
<1>1. StoreInv
  BY StoreInit DEF MatchInitial
<1>2. MatchTypes
  <2>1. phase \in PhaseSet
    BY PhaseOrder DEF MatchInitial
  <2> QED BY <2>1 DEF MatchInitial, MatchTypes, HandlerTypes, NoLeaves, NotReading
<1>3. ViewsAreExact
  <2>1. cache = NoSnapshot /\ reading = NoSnapshot /\ \A p \in Player : seen[p] = NoSnapshot
    BY DEF MatchInitial, Init, NotReading
  <2> QED BY <2>1, NoSnapshotIsExact DEF ViewsAreExact, Exact
<1>4. NothingWithoutHandler /\ SocketsAreKnown /\ MembersAreFollowed /\ MirrorTrailsLiveRound
  BY DEF MatchInitial, NothingWithoutHandler, SocketsAreKnown, MembersAreFollowed,
         MirrorTrailsLiveRound
<1> QED BY <1>1, <1>2, <1>3, <1>4 DEF MatchInv

(* Every step of store, handler, clients and process keeps the invariant.   *)
LEMMA MatchStep == MatchInv /\ [MatchNext]_allVars => MatchInv'
<1> SUFFICES ASSUME MatchInv, [MatchNext]_allVars PROVE MatchInv'
  OBVIOUS
<1>1. StoreInv' /\ Transaction
  BY StoreHolds, MatchIsTransaction
<1>2. /\ ViewsAreExact'
      /\ cache' \in Snapshots \cup {NoSnapshot}
      /\ reading' \in {v \in Snapshots : v.lobby = L} \cup {NoSnapshot}
  BY ViewsStep
<1>3. StepContext
  BY <1>1, <1>2 DEF StepContext
<1>4. HandlerInv'
  BY <1>3, HandlerStep
<1> QED BY <1>1, <1>2, <1>4 DEF MatchInv, HandlerInv

(* The store under its match handler, with store calls that fail before or  *)
(* after they commit and processes that are lost, keeps MatchInv.           *)
THEOREM MatchCorrect == MatchSpec => []MatchInv
BY MatchStart, MatchStep, PTL DEF MatchSpec

(* The handler is not the store's Next: its commands fail after they commit, *)
(* it answers from a cache and broadcasts one that may be stale.  Everything *)
(* LobbyStore promises still holds.                                         *)
THEOREM HandlerKeepsStore == MatchSpec => []StoreInv
<1>1. MatchInv => StoreInv
  BY DEF MatchInv
<1> QED BY <1>1, MatchCorrect, PTL

(* A view with the current version is exact, although Store.Snapshot reads   *)
(* in two statements and lobby.join commits outside the match: the version   *)
(* was read first.                                                          *)
THEOREM FencedViewsExact == MatchSpec => []FencedViewsAreExact
<1>1. MatchInv => FencedViewsAreExact
  <2> SUFFICES ASSUME MatchInv, NEW v \in {cache} \cup {seen[p] : p \in Player},
                      v.lobby = L, v.version = lobby[L].version
               PROVE  v = Snapshot(L)
    BY DEF FencedViewsAreExact
  <2>1. CASE v = cache
    BY <2>1, MatchAssumption DEF MatchInv, ViewsAreExact, Exact
  <2>2. ASSUME NEW p \in Player, v = seen[p] PROVE v = Snapshot(L)
    BY <2>2, MatchAssumption DEF MatchInv, ViewsAreExact, Exact
  <2> QED BY <2>1, <2>2
<1> QED BY <1>1, MatchCorrect, PTL

(* No failed or repeated store call makes flushPendingLeaves forget the      *)
(* departure of a member this handler has had.                              *)
THEOREM DeparturesRemembered == MatchSpec => []NoForgottenDeparture
<1>1. MatchInv => NoForgottenDeparture
  <2> SUFFICES ASSUME MatchInv, NEW p \in tracked, p \in membership[L],
                      \A s \in SessionsOf(p) : socket[s] = "offline"
               PROVE  p \in Leaving
    BY DEF NoForgottenDeparture
  <2>1. ASSUME NEW s \in presences, Owner[s] = p PROVE FALSE
    BY <2>1 DEF MatchInv, MatchTypes, HandlerTypes, SocketsAreKnown, SessionsOf
  <2> QED BY <2>1 DEF MatchInv, MembersAreFollowed
<1> QED BY <1>1, MatchCorrect, PTL

(* The durable phase UpdateRoundPhase writes trails the live one, and is it  *)
(* as long as no write failed, whatever deadlines one tick crosses.          *)
THEOREM MirrorTrails == MatchSpec => []MirrorTrailsLiveRound
<1>1. MatchInv => MirrorTrailsLiveRound
  BY DEF MatchInv
<1> QED BY <1>1, MatchCorrect, PTL
=============================================================================

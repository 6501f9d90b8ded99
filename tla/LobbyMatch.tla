----------------------------- MODULE LobbyMatch -----------------------------
(***************************************************************************)
(* The live half of one lobby: runtime/nakama/lobby_match.go, the Nakama   *)
(* match handler that owns presences and the live round, composed with the *)
(* durable store of LobbyStore and with the RPCs of lobby_runtime.go.      *)
(*                                                                         *)
(* Nakama runs the handlers of a match one at a time, so a handler is one  *)
(* action, except that Store.Snapshot is two statements outside any         *)
(* transaction (the lobby row, then the members): a lobby.join, whose      *)
(* transaction runs outside the match, can commit between them.            *)
(*                                                                         *)
(* Store calls fail in two ways: rolled back, or committed with the reply  *)
(* lost.  `faults' counts both, `crashes' the losses of the whole process. *)
(***************************************************************************)
EXTENDS LobbyStore

CONSTANTS
    L,            \* the lobby this match is bound to
    Session,      \* Nakama socket sessions
    Owner,        \* the player a session is bridged to
    Toggles,      \* the nomination values players send
    MaxFaults, MaxCrashes

ASSUME MatchAssumption ==
    /\ L \in Lobby
    /\ Owner \in [Session -> Player]
    /\ Toggles \subseteq BOOLEAN
    /\ MaxFaults \in Nat /\ MaxCrashes \in Nat

VARIABLES
    up,             \* a match handler for the lobby is running
    cache,          \* state.Snapshot
    presences,      \* sessions in state.Presences
    pendingIDs,     \* sessions in state.PendingPlayerIDs
    pendingLeaves,  \* state.PendingLeaves: reason by player
    liveRound,      \* sequence number of state.Round, 0 for nil
    phase,          \* state.CasualRound.Phase, "none" for nil
    reading,        \* what a Snapshot in progress found when it began
    socket,         \* what Nakama knows of each session
    syncOwed,       \* players whose lobby.join has committed and not returned
    tracked,        \* history: players who, since their membership opened,
                    \* were in this match or asked to leave
    faults, crashes

matchVars == <<up, cache, presences, pendingIDs, pendingLeaves, liveRound, phase, reading>>
envVars == <<socket, syncOwed, tracked, faults, crashes>>
allVars == <<vars, matchVars, envVars>>

-----------------------------------------------------------------------------
Phases == <<"none", "preparing", "hiding", "hunting", "terminal">>
PhaseRank(x) == CHOOSE i \in 1..5 : Phases[i] = x
PhaseSet == {Phases[i] : i \in 1..5}

NotReading == NoSnapshot
NoLeaves == [p \in Player |-> "none"]
Leaving == {p \in Player : pendingLeaves[p] # "none"}

SessionsOf(p) == {s \in Session : Owner[s] = p}
InMatch(p) == \E s \in SessionsOf(p) : socket[s] = "joined"
Connected(p) == \E s \in SessionsOf(p) : socket[s] \in {"attempted", "joined"}

MatchInitial ==
    /\ Init
    /\ up = FALSE /\ cache = NoSnapshot
    /\ presences = {} /\ pendingIDs = {} /\ pendingLeaves = NoLeaves
    /\ liveRound = 0 /\ phase = "none" /\ reading = NotReading
    /\ socket = [s \in Session |-> "offline"]
    /\ syncOwed = {} /\ tracked = {}
    /\ faults = 0 /\ crashes = 0

(* A handler can run: the match is up and not inside a Snapshot.            *)
Idle == up /\ reading = NotReading

(* The match ends (a handler returned nil) or its process is lost: memory   *)
(* is gone and Nakama drops every session of the match.                    *)
MatchGone ==
    /\ up' = FALSE /\ cache' = NoSnapshot
    /\ presences' = {} /\ pendingIDs' = {} /\ pendingLeaves' = NoLeaves
    /\ liveRound' = 0 /\ phase' = "none" /\ reading' = NotReading
    /\ socket' = [s \in Session |-> "offline"]
    /\ syncOwed' = {} /\ tracked' = {}

-----------------------------------------------------------------------------
(* RPCs outside the match, and ensureLobbyMatch.                            *)

CreateRPC(p) ==
    /\ \E capacity \in Capacity : Create(p, L, capacity)
    /\ UNCHANGED <<matchVars, envVars>>

(* lobby.join commits before the match hears of it.                        *)
JoinRPC(p) ==
    /\ p \notin syncOwed
    /\ syncOwed' = syncOwed \cup {p}
    /\ \/ /\ Join(p, L)
          /\ tracked' = IF InMatch(p) THEN tracked \cup {p} ELSE tracked \ {p}
       \/ Observe(p, L) /\ UNCHANGED tracked
    /\ UNCHANGED <<matchVars, socket, faults, crashes>>

(* The sync signal is best effort: sendLobbySignal's error is dropped.      *)
SyncLost(p) ==
    /\ p \in syncOwed /\ faults < MaxFaults
    /\ syncOwed' = syncOwed \ {p}
    /\ faults' = faults + 1
    /\ UNCHANGED <<vars, matchVars, socket, tracked, crashes>>

(* Store.Snapshot: the first statement reads the lobby row, with its host,  *)
(* configuration and version, the second the members and their nominations; *)
(* applyLiveLobbyState installs the result.                                *)
ReadLobbyRow == reading' = Snapshot(L)

MutantMembersFirst(r) ==
    [Snapshot(L) EXCEPT !.contents.members = r.contents.members,
                        !.contents.nominees = r.contents.nominees]
LoadedSnapshot(r) ==
    [r EXCEPT !.contents.members = membership[L], !.contents.nominees = nominated[L]]

(* MatchInit, on behalf of whichever RPC found no running match: the live    *)
(* round of a previous handler is not rebuilt, only its header is loaded.   *)
MatchInit ==
    /\ ~up /\ IsOpen(L)
    /\ up' = TRUE
    /\ ReadLobbyRow
    /\ liveRound' = IF activeRoundExists(L)
                    THEN CHOOSE i \in ActiveRounds(L) : TRUE ELSE 0
    /\ UNCHANGED <<vars, cache, presences, pendingIDs, pendingLeaves, phase,
                   envVars>>

SyncSignal(p) ==
    /\ Idle /\ p \in syncOwed
    /\ syncOwed' = syncOwed \ {p}
    /\ ReadLobbyRow
    /\ UNCHANGED <<vars, up, cache, presences, pendingIDs, pendingLeaves,
                   liveRound, phase, socket, tracked, faults, crashes>>

FinishSnapshot ==
    /\ up /\ reading # NotReading
    /\ cache' = LoadedSnapshot(reading)
    /\ reading' = NotReading
    /\ UNCHANGED <<vars, up, presences, pendingIDs, pendingLeaves, liveRound,
                   phase, envVars>>

(* broadcastState: a tracked player is sent the cached snapshot.            *)
DeliverState(p) ==
    /\ Idle /\ \E s \in presences : Owner[s] = p
    /\ seen' = [seen EXCEPT ![p] = cache]
    /\ UNCHANGED <<tables, now, matchVars, envVars>>

-----------------------------------------------------------------------------
(* Joining the match.                                                      *)

(* MatchJoinAttempt.  single_socket: a second live socket of a player       *)
(* closes the first, whose MatchLeave may still be on its way.              *)
MatchJoinAttempt(s) ==
    /\ Idle /\ ~cache.contents.closed
    /\ socket[s] = "offline" /\ ~Connected(Owner[s])
    /\ IsOpenMember(L, Owner[s])
    /\ pendingIDs' = pendingIDs \cup {s}
    /\ socket' = [socket EXCEPT ![s] = "attempted"]
    /\ UNCHANGED <<vars, up, cache, presences, pendingLeaves, liveRound, phase,
                   reading, syncOwed, tracked, faults, crashes>>

(* MatchJoin: the refresh that follows may fail, leaving the old snapshot.  *)
MatchJoin(s) ==
    /\ Idle /\ socket[s] = "attempted"
    /\ presences' = presences \cup ({s} \cap pendingIDs)
    /\ pendingIDs' = pendingIDs \ {s}
    /\ socket' = [socket EXCEPT ![s] = "joined"]
    /\ tracked' = tracked \cup {Owner[s]}
    /\ \/ ReadLobbyRow /\ UNCHANGED faults
       \/ faults < MaxFaults /\ faults' = faults + 1 /\ UNCHANGED reading
    /\ UNCHANGED <<vars, up, cache, pendingLeaves, liveRound, phase,
                   syncOwed, crashes>>

(* The socket is closed by the client or lost; MatchLeave comes later.      *)
SocketGone(s, why) ==
    /\ socket[s] = "joined"
    /\ socket' = [socket EXCEPT ![s] = why]
    /\ UNCHANGED <<vars, matchVars, syncOwed, faults, crashes, tracked>>

-----------------------------------------------------------------------------
(* Departures.                                                             *)

(* Store.Leave: a call that finds nothing to close changes nothing.         *)
StoreLeave(P, reason) ==
    \/ Leave(L, P, reason)
    \/ /\ ~IsOpen(L) \/ Affected(L, P) = {}
       /\ UNCHANGED vars

(* flushPendingLeaves: host_disconnected when the host, by the cached        *)
(* snapshot, is among those who lost their connection.                     *)
FlushReason(leaves) ==
    IF cache.contents.host \in Player /\ leaves[cache.contents.host] = "host_disconnected"
    THEN "host_disconnected" ELSE "host_left"

MutantForget(leaves) == NoLeaves
KeptLeaves(leaves) == leaves

(* The outcomes of flushPendingLeaves at the end of MatchLeave and in the   *)
(* loop: persisted, persisted and the lobby now closed (the handler returns *)
(* nil), or an error, after a rollback or after a commit; rolled back too,  *)
(* every time it is tried, while a joined_at is ahead of the clock.         *)
FlushPendingLeaves(leaves, gone) ==
    LET P == {p \in Player : leaves[p] # "none"}
        reason == FlushReason(leaves)
        Forget ==
          /\ presences' = presences \ gone
          /\ pendingIDs' = pendingIDs \ gone
          /\ socket' = [s \in Session |-> IF s \in gone THEN "offline" ELSE socket[s]]
          /\ UNCHANGED <<up, liveRound, phase, reading, syncOwed, tracked>>
    IN
    \/ /\ StoreLeave(P, reason)
       /\ \/ /\ IsOpen(L)' /\ Forget
             /\ cache' = Snapshot(L)' /\ pendingLeaves' = NoLeaves
          \/ ~IsOpen(L)' /\ MatchGone
       /\ UNCHANGED faults
    \/ /\ \/ /\ faults < MaxFaults /\ faults' = faults + 1
             /\ Leave(L, P, reason) \/ UNCHANGED vars
          \/ ~ClockAdmits(L, P) /\ UNCHANGED <<vars, faults>>
       /\ pendingLeaves' = KeptLeaves(leaves)
       /\ Forget /\ UNCHANGED cache

MatchLeave(s) ==
    /\ Idle /\ socket[s] \in {"left", "lost"}
    /\ LET reason == IF socket[s] = "lost" THEN "host_disconnected" ELSE "host_left"
           leaves == IF s \in presences
                     THEN [pendingLeaves EXCEPT ![Owner[s]] = reason]
                     ELSE pendingLeaves
       IN \/ leaves # NoLeaves /\ FlushPendingLeaves(leaves, {s})
          \/ /\ leaves = NoLeaves /\ ~cache.contents.closed
             /\ presences' = presences \ {s}
             /\ pendingIDs' = pendingIDs \ {s}
             /\ socket' = [socket EXCEPT ![s] = "offline"]
             /\ UNCHANGED <<vars, up, cache, pendingLeaves, liveRound, phase,
                            reading, syncOwed, tracked, faults>>
          \/ /\ leaves = NoLeaves /\ cache.contents.closed
             /\ MatchGone /\ UNCHANGED <<vars, faults>>
    /\ UNCHANGED crashes

(* The lobby.leave RPC.  Only a successful call kicks the player's sockets; *)
(* an older pending leave of the same player stays queued.                 *)
SignalLeave(p) ==
    /\ Idle /\ p \notin syncOwed
    /\ tracked' = tracked \cup {p}
    /\ \/ /\ StoreLeave({p}, "host_left")
          /\ cache' = Snapshot(L)'
          /\ presences' = presences \ SessionsOf(p)
          /\ socket' = [s \in Session |->
                          IF s \in presences \cap SessionsOf(p) /\ socket[s] = "joined"
                          THEN "left" ELSE socket[s]]
          /\ UNCHANGED faults
       \/ /\ faults < MaxFaults /\ faults' = faults + 1
          /\ Leave(L, {p}, "host_left")
          /\ UNCHANGED <<cache, presences, socket>>
    /\ UNCHANGED <<up, pendingIDs, pendingLeaves, liveRound, phase, reading,
                   syncOwed, crashes>>

-----------------------------------------------------------------------------
(* Fenced commands, signalled to the match.  Each may commit and still      *)
(* report an error, in which case the handler keeps what it had.  A client  *)
(* waits for the answer of the RPC it made before it makes another.         *)

Applied == cache' = Snapshot(L)' /\ UNCHANGED faults
ReplyLost ==
    /\ faults < MaxFaults /\ faults' = faults + 1
    /\ UNCHANGED <<cache, seen>>

SignalUnchanged ==
    UNCHANGED <<up, presences, pendingIDs, pendingLeaves, reading, socket,
                syncOwed, tracked, crashes>>

SignalUpdateConfiguration(p, c) ==
    /\ Idle /\ p \notin syncOwed
    /\ CommitConfiguration(p, L, c)
    /\ (Applied /\ Respond(p, L)) \/ ReplyLost
    /\ UNCHANGED <<liveRound, phase>> /\ SignalUnchanged

(* A nomination that repeats what the cache holds is answered from it.      *)
SignalNominate(p, isNominated) ==
    /\ Idle /\ p \notin syncOwed /\ liveRound = 0
    /\ \/ /\ (p \in cache.contents.nominees) # isNominated
          /\ CommitNomination(p, L, isNominated)
          /\ (Applied /\ Respond(p, L)) \/ ReplyLost
       \/ /\ (p \in cache.contents.nominees) = isNominated
          /\ seen[p].lobby = L /\ seen[p].version = cache.version
          /\ seen' = [seen EXCEPT ![p] = cache]
          /\ UNCHANGED <<tables, now, cache, faults>>
    /\ UNCHANGED <<liveRound, phase>> /\ SignalUnchanged

(* The mode is checked on the cache and again by newCasualRoundState, by    *)
(* when a round of another mode is committed and stays without a live one.  *)
SignalStart(p) ==
    /\ Idle /\ p \notin syncOwed /\ liveRound = 0
    /\ cache.contents.config.mode = "casual"
    /\ CommitRound(p, L)
    /\ \/ /\ config[L].mode = "casual"
          /\ liveRound' = NextSequence(L) /\ phase' = "preparing"
          /\ Applied /\ Respond(p, L)
       \/ /\ config[L].mode # "casual"
          /\ UNCHANGED <<liveRound, phase, cache, faults, seen>>
       \/ ReplyLost /\ UNCHANGED <<liveRound, phase>>
    /\ SignalUnchanged

-----------------------------------------------------------------------------
(* The match loop.                                                         *)

LoopClosed ==
    /\ Idle /\ cache.contents.closed
    /\ MatchGone
    /\ UNCHANGED <<vars, faults, crashes>>

LoopFlush ==
    /\ Idle /\ ~cache.contents.closed /\ Leaving # {}
    /\ FlushPendingLeaves(pendingLeaves, {})
    /\ UNCHANGED crashes

(* Advance crosses every deadline that has passed, possibly several in one  *)
(* tick, and UpdateRoundPhase is tried for each of the two durable phases.  *)
Crossed(to) ==
    {x \in {"hiding", "hunting"} : PhaseRank(phase) < PhaseRank(x)
                                   /\ PhaseRank(x) <= PhaseRank(to)}
MutantEarliest(S) == CHOOSE x \in S : \A y \in S : PhaseRank(x) <= PhaseRank(y)
LastWritten(S) == CHOOSE x \in S : \A y \in S : PhaseRank(y) <= PhaseRank(x)

MirrorPhases(written) ==
    IF written # {} /\ liveRound \in ActiveRounds(L)
    THEN rounds' = [rounds EXCEPT ![L][liveRound] = LastWritten(written)]
    ELSE UNCHANGED rounds

(* Advance, or the shot that finds the last hider (to = "terminal").        *)
LoopAdvance(to) ==
    /\ Idle /\ ~cache.contents.closed /\ Leaving = {}
    /\ liveRound # 0 /\ phase # "none"
    /\ PhaseRank(phase) < PhaseRank(to)
    /\ phase' = to
    /\ \E failed \in SUBSET Crossed(to) :
         /\ faults + Cardinality(failed) <= MaxFaults
         /\ faults' = faults + Cardinality(failed)
         /\ MirrorPhases(Crossed(to) \ failed)
    /\ UNCHANGED <<lobby, membership, joinedAt, nominated, assigned, config, seen, now>>
    /\ UNCHANGED <<up, cache, presences, pendingIDs, pendingLeaves, liveRound,
                   reading, socket, syncOwed, tracked, crashes>>

(* The Nakama process is lost or shut down (MatchTerminate persists nothing).*)
Crash ==
    /\ up /\ crashes < MaxCrashes
    /\ crashes' = crashes + 1
    /\ MatchGone
    /\ UNCHANGED <<vars, faults>>

MatchLoop == LoopClosed \/ LoopFlush \/ \E to \in PhaseSet : LoopAdvance(to)

ClockTick == Tick /\ UNCHANGED <<matchVars, envVars>>

MatchNext ==
    \/ \E p \in Player :
         \/ CreateRPC(p) \/ JoinRPC(p) \/ SyncLost(p) \/ SyncSignal(p)
         \/ DeliverState(p) \/ SignalLeave(p) \/ SignalStart(p)
         \/ \E c \in Patches : SignalUpdateConfiguration(p, c)
         \/ \E b \in Toggles : SignalNominate(p, b)
    \/ \E s \in Session :
         \/ MatchJoinAttempt(s) \/ MatchJoin(s) \/ MatchLeave(s)
         \/ \E why \in {"left", "lost"} : SocketGone(s, why)
    \/ MatchInit \/ FinishSnapshot \/ MatchLoop \/ Crash \/ ClockTick

MatchSpec == MatchInitial /\ [][MatchNext]_allVars

(* Nakama selects fairly between the tick of a running match and its queued *)
(* calls, ends the call it is making and delivers the departure of every    *)
(* session it has closed; lobby.join keeps the loop waiting only in turn.   *)
(* The clock of the process goes on.                                       *)
MatchFairness ==
    /\ WF_allVars(FinishSnapshot) /\ WF_allVars(ClockTick)
    /\ SF_allVars(LoopClosed \/ LoopFlush)
    /\ \A s \in Session : SF_allVars(MatchLeave(s))

FairMatchSpec == MatchSpec /\ MatchFairness

-----------------------------------------------------------------------------
(* Properties.                                                             *)

(* Though the handler's Snapshot reads the lobby row and the members in two *)
(* statements with lobby.join free to commit between them, no view with the *)
(* lobby's current version is wrong: neither the handler's cache nor the    *)
(* snapshot any client fences its commands with.                           *)
FencedViewsAreExact ==
    \A v \in {cache} \cup {seen[p] : p \in Player} :
      v.lobby = L /\ v.version = lobby[L].version => v = Snapshot(L)

(* A player this handler has had in the match, who is still an open member  *)
(* and has neither a socket nor an undelivered departure, is queued for     *)
(* removal: no failed or repeated store call makes the handler forget a     *)
(* departure.                                                              *)
NoForgottenDeparture ==
    \A p \in tracked :
      p \in membership[L] /\ (\A s \in SessionsOf(p) : socket[s] = "offline")
        => p \in Leaving

(* The durable phase of a live round trails the live phase, and equals it   *)
(* (terminal is never written) as long as no write failed, even when one    *)
(* late tick crosses several deadlines.                                    *)
MirrorTrailsLiveRound ==
    up /\ IsOpen(L) /\ phase # "none" =>
      /\ liveRound \in ActiveRounds(L)
      /\ LET status == rounds[L][liveRound] IN
         /\ PhaseRank(status) <= PhaseRank(phase)
         /\ faults = 0 => status = IF phase = "terminal" THEN "hunting" ELSE phase

(* README.md: "Disconnecting or leaving closes the membership": a           *)
(* membership is closed only for a player who, since it was opened, was in  *)
(* the match or asked to leave.                                            *)
OnlyDepartedMembershipsClose ==
    [][membership[L] \ membership'[L] \subseteq tracked \cup tracked']_allVars

(* A member whose sockets are all gone is removed from the lobby unless the *)
(* player comes back first or the process is lost, though a store call may  *)
(* fail and the clock of the database may have stamped a join of any of     *)
(* those who left with a time the departures have yet to reach.             *)
DeparturesReachTheStore ==
    \A p \in Player :
      (p \in tracked /\ p \in membership[L] /\ ~Connected(p))
        ~> (p \notin membership[L] \/ Connected(p) \/ ~up)
=============================================================================

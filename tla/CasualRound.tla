---------------------------- MODULE CasualRound -----------------------------
(***************************************************************************)
(* The authoritative Casual round: runtime/nakama/casual_round.go, role    *)
(* selection of round_scaffold.go, and the round half of MatchLoop in      *)
(* lobby_match.go.                                                         *)
(*                                                                         *)
(* One iteration of the loop samples the clock once, advances the phase    *)
(* and then handles every queued fire command with that same sample, so    *)
(* `now' is the sample of the current iteration and Loop moves it by any   *)
(* delay: a late tick may cross several deadlines at once.                 *)
(***************************************************************************)
EXTENDS Integers, FiniteSets, Sequences

CONSTANTS
    Member, Nominee, HunterCount,       \* what StartRound read
    HidingDuration, HuntingDuration, ReloadDuration, ShellLimit,
    Command, Aim,                       \* command IDs and aim slots sent
    NoHider,
    MaxCommands,                        \* maximumProcessedCommands
    MaxDelay, MaxTime                   \* bounds on the clock

ASSUME RoundAssumption ==
    /\ IsFiniteSet(Member) /\ Nominee \subseteq Member /\ NoHider \notin Member
    /\ HunterCount \in 1..(Cardinality(Member) - 1)
    /\ {HidingDuration, HuntingDuration, ReloadDuration, ShellLimit,
        MaxCommands, MaxDelay} \subseteq Nat \ {0}
    /\ Aim \subseteq Nat \ {0} /\ MaxTime \in Nat

VARIABLES
    hunters,      \* players assigned the hunter role
    hidingSlot,   \* HidingSlot of the others
    now,          \* the loop's sample of the clock, 0 at StartedAt
    phase, deadline, winningSide, completionReason,
    discoveries,  \* Discoveries, in order
    shells,       \* ShellsRemaining, by hunter
    reloadUntil,  \* by hunter, 0 before the first shot
    commands      \* Commands, by hunter and command ID

assignment == <<hunters, hidingSlot>>
vars == <<assignment, now, phase, deadline, winningSide, completionReason,
          discoveries, shells, reloadUntil, commands>>

-----------------------------------------------------------------------------
PreparingDuration == 2
HuntingStarts == PreparingDuration + HidingDuration
HuntingEnds == HuntingStarts + HuntingDuration

(* selectRoundRoles: shuffled volunteers come before shuffled others.       *)
selectRoundRoles ==
    {H \in SUBSET Member : /\ Cardinality(H) = HunterCount
                           /\ H \subseteq Nominee \/ Nominee \subseteq H}

Hiders == Member \ hunters
TargetSlotCount == Cardinality(Hiders) + 2
assignCasualHidingSlots(H) ==
    LET slots == 1..(Cardinality(Member \ H) + 2)
    IN {f \in [Member \ H -> slots] : \A p, q \in Member \ H : f[p] = f[q] => p = q}

HiderBySlot(slot) == {p \in Hiders : hidingSlot[p] = slot}
FoundHiders == {discoveries[i].hider : i \in DOMAIN discoveries}
HidersRemaining == Cardinality(Hiders) - Cardinality(FoundHiders)

NoResult == [reason |-> "none"]
Reasons == {"miss", "hit", "not_hunting", "round_terminal", "invalid_aim_slot",
            "reloading", "out_of_shells"}
Result == [reason: Reasons, accepted: BOOLEAN, aim: Nat, shells: Nat,
           reload: Nat, hider: Member \cup {NoHider}, terminal: BOOLEAN]
Processed(h) == {c \in Command : commands[h][c] # NoResult}
Accepted(h) == {c \in Processed(h) : commands[h][c].accepted}

Init ==
    /\ hunters \in selectRoundRoles
    /\ hidingSlot \in assignCasualHidingSlots(hunters)
    /\ now = 0 /\ phase = "preparing" /\ deadline = PreparingDuration
    /\ winningSide = "" /\ completionReason = ""
    /\ discoveries = <<>>
    /\ shells = [h \in hunters |-> ShellLimit]
    /\ reloadUntil = [h \in hunters |-> 0]
    /\ commands = [h \in hunters |-> [c \in Command |-> NoResult]]

-----------------------------------------------------------------------------
(* Advance.  A step leaves one phase whose deadline has passed; the next    *)
(* deadline is counted from the last one, not from the late tick.  There    *)
(* are three phases to leave, so three steps are the whole loop.            *)

MutantFromNow(last, duration, t) == t + duration
NextDeadline(last, duration, t) == last + duration

LeavePhase(r, t) ==
    CASE r.phase = "preparing" ->
           [r EXCEPT !.phase = "hiding",
                     !.deadline = NextDeadline(@, HidingDuration, t)]
      [] r.phase = "hiding" ->
           [r EXCEPT !.phase = "hunting",
                     !.deadline = NextDeadline(@, HuntingDuration, t)]
      [] r.phase = "hunting" ->
           [phase |-> "terminal", deadline |-> 0,
            side |-> "hiders", why |-> "hunt_timeout"]

MutantOnTheDot(r, t) ==
    IF r.phase # "terminal" /\ r.deadline = t THEN LeavePhase(r, t) ELSE r
AdvanceStep(r, t) ==
    IF r.phase # "terminal" /\ r.deadline <= t THEN LeavePhase(r, t) ELSE r
Advance(r, t) == AdvanceStep(AdvanceStep(AdvanceStep(r, t), t), t)

(* The start of an iteration of MatchLoop, `delay' after the last one.      *)
Loop(delay) ==
    /\ now + delay <= MaxTime
    /\ now' = now + delay
    /\ LET r == Advance([phase |-> phase, deadline |-> deadline,
                         side |-> winningSide, why |-> completionReason], now')
       IN /\ phase' = r.phase /\ deadline' = r.deadline
          /\ winningSide' = r.side /\ completionReason' = r.why
    /\ UNCHANGED <<assignment, discoveries, shells, reloadUntil, commands>>

-----------------------------------------------------------------------------
(* HandleFire.  A command of a player without the hunter role and a repeated *)
(* command are answered without changing anything.                         *)

IsReplay(h, c) == commands[h][c] # NoResult

MutantReloadNotChecked(h) == FALSE
Reloading(h) == now < reloadUntil[h]

(* The reason a command is refused for, in the order of the checks.         *)
MutantShellsNotChecked(h, aim) ==
    CASE phase # "hunting" -> "not_hunting"
      [] phase = "hunting" /\ aim > TargetSlotCount -> "invalid_aim_slot"
      [] OTHER -> IF Reloading(h) THEN "reloading" ELSE "none"
Refusal(h, aim) ==
    CASE phase = "terminal" -> "round_terminal"
      [] phase \in {"preparing", "hiding"} -> "not_hunting"
      [] phase = "hunting" /\ aim > TargetSlotCount -> "invalid_aim_slot"
      [] phase = "hunting" /\ aim <= TargetSlotCount /\ Reloading(h) -> "reloading"
      [] OTHER -> IF shells[h] <= 0 THEN "out_of_shells" ELSE "none"

Record(h, c, result) == commands' = [commands EXCEPT ![h][c] = result]

RefuseFire(h, c, aim) ==
    /\ Refusal(h, aim) # "none"
    /\ Record(h, c, [reason |-> Refusal(h, aim), accepted |-> FALSE, aim |-> aim,
                     shells |-> shells[h], reload |-> reloadUntil[h],
                     hider |-> NoHider, terminal |-> phase = "terminal"])
    /\ UNCHANGED <<phase, deadline, winningSide, completionReason, discoveries,
                   shells, reloadUntil>>

SpendShell(h) ==
    /\ shells' = [shells EXCEPT ![h] = @ - 1]
    /\ reloadUntil' = [reloadUntil EXCEPT ![h] = now + ReloadDuration]

Shot(h, aim, reason, hider, terminal) ==
    [reason |-> reason, accepted |-> TRUE, aim |-> aim, shells |-> shells[h] - 1,
     reload |-> now + ReloadDuration, hider |-> hider, terminal |-> terminal]

MutantFindAgain(aim) == HiderBySlot(aim)
Discoverable(aim) == HiderBySlot(aim) \ FoundHiders

MissFire(h, c, aim) ==
    /\ Refusal(h, aim) = "none"
    /\ Discoverable(aim) = {}
    /\ SpendShell(h)
    /\ Record(h, c, Shot(h, aim, "miss", NoHider, FALSE))
    /\ UNCHANGED <<phase, deadline, winningSide, completionReason, discoveries>>

IsLastHider == Cardinality(FoundHiders) + 1 = Cardinality(Hiders)

HitFire(h, c, aim) ==
    /\ Refusal(h, aim) = "none"
    /\ SpendShell(h)
    /\ \E hider \in Discoverable(aim) :
         /\ discoveries' = Append(discoveries, [hunter |-> h, hider |-> hider,
                                                aim |-> aim, at |-> now])
         /\ Record(h, c, Shot(h, aim, "hit", hider, IsLastHider))
    /\ IF IsLastHider
       THEN /\ phase' = "terminal" /\ deadline' = 0
            /\ winningSide' = "hunters" /\ completionReason' = "all_hiders_found"
       ELSE UNCHANGED <<phase, deadline, winningSide, completionReason>>

HandleFire(h, c, aim) ==
    /\ ~IsReplay(h, c)
    /\ Cardinality(Processed(h)) < MaxCommands
    /\ RefuseFire(h, c, aim) \/ MissFire(h, c, aim) \/ HitFire(h, c, aim)
    /\ UNCHANGED <<assignment, now>>

(* decodeHunterFireCommand lets only aims from 1 on through (Aim).          *)
Next ==
    \/ \E delay \in 1..MaxDelay : Loop(delay)
    \/ \E h \in hunters, c \in Command, aim \in Aim :
         HandleFire(h, c, aim)

(* The loop of a running match ticks.                                       *)
Spec == Init /\ [][Next]_vars /\ WF_vars(\E delay \in 1..MaxDelay : Loop(delay))

-----------------------------------------------------------------------------
(* Properties.                                                             *)

(* The round state has the shape of casualRoundState; shells stay within    *)
(* the configured limit.                                                   *)
TypeOK ==
    /\ hunters \in SUBSET Member /\ hidingSlot \in [Hiders -> 1..TargetSlotCount]
    /\ now \in Nat /\ deadline \in Nat
    /\ phase \in {"preparing", "hiding", "hunting", "terminal"}
    /\ winningSide \in {"", "hiders", "hunters"}
    /\ completionReason \in {"", "hunt_timeout", "all_hiders_found"}
    /\ discoveries \in Seq([hunter: hunters, hider: Hiders, aim: Nat, at: Nat])
    /\ shells \in [hunters -> 0..ShellLimit]
    /\ reloadUntil \in [hunters -> Nat]
    /\ commands \in [hunters -> [Command -> Result \cup {NoResult}]]

(* Every shell that is gone is accounted for by exactly one accepted        *)
(* command, so resending a command ID never fires a second time, and two    *)
(* accepted shots of one hunter are at least a reload apart, whatever order *)
(* their commands arrive in.                                                *)
ShotsAccountedFor ==
    \A h \in hunters :
      /\ shells[h] + Cardinality(Accepted(h)) = ShellLimit
      /\ \A c, d \in Accepted(h) :
           c # d => LET s == commands[h][c].reload
                        t == commands[h][d].reload
                    IN s + ReloadDuration <= t \/ t + ReloadDuration <= s

(* Discoveries are earned: no hider is found twice, each was hit in the slot *)
(* it hides in by an accepted command of that hunter, and inside the        *)
(* scheduled hunting window even when the loop ticks late.                  *)
DiscoveriesAreEarned ==
    /\ Cardinality(FoundHiders) = Len(discoveries)
    /\ \A i \in DOMAIN discoveries :
         LET d == discoveries[i] IN
         /\ hidingSlot[d.hider] = d.aim
         /\ HuntingStarts <= d.at /\ d.at < HuntingEnds
         /\ \E c \in Accepted(d.hunter) : commands[d.hunter][c].hider = d.hider

ScheduledPhase ==
    CASE winningSide = "hunters" -> "terminal"
      [] winningSide # "hunters" /\ now < PreparingDuration -> "preparing"
      [] winningSide # "hunters" /\ PreparingDuration <= now /\ now < HuntingStarts -> "hiding"
      [] winningSide # "hunters" /\ HuntingStarts <= now /\ now < HuntingEnds -> "hunting"
      [] winningSide # "hunters" /\ HuntingEnds <= now -> "terminal"

(* The verdict agrees with what happened: hunters win exactly when nobody   *)
(* remains, at once; hiders only by surviving to the end of the window.     *)
(* Unless the hunters have won, the phase is the one the schedule gives for *)
(* the clock: late ticks delay a transition but never stretch the round.    *)
VerdictFollowsTheRound ==
    /\ (winningSide = "hunters") <=> (HidersRemaining = 0)
    /\ (winningSide = "hiders") => now >= HuntingEnds
    /\ (phase = "terminal") <=> (winningSide # "")
    /\ phase = ScheduledPhase

(* Every started round ends, whatever the players send.                     *)
RoundEnds == <>(phase = "terminal")
=============================================================================

-------------------------- MODULE CasualRoundProofs --------------------------
(***************************************************************************)
(* Proofs about CasualRound for any number of members, nominees and        *)
(* hunters, any durations and limits, any set of command IDs and aims.     *)
(***************************************************************************)
EXTENDS CasualRound, FiniteSetTheorems, SequenceTheorems, TLAPS

-----------------------------------------------------------------------------
(* The inductive invariant.                                                *)

(* What StartRound assigned: somebody hides, and there are finitely many.   *)
RolesAreAssigned ==
    /\ hunters \subseteq Member /\ Hiders # {}
    /\ hidingSlot \in [Hiders -> 1..TargetSlotCount]

(* Phase, deadline, verdict and clock agree with the schedule.              *)
OnSchedule ==
    /\ phase = "preparing" => deadline = PreparingDuration /\ now < PreparingDuration
    /\ phase = "hiding" => /\ deadline = HuntingStarts
                           /\ PreparingDuration <= now /\ now < HuntingStarts
    /\ phase = "hunting" => /\ deadline = HuntingEnds
                            /\ HuntingStarts <= now /\ now < HuntingEnds
    /\ phase # "terminal" => winningSide = ""
    /\ phase = "terminal" => \/ winningSide = "hunters"
                             \/ winningSide = "hiders" /\ HuntingEnds <= now

(* Every accepted shot ended its reload no later than the last one.         *)
ReloadsArePast ==
    \A h \in hunters : \A c \in Accepted(h) : commands[h][c].reload <= reloadUntil[h]

(* Command tables stay finite although the set of IDs need not be.          *)
FewCommands == \A h \in hunters : IsFiniteSet(Processed(h))

(* Hunters have won exactly when every hider is among the discoveries.      *)
FoundAll == winningSide = "hunters" <=> FoundHiders = Hiders

RoundInv ==
    /\ TypeOK /\ RolesAreAssigned /\ OnSchedule /\ FewCommands /\ ReloadsArePast
    /\ ShotsAccountedFor /\ DiscoveriesAreEarned /\ FoundAll

-----------------------------------------------------------------------------
(* Facts about the operators.                                              *)

(* The set of hiders is finite, and so is every subset.                     *)
LEMMA HidersFinite ==
    ASSUME hunters \subseteq Member
    PROVE  IsFiniteSet(Hiders) /\ Cardinality(Hiders) \in Nat
BY RoundAssumption, FS_Subset, FS_CardinalityType DEF Hiders

(* The constants of the schedule are numbers in order.                      *)
LEMMA ScheduleType ==
    /\ PreparingDuration \in Nat /\ HuntingStarts \in Nat /\ HuntingEnds \in Nat
    /\ HuntingStarts = PreparingDuration + HidingDuration
    /\ HuntingEnds = HuntingStarts + HuntingDuration
    /\ 0 < PreparingDuration
    /\ PreparingDuration < HuntingStarts /\ HuntingStarts < HuntingEnds
BY RoundAssumption DEF PreparingDuration, HuntingStarts, HuntingEnds

(* A command is let through only in the hunting phase, with a shell left    *)
(* and the reload over.                                                    *)
LEMMA AdmittedFire ==
    ASSUME TypeOK, NEW h \in hunters, NEW aim \in Aim, Refusal(h, aim) = "none"
    PROVE  /\ phase = "hunting" /\ aim <= TargetSlotCount
           /\ reloadUntil[h] <= now /\ shells[h] >= 1
<1>1. phase \in {"preparing", "hiding", "hunting", "terminal"}
  BY DEF TypeOK
<1>2. phase = "hunting"
  BY <1>1 DEF Refusal
<1>a. aim \in Nat
  BY RoundAssumption
<1>b. hunters \subseteq Member
  BY DEF TypeOK
<1>c. TargetSlotCount \in Nat
  BY <1>b, HidersFinite DEF TargetSlotCount
<1>3. aim \in Nat /\ TargetSlotCount \in Nat
  BY <1>a, <1>c
<1>4. aim <= TargetSlotCount
  BY <1>2, <1>3 DEF Refusal
<1>5. ~Reloading(h)
  BY <1>2, <1>4 DEF Refusal
<1>6. ~(shells[h] <= 0)
  BY <1>2, <1>3, <1>4, <1>5 DEF Refusal
<1>7. now \in Nat /\ reloadUntil[h] \in Nat /\ shells[h] \in 0..ShellLimit /\ ShellLimit \in Nat
  BY RoundAssumption DEF TypeOK
<1> QED
  BY <1>2, <1>4, <1>5, <1>6, <1>7 DEF Reloading

(* The reason of a refusal is one of the recorded reasons.                  *)
LEMMA RefusalReason ==
    ASSUME TypeOK, NEW h \in hunters, NEW aim \in Aim, Refusal(h, aim) # "none"
    PROVE  Refusal(h, aim) \in Reasons
BY DEF Refusal, Reasons, TypeOK

-----------------------------------------------------------------------------
(* Advance.                                                                *)

Verdicts ==
    [phase: {"preparing", "hiding", "hunting", "terminal"}, deadline: Nat,
     side: {"", "hiders", "hunters"}, why: {"", "hunt_timeout", "all_hiders_found"}]

(* Both kinds of assignment a step makes give a round again.                *)
LEMMA VerdictsClosed ==
    /\ \A r \in Verdicts, d \in Nat :
         /\ [r EXCEPT !.phase = "hiding", !.deadline = d] \in Verdicts
         /\ [r EXCEPT !.phase = "hunting", !.deadline = d] \in Verdicts
    /\ [phase |-> "terminal", deadline |-> 0,
        side |-> "hiders", why |-> "hunt_timeout"] \in Verdicts
BY DEF Verdicts

(* What LeavePhase makes of a round.                                        *)
LEMMA Leaving ==
    ASSUME NEW t \in Nat, NEW r \in Verdicts, r.phase # "terminal"
    PROVE  /\ LeavePhase(r, t) \in Verdicts
           /\ r.phase = "preparing" =>
                /\ LeavePhase(r, t).phase = "hiding" /\ LeavePhase(r, t).side = r.side
                /\ LeavePhase(r, t).deadline = r.deadline + HidingDuration
           /\ r.phase = "hiding" =>
                /\ LeavePhase(r, t).phase = "hunting" /\ LeavePhase(r, t).side = r.side
                /\ LeavePhase(r, t).deadline = r.deadline + HuntingDuration
           /\ r.phase = "hunting" =>
                LeavePhase(r, t).phase = "terminal" /\ LeavePhase(r, t).side = "hiders"
<1>a. r.deadline \in Nat
  BY DEF Verdicts
<1>b. HidingDuration \in Nat /\ HuntingDuration \in Nat
  BY RoundAssumption
<1>0. r.deadline + HidingDuration \in Nat /\ r.deadline + HuntingDuration \in Nat
  BY <1>a, <1>b
<1>1. CASE r.phase = "preparing"
  <2>1. LeavePhase(r, t) = [r EXCEPT !.phase = "hiding",
                                     !.deadline = r.deadline + HidingDuration]
    BY <1>1 DEF LeavePhase, NextDeadline
  <2>a. [r EXCEPT !.phase = "hiding", !.deadline = r.deadline + HidingDuration] \in Verdicts
    BY <1>0, VerdictsClosed
  <2>2. LeavePhase(r, t) \in Verdicts
    BY <2>1, <2>a, Zenon
  <2>3. /\ LeavePhase(r, t).phase = "hiding" /\ LeavePhase(r, t).side = r.side
        /\ LeavePhase(r, t).deadline = r.deadline + HidingDuration
    BY <2>1 DEF Verdicts
  <2> QED BY <1>1, <2>2, <2>3
<1>2. CASE r.phase = "hiding"
  <2>1. LeavePhase(r, t) = [r EXCEPT !.phase = "hunting",
                                     !.deadline = r.deadline + HuntingDuration]
    BY <1>2 DEF LeavePhase, NextDeadline
  <2>a. [r EXCEPT !.phase = "hunting", !.deadline = r.deadline + HuntingDuration] \in Verdicts
    BY <1>0, VerdictsClosed
  <2>2. LeavePhase(r, t) \in Verdicts
    BY <2>1, <2>a, Zenon
  <2>3. /\ LeavePhase(r, t).phase = "hunting" /\ LeavePhase(r, t).side = r.side
        /\ LeavePhase(r, t).deadline = r.deadline + HuntingDuration
    BY <2>1 DEF Verdicts
  <2> QED BY <1>2, <2>2, <2>3
<1>3. CASE r.phase = "hunting"
  <2>1. LeavePhase(r, t) = [phase |-> "terminal", deadline |-> 0,
                            side |-> "hiders", why |-> "hunt_timeout"]
    BY <1>3 DEF LeavePhase
  <2>2. LeavePhase(r, t) \in Verdicts
    BY <2>1, VerdictsClosed
  <2> QED BY <1>3, <2>1, <2>2
<1> QED BY <1>1, <1>2, <1>3 DEF Verdicts

(* The round agrees with the schedule as far as it has been followed, and   *)
(* no deadline up to t is left.                                            *)
Follows(r, t) ==
    /\ r.phase = "preparing" => r.deadline = PreparingDuration
    /\ r.phase = "hiding" => r.deadline = HuntingStarts /\ PreparingDuration <= t
    /\ r.phase = "hunting" => r.deadline = HuntingEnds /\ HuntingStarts <= t
    /\ r.phase # "terminal" => r.side = ""
    /\ r.phase = "terminal" => \/ r.side = "hunters"
                               \/ r.side = "hiders" /\ HuntingEnds <= t
Settled(r, t) == r.phase = "terminal" \/ t < r.deadline

(* One step of Advance: a settled round is left alone, another moves on by  *)
(* one phase, along the schedule.                                          *)
LEMMA StepFollows ==
    ASSUME NEW t \in Nat, NEW r \in Verdicts, Follows(r, t)
    PROVE  /\ AdvanceStep(r, t) \in Verdicts /\ Follows(AdvanceStep(r, t), t)
           /\ Settled(r, t) => AdvanceStep(r, t) = r
           /\ ~Settled(r, t) =>
                /\ r.phase = "preparing" => AdvanceStep(r, t).phase = "hiding"
                /\ r.phase = "hiding" => AdvanceStep(r, t).phase = "hunting"
                /\ r.phase = "hunting" => AdvanceStep(r, t).phase = "terminal"
           /\ (AdvanceStep(r, t).side = "hunters") <=> (r.side = "hunters")
<1>0. r.deadline \in Nat
  BY DEF Verdicts
<1>1. CASE Settled(r, t)
  <2>1. AdvanceStep(r, t) = r
    BY <1>0, <1>1 DEF AdvanceStep, Settled
  <2> QED BY <1>1, <2>1
<1>2. CASE ~Settled(r, t)
  <2> DEFINE q == LeavePhase(r, t)
  <2>1. AdvanceStep(r, t) = q
    BY <1>0, <1>2 DEF AdvanceStep, Settled
  <2>a. r.phase # "terminal" /\ r.deadline <= t
    BY <1>0, <1>2 DEF Settled
  <2>2. r.phase # "terminal" /\ r.deadline <= t /\ r.side = ""
    BY <2>a DEF Follows
  <2>3. /\ q \in Verdicts
        /\ r.phase = "preparing" => q.phase = "hiding" /\ q.side = r.side
                                    /\ q.deadline = r.deadline + HidingDuration
        /\ r.phase = "hiding" => q.phase = "hunting" /\ q.side = r.side
                                 /\ q.deadline = r.deadline + HuntingDuration
        /\ r.phase = "hunting" => q.phase = "terminal" /\ q.side = "hiders"
    BY <2>2, Leaving
  <2> HIDE DEF q
  <2>4. r.phase \in {"preparing", "hiding", "hunting"}
    BY <2>2 DEF Verdicts
  <2>5. Follows(q, t)
    BY <2>2, <2>3, <2>4, ScheduleType DEF Follows
  <2>6. q.side # "hunters" /\ r.side # "hunters"
    BY <2>2, <2>3, <2>4
  <2> QED BY <1>2, <2>1, <2>3, <2>5, <2>6
<1> QED BY <1>1, <1>2

(* Three steps leave no deadline behind.                                    *)
LEMMA AdvanceFollows ==
    ASSUME NEW t \in Nat, NEW r \in Verdicts, Follows(r, t)
    PROVE  /\ Advance(r, t) \in Verdicts
           /\ Follows(Advance(r, t), t) /\ Settled(Advance(r, t), t)
           /\ (Advance(r, t).side = "hunters") <=> (r.side = "hunters")
<1> DEFINE r1 == AdvanceStep(r, t)
           r2 == AdvanceStep(r1, t)
           r3 == AdvanceStep(r2, t)
<1>1. /\ r1 \in Verdicts /\ Follows(r1, t) /\ (Settled(r, t) => r1 = r)
      /\ ~Settled(r, t) => /\ r.phase = "preparing" => r1.phase = "hiding"
                           /\ r.phase = "hiding" => r1.phase = "hunting"
                           /\ r.phase = "hunting" => r1.phase = "terminal"
      /\ (r1.side = "hunters") <=> (r.side = "hunters")
  BY StepFollows
<1>2. /\ r2 \in Verdicts /\ Follows(r2, t) /\ (Settled(r1, t) => r2 = r1)
      /\ ~Settled(r1, t) => /\ r1.phase = "preparing" => r2.phase = "hiding"
                            /\ r1.phase = "hiding" => r2.phase = "hunting"
                            /\ r1.phase = "hunting" => r2.phase = "terminal"
      /\ (r2.side = "hunters") <=> (r1.side = "hunters")
  <2> HIDE DEF r1
  <2> QED BY <1>1, StepFollows
<1>3. /\ r3 \in Verdicts /\ Follows(r3, t) /\ (Settled(r2, t) => r3 = r2)
      /\ ~Settled(r2, t) => /\ r2.phase = "preparing" => r3.phase = "hiding"
                            /\ r2.phase = "hiding" => r3.phase = "hunting"
                            /\ r2.phase = "hunting" => r3.phase = "terminal"
      /\ (r3.side = "hunters") <=> (r2.side = "hunters")
  <2> HIDE DEF r2
  <2> QED BY <1>2, StepFollows
<1>4. Advance(r, t) = r3
  BY DEF Advance
<1> HIDE DEF r1, r2, r3
<1>5. r.phase \in {"preparing", "hiding", "hunting", "terminal"}
  BY DEF Verdicts
<1>6. Settled(r1, t) \/ r1.phase \in {"hiding", "hunting", "terminal"}
  BY <1>1, <1>5 DEF Settled
<1>7. Settled(r2, t) \/ r2.phase \in {"hunting", "terminal"}
  BY <1>2, <1>6 DEF Settled
<1>8. Settled(r3, t)
  BY <1>3, <1>7 DEF Settled
<1> QED BY <1>1, <1>2, <1>3, <1>4, <1>8

-----------------------------------------------------------------------------
(* The commands of a round.                                                *)

(* A result that is recorded is never taken for an empty entry.             *)
LEMMA ResultIsSomething == \A x \in Result : x # NoResult
BY DEF Result, NoResult, Reasons

(* Recording the result of a new command adds it to what its hunter has     *)
(* processed, and to what was accepted if it was; nobody else's commands    *)
(* change.                                                                 *)
LEMMA Recording ==
    ASSUME TypeOK, NEW h \in hunters, NEW c \in Command, NEW x \in Result,
           ~IsReplay(h, c), Record(h, c, x), UNCHANGED hunters
    PROVE  /\ commands' \in [hunters -> [Command -> Result \cup {NoResult}]]
           /\ c \notin Processed(h) /\ c \notin Accepted(h)
           /\ commands'[h][c] = x
           /\ \A d \in Command : d # c => commands'[h][d] = commands[h][d]
           /\ Processed(h)' = Processed(h) \cup {c}
           /\ Accepted(h)' = IF x.accepted THEN Accepted(h) \cup {c} ELSE Accepted(h)
           /\ \A g \in hunters : g # h => /\ commands'[g] = commands[g]
                                          /\ Processed(g)' = Processed(g)
                                          /\ Accepted(g)' = Accepted(g)
<1>1. commands \in [hunters -> [Command -> Result \cup {NoResult}]]
  BY DEF TypeOK
<1>2. commands' = [commands EXCEPT ![h][c] = x]
  BY DEF Record
<1>3. commands' \in [hunters -> [Command -> Result \cup {NoResult}]]
  BY <1>1, <1>2
<1>4. commands'[h][c] = x /\ \A d \in Command : d # c => commands'[h][d] = commands[h][d]
  BY <1>1, <1>2
<1>5. \A g \in hunters : g # h => commands'[g] = commands[g]
  BY <1>1, <1>2
<1>6. c \notin Processed(h) /\ c \notin Accepted(h)
  BY DEF IsReplay, Processed, Accepted
<1>7. x # NoResult
  BY ResultIsSomething
<1>8. Processed(h)' = Processed(h) \cup {c}
  BY <1>4, <1>7 DEF Processed
<1>9. Accepted(h)' = IF x.accepted THEN Accepted(h) \cup {c} ELSE Accepted(h)
  <2>1. \A d \in Command : d # c => (d \in Accepted(h)' <=> d \in Accepted(h))
    BY <1>4, <1>8 DEF Accepted
  <2>2. c \in Accepted(h)' <=> x.accepted
    BY <1>4, <1>8 DEF Accepted
  <2>3. Accepted(h)' \subseteq Command /\ Accepted(h) \subseteq Command
    BY DEF Accepted, Processed
  <2> QED BY <1>6, <2>1, <2>2, <2>3
<1>10. ASSUME NEW g \in hunters, g # h
       PROVE  Processed(g)' = Processed(g) /\ Accepted(g)' = Accepted(g)
  <2>1. commands'[g] = commands[g]
    BY <1>5, <1>10
  <2>2. Processed(g)' = Processed(g)
    BY <2>1 DEF Processed
  <2> QED BY <2>1, <2>2 DEF Accepted
<1> QED BY <1>3, <1>4, <1>5, <1>6, <1>8, <1>9, <1>10

(* Appending a discovery adds its hider to those found.                     *)
LEMMA Discovering ==
    ASSUME NEW S, discoveries \in Seq(S), NEW d \in S, discoveries' = Append(discoveries, d)
    PROVE  /\ discoveries' \in Seq(S) /\ Len(discoveries') = Len(discoveries) + 1
           /\ Len(discoveries) \in Nat
           /\ DOMAIN discoveries = 1..Len(discoveries)
           /\ DOMAIN discoveries' = 1..(Len(discoveries) + 1)
           /\ \A i \in DOMAIN discoveries : discoveries'[i] = discoveries[i]
           /\ discoveries'[Len(discoveries) + 1] = d
           /\ FoundHiders' = FoundHiders \cup {d.hider}
<1>1. /\ discoveries' \in Seq(S) /\ Len(discoveries') = Len(discoveries) + 1
      /\ Len(discoveries) \in Nat
      /\ DOMAIN discoveries = 1..Len(discoveries)
      /\ DOMAIN discoveries' = 1..(Len(discoveries) + 1)
      /\ \A i \in DOMAIN discoveries : discoveries'[i] = discoveries[i]
      /\ discoveries'[Len(discoveries) + 1] = d
  BY AppendProperties, LenProperties
<1>2. 1..(Len(discoveries) + 1) = (1..Len(discoveries)) \cup {Len(discoveries) + 1}
  BY <1>1
<1>3. FoundHiders' = FoundHiders \cup {d.hider}
  <2>1. ASSUME NEW x \in FoundHiders' PROVE x \in FoundHiders \cup {d.hider}
    BY <1>1, <1>2 DEF FoundHiders
  <2>2. FoundHiders \subseteq FoundHiders'
    BY <1>1, <1>2 DEF FoundHiders
  <2>3. d.hider \in FoundHiders'
    BY <1>1, <1>2 DEF FoundHiders
  <2> QED BY <2>1, <2>2, <2>3
<1> QED BY <1>1, <1>3

-----------------------------------------------------------------------------
(* Every step keeps the invariant.                                         *)

(* A round begins within the invariant.                                     *)
LEMMA RoundInit == Init => RoundInv
<1> SUFFICES ASSUME Init PROVE RoundInv
  OBVIOUS
<1>0. /\ discoveries = <<>> /\ shells = [h \in hunters |-> ShellLimit]
      /\ reloadUntil = [h \in hunters |-> 0]
  BY DEF Init
<1>1. hunters \in SUBSET Member /\ Cardinality(hunters) = HunterCount
  BY DEF Init, selectRoundRoles
<1>2. hidingSlot \in [Hiders -> 1..TargetSlotCount]
  BY DEF Init, assignCasualHidingSlots, Hiders, TargetSlotCount
<1>3. Hiders # {}
  <2>1. Cardinality(Member) \in Nat
    BY RoundAssumption, FS_CardinalityType
  <2>2. HunterCount # Cardinality(Member)
    BY <2>1, RoundAssumption
  <2>3. hunters # Member
    BY <1>1, <2>2
  <2> QED BY <1>1, <2>3 DEF Hiders
<1>4. ShellLimit \in Nat
  BY RoundAssumption
<1>5. TypeOK
  <2>1. now \in Nat /\ deadline \in Nat
    BY DEF Init, PreparingDuration
  <2>2. phase = "preparing" /\ winningSide = "" /\ completionReason = ""
    BY DEF Init
  <2>3. discoveries \in Seq([hunter: hunters, hider: Hiders, aim: Nat, at: Nat])
    BY <1>0
  <2>4. shells \in [hunters -> 0..ShellLimit] /\ reloadUntil \in [hunters -> Nat]
    BY <1>0, <1>4
  <2>5. commands \in [hunters -> [Command -> Result \cup {NoResult}]]
    BY DEF Init
  <2> QED BY <1>1, <1>2, <2>1, <2>2, <2>3, <2>4, <2>5 DEF TypeOK
<1>6. \A h \in hunters : Processed(h) = {} /\ Accepted(h) = {}
  BY DEF Init, Processed, Accepted
<1>7. FewCommands
  BY <1>6, FS_EmptySet DEF FewCommands
<1>8. ReloadsArePast
  BY <1>6 DEF ReloadsArePast
<1>9. ShotsAccountedFor
  <2>1. \A h \in hunters : shells[h] = ShellLimit /\ Cardinality(Accepted(h)) = 0
    BY <1>6, FS_EmptySet DEF Init
  <2> QED BY <1>4, <1>6, <2>1 DEF ShotsAccountedFor
<1>10. FoundHiders = {} /\ Len(discoveries) = 0 /\ DOMAIN discoveries = {}
  BY <1>0 DEF FoundHiders
<1>11. DiscoveriesAreEarned
  BY <1>10, FS_EmptySet DEF DiscoveriesAreEarned
<1>12. FoundAll
  BY <1>3, <1>10 DEF FoundAll, Init
<1>13. OnSchedule
  BY ScheduleType DEF OnSchedule, Init
<1>14. RolesAreAssigned
  BY <1>1, <1>2, <1>3 DEF RolesAreAssigned
<1> QED BY <1>5, <1>7, <1>8, <1>9, <1>11, <1>12, <1>13, <1>14 DEF RoundInv

(* What a step that assigns no roles, fires no shot and finds nobody keeps. *)
LEMMA NothingFired ==
    ASSUME RoundInv, UNCHANGED <<assignment, discoveries, shells, reloadUntil, commands>>
    PROVE  /\ RolesAreAssigned' /\ FewCommands' /\ ReloadsArePast'
           /\ ShotsAccountedFor' /\ DiscoveriesAreEarned'
           /\ FoundHiders' = FoundHiders /\ Hiders' = Hiders
<1>1. Hiders' = Hiders /\ TargetSlotCount' = TargetSlotCount
  BY DEF Hiders, TargetSlotCount, assignment
<1>2. hunters' = hunters /\ \A h : Processed(h)' = Processed(h) /\ Accepted(h)' = Accepted(h)
  BY DEF Processed, Accepted, assignment
<1>3. FoundHiders' = FoundHiders
  BY DEF FoundHiders
<1>4. RolesAreAssigned'
  BY <1>1 DEF RoundInv, RolesAreAssigned, assignment
<1>5. FewCommands' /\ ReloadsArePast'
  BY <1>2 DEF RoundInv, FewCommands, ReloadsArePast
<1>6. ShotsAccountedFor'
  BY <1>2 DEF RoundInv, ShotsAccountedFor
<1>7. DiscoveriesAreEarned'
  BY <1>2, <1>3 DEF RoundInv, DiscoveriesAreEarned, assignment
<1> QED BY <1>1, <1>3, <1>4, <1>5, <1>6, <1>7

(* A tick of the match loop, however late, keeps the invariant.             *)
LEMMA LoopKeeps ==
    ASSUME RoundInv, NEW delay \in 1..MaxDelay, Loop(delay)
    PROVE  RoundInv'
<1> DEFINE r == [phase |-> phase, deadline |-> deadline,
                 side |-> winningSide, why |-> completionReason]
           q == Advance(r, now')
<1>1. TypeOK /\ OnSchedule
  BY DEF RoundInv
<1>2. now \in Nat /\ now' \in Nat /\ now <= now'
  <2>1. MaxDelay \in Nat /\ now \in Nat
    BY <1>1, RoundAssumption DEF TypeOK
  <2>2. now' = now + delay
    BY DEF Loop
  <2> QED BY <2>1, <2>2
<1>3. r \in Verdicts
  BY <1>1 DEF TypeOK, Verdicts
<1>4. Follows(r, now')
  <2>1. r.phase = phase /\ r.deadline = deadline /\ r.side = winningSide
    OBVIOUS
  <2> HIDE DEF r
  <2>2. \A x \in Nat : x <= now => x <= now'
    BY <1>2
  <2> QED BY <1>1, <2>1, <2>2, ScheduleType DEF OnSchedule, Follows
<1>5. /\ q \in Verdicts /\ Follows(q, now') /\ Settled(q, now')
      /\ (q.side = "hunters") <=> (winningSide = "hunters")
  <2>1. r.side = winningSide
    OBVIOUS
  <2> HIDE DEF r
  <2> QED BY <1>2, <1>3, <1>4, <2>1, AdvanceFollows
<1>6. phase' = q.phase /\ deadline' = q.deadline /\ winningSide' = q.side
      /\ completionReason' = q.why
  BY DEF Loop
<1> HIDE DEF q
<1>7. UNCHANGED <<assignment, discoveries, shells, reloadUntil, commands>>
  BY DEF Loop
<1>8. /\ RolesAreAssigned' /\ FewCommands' /\ ReloadsArePast'
      /\ ShotsAccountedFor' /\ DiscoveriesAreEarned'
      /\ FoundHiders' = FoundHiders /\ Hiders' = Hiders
  BY <1>7, NothingFired
<1>9. TypeOK'
  <2>1. /\ deadline' \in Nat /\ phase' \in {"preparing", "hiding", "hunting", "terminal"}
        /\ winningSide' \in {"", "hiders", "hunters"}
        /\ completionReason' \in {"", "hunt_timeout", "all_hiders_found"}
    BY <1>5, <1>6 DEF Verdicts
  <2>2. hunters' = hunters /\ Hiders' = Hiders
    BY <1>7, <1>8 DEF assignment
  <2>3. hunters' \in SUBSET Member /\ hidingSlot' \in [Hiders' -> 1..TargetSlotCount']
    BY <1>8 DEF RolesAreAssigned
  <2>4. /\ discoveries' \in Seq([hunter: hunters', hider: Hiders', aim: Nat, at: Nat])
        /\ shells' \in [hunters' -> 0..ShellLimit] /\ reloadUntil' \in [hunters' -> Nat]
        /\ commands' \in [hunters' -> [Command -> Result \cup {NoResult}]]
    BY <1>1, <1>7, <2>2 DEF TypeOK
  <2> QED BY <1>2, <2>1, <2>3, <2>4 DEF TypeOK
<1>10. OnSchedule'
  BY <1>2, <1>5, <1>6, ScheduleType DEF OnSchedule, Follows, Settled
<1>11. FoundAll'
  BY <1>5, <1>6, <1>8 DEF RoundInv, FoundAll
<1> QED BY <1>8, <1>9, <1>10, <1>11 DEF RoundInv

(* The numbers a command is handled with.                                   *)
LEMMA FireNumbers ==
    ASSUME TypeOK, NEW h \in hunters, NEW aim \in Aim
    PROVE  /\ now \in Nat /\ reloadUntil[h] \in Nat /\ shells[h] \in Nat /\ aim \in Nat
           /\ ReloadDuration \in Nat /\ ShellLimit \in Nat /\ shells[h] <= ShellLimit
<1>1. aim \in Nat /\ ReloadDuration \in Nat /\ ShellLimit \in Nat
  BY RoundAssumption
<1>2. now \in Nat /\ shells \in [hunters -> 0..ShellLimit] /\ reloadUntil \in [hunters -> Nat]
  BY DEF TypeOK
<1>3. shells[h] \in 0..ShellLimit /\ reloadUntil[h] \in Nat
  BY <1>2
<1> QED BY <1>1, <1>2, <1>3

(* Who found whom, where and when, as the type of a discovery says.         *)
LEMMA DiscoveryType ==
    ASSUME TypeOK, NEW i \in DOMAIN discoveries
    PROVE  discoveries[i] \in [hunter: hunters, hider: Hiders, aim: Nat, at: Nat]
<1>1. discoveries \in Seq([hunter: hunters, hider: Hiders, aim: Nat, at: Nat])
  BY DEF TypeOK
<1>2. i \in 1..Len(discoveries)
  BY <1>1
<1> HIDE DEF TypeOK
<1> QED BY <1>1, <1>2, ElementOfSeq, Zenon

(* A discovery stays earned as long as roles, slots and accepted commands   *)
(* stay as they are.                                                       *)
Earned(d) ==
    /\ hidingSlot[d.hider] = d.aim /\ HuntingStarts <= d.at /\ d.at < HuntingEnds
    /\ \E c \in Accepted(d.hunter) : commands[d.hunter][c].hider = d.hider

(* A discovery stays earned while the accepted shots stay as they are.      *)
LEMMA EarnedIsForGood ==
    ASSUME RoundInv, NEW i \in DOMAIN discoveries, UNCHANGED assignment,
           \A g \in hunters : \A d \in Accepted(g) :
             d \in Accepted(g)' /\ commands'[g][d] = commands[g][d],
           NEW e, e = discoveries[i]
    PROVE  Earned(e)'
<1>1. e.hunter \in hunters
  BY DiscoveryType DEF RoundInv
<1>2. hidingSlot[e.hider] = e.aim /\ HuntingStarts <= e.at /\ e.at < HuntingEnds
  BY DEF RoundInv, DiscoveriesAreEarned
<1>3. PICK c \in Accepted(e.hunter) : commands[e.hunter][c].hider = e.hider
  BY DEF RoundInv, DiscoveriesAreEarned
<1>4. c \in Accepted(e.hunter)' /\ commands'[e.hunter][c].hider = e.hider
  BY <1>1, <1>3
<1>5. hidingSlot' = hidingSlot
  BY DEF assignment
<1> QED BY <1>2, <1>4, <1>5 DEF Earned

(* A refused command is recorded and changes nothing else.                  *)
LEMMA RefuseKeeps ==
    ASSUME RoundInv, NEW h \in hunters, NEW c \in Command, NEW aim \in Aim,
           ~IsReplay(h, c), RefuseFire(h, c, aim), UNCHANGED <<assignment, now>>
    PROVE  RoundInv'
<1> DEFINE x == [reason |-> Refusal(h, aim), accepted |-> FALSE, aim |-> aim,
                 shells |-> shells[h], reload |-> reloadUntil[h],
                 hider |-> NoHider, terminal |-> phase = "terminal"]
<1>1. TypeOK /\ hunters' = hunters
  BY DEF RoundInv, assignment
<1>2. x \in Result
  <2>1. aim \in Nat /\ shells[h] \in Nat /\ reloadUntil[h] \in Nat
    BY <1>1, FireNumbers
  <2>2. Refusal(h, aim) \in Reasons
    BY <1>1, RefusalReason DEF RefuseFire
  <2>3. (phase = "terminal") \in BOOLEAN
    OBVIOUS
  <2> QED BY <2>1, <2>2, <2>3 DEF Result
<1>3. x.accepted = FALSE
  OBVIOUS
<1>4. Record(h, c, x)
  BY DEF RefuseFire
<1> HIDE DEF x
<1>5. UNCHANGED <<assignment, now, phase, deadline, winningSide, completionReason,
                  discoveries, shells, reloadUntil>>
  BY DEF RefuseFire
<1>6. /\ commands' \in [hunters -> [Command -> Result \cup {NoResult}]]
      /\ c \notin Processed(h) /\ c \notin Accepted(h)
      /\ \A d \in Command : d # c => commands'[h][d] = commands[h][d]
      /\ Processed(h)' = Processed(h) \cup {c} /\ Accepted(h)' = Accepted(h)
      /\ \A g \in hunters : g # h => /\ commands'[g] = commands[g]
                                     /\ Processed(g)' = Processed(g)
                                     /\ Accepted(g)' = Accepted(g)
  BY <1>1, <1>2, <1>3, <1>4, Recording
<1>7. \A g \in hunters : /\ Accepted(g)' = Accepted(g)
                         /\ \A d \in Accepted(g) : commands'[g][d] = commands[g][d]
  BY <1>6 DEF Accepted, Processed
<1>8. Hiders' = Hiders /\ TargetSlotCount' = TargetSlotCount /\ FoundHiders' = FoundHiders
  BY <1>5 DEF Hiders, TargetSlotCount, FoundHiders, assignment
<1>9. RolesAreAssigned' /\ OnSchedule' /\ FoundAll'
  BY <1>5, <1>8 DEF RoundInv, RolesAreAssigned, OnSchedule, FoundAll, assignment
<1>10. TypeOK'
  BY <1>1, <1>5, <1>6, <1>8 DEF TypeOK, assignment
<1>11. FewCommands'
  BY <1>1, <1>6, FS_AddElement DEF RoundInv, FewCommands
<1>12. ReloadsArePast'
  BY <1>1, <1>5, <1>7 DEF RoundInv, ReloadsArePast
<1>13. ShotsAccountedFor'
  BY <1>1, <1>5, <1>7 DEF RoundInv, ShotsAccountedFor
<1>14. DiscoveriesAreEarned'
  <2>1. \A i \in DOMAIN discoveries : Earned(discoveries[i])'
    BY <1>5, <1>7, EarnedIsForGood
  <2> QED BY <1>5, <1>8, <2>1 DEF RoundInv, DiscoveriesAreEarned, Earned
<1> QED BY <1>9, <1>10, <1>11, <1>12, <1>13, <1>14 DEF RoundInv

(* What every accepted shot does to the commands, the shells and the reload *)
(* times: `hider' is NoHider for a miss.                                    *)
LEMMA ShotKeeps ==
    ASSUME RoundInv, NEW h \in hunters, NEW c \in Command, NEW aim \in Aim,
           NEW reason \in {"miss", "hit"}, NEW hider \in Member \cup {NoHider},
           NEW terminal \in BOOLEAN,
           ~IsReplay(h, c), Refusal(h, aim) = "none", SpendShell(h),
           Record(h, c, Shot(h, aim, reason, hider, terminal)), UNCHANGED <<assignment, now>>
    PROVE  /\ shells' \in [hunters -> 0..ShellLimit] /\ reloadUntil' \in [hunters -> Nat]
           /\ commands' \in [hunters -> [Command -> Result \cup {NoResult}]]
           /\ FewCommands' /\ ReloadsArePast' /\ ShotsAccountedFor'
           /\ c \in Accepted(h)' /\ commands'[h][c].hider = hider
           /\ \A g \in hunters : \A d \in Accepted(g) :
                d \in Accepted(g)' /\ commands'[g][d] = commands[g][d]
<1> DEFINE x == Shot(h, aim, reason, hider, terminal)
<1>1. TypeOK /\ hunters' = hunters /\ now' = now
  BY DEF RoundInv, assignment
<1>2. phase = "hunting" /\ reloadUntil[h] <= now /\ shells[h] >= 1
  BY <1>1, AdmittedFire
<1>3. /\ now \in Nat /\ reloadUntil[h] \in Nat /\ shells[h] \in Nat /\ aim \in Nat
      /\ ReloadDuration \in Nat /\ ShellLimit \in Nat /\ shells[h] <= ShellLimit
  BY <1>1, FireNumbers
<1>4. shells[h] - 1 \in Nat /\ now + ReloadDuration \in Nat
  BY <1>2, <1>3
<1>5. x \in Result
  BY <1>3, <1>4 DEF Shot, Result, Reasons
<1>6. x.accepted = TRUE /\ x.reload = now + ReloadDuration /\ x.hider = hider
  BY DEF Shot
<1> HIDE DEF x
<1>7. /\ commands' \in [hunters -> [Command -> Result \cup {NoResult}]]
      /\ c \notin Accepted(h) /\ commands'[h][c] = x
      /\ \A d \in Command : d # c => commands'[h][d] = commands[h][d]
      /\ Processed(h)' = Processed(h) \cup {c} /\ Accepted(h)' = Accepted(h) \cup {c}
      /\ \A g \in hunters : g # h => /\ commands'[g] = commands[g]
                                     /\ Processed(g)' = Processed(g)
                                     /\ Accepted(g)' = Accepted(g)
  BY <1>1, <1>5, <1>6, Recording DEF x
<1>8. \A g \in hunters : Accepted(g) \subseteq Command /\ Accepted(g) \subseteq Processed(g)
  BY DEF Accepted, Processed
<1>9. /\ shells' = [shells EXCEPT ![h] = shells[h] - 1]
      /\ reloadUntil' = [reloadUntil EXCEPT ![h] = now + ReloadDuration]
  BY DEF SpendShell
<1>10. shells' \in [hunters -> 0..ShellLimit] /\ reloadUntil' \in [hunters -> Nat]
  <2>1. shells[h] - 1 \in 0..ShellLimit
    BY <1>3, <1>4
  <2>2. shells \in [hunters -> 0..ShellLimit] /\ reloadUntil \in [hunters -> Nat]
    BY <1>1 DEF TypeOK
  <2> QED BY <1>4, <1>9, <2>1, <2>2
<1>11. /\ shells'[h] = shells[h] - 1 /\ reloadUntil'[h] = now + ReloadDuration
       /\ \A g \in hunters : g # h => shells'[g] = shells[g] /\ reloadUntil'[g] = reloadUntil[g]
  BY <1>1, <1>9 DEF TypeOK
<1>12. FewCommands'
  BY <1>1, <1>7, FS_AddElement DEF RoundInv, FewCommands
<1>13. \A d \in Accepted(h) : /\ commands[h][d].reload \in Nat
                              /\ commands[h][d].reload <= reloadUntil[h]
                              /\ commands'[h][d] = commands[h][d]
  <2>1. \A d \in Accepted(h) : commands[h][d] \in Result
    BY <1>1 DEF Accepted, Processed, TypeOK
  <2>2. \A d \in Accepted(h) : commands[h][d].reload \in Nat
    BY <2>1 DEF Result
  <2> QED BY <1>7, <1>8, <2>2 DEF RoundInv, ReloadsArePast
<1>14. ReloadsArePast'
  <2>1. ASSUME NEW d \in Accepted(h)' PROVE commands'[h][d].reload <= reloadUntil'[h]
    <3>1. CASE d = c
      BY <1>3, <1>4, <1>6, <1>7, <1>11, <3>1
    <3>2. CASE d \in Accepted(h)
      BY <1>2, <1>3, <1>11, <1>13, <3>2
    <3> QED BY <1>7, <2>1, <3>1, <3>2
  <2>2. \A g \in hunters : g # h => \A d \in Accepted(g)' : commands'[g][d].reload <= reloadUntil'[g]
    BY <1>7, <1>11 DEF RoundInv, ReloadsArePast
  <2> QED BY <1>1, <2>1, <2>2 DEF ReloadsArePast
<1>15. ShotsAccountedFor'
  <2>1. shells'[h] + Cardinality(Accepted(h)') = ShellLimit
    <3>1. IsFiniteSet(Accepted(h))
      BY <1>8, FS_Subset DEF RoundInv, FewCommands
    <3>2. Cardinality(Accepted(h)') = Cardinality(Accepted(h)) + 1
      BY <1>7, <3>1, FS_AddElement
    <3>3. Cardinality(Accepted(h)) \in Nat
      BY <3>1, FS_CardinalityType
    <3>4. shells[h] + Cardinality(Accepted(h)) = ShellLimit
      BY DEF RoundInv, ShotsAccountedFor
    <3> QED BY <1>3, <1>11, <3>2, <3>3, <3>4
  <2>2. ASSUME NEW d \in Accepted(h)', NEW e \in Accepted(h)', d # e
        PROVE  \/ commands'[h][d].reload + ReloadDuration <= commands'[h][e].reload
               \/ commands'[h][e].reload + ReloadDuration <= commands'[h][d].reload
    <3>1. CASE d \in Accepted(h) /\ e \in Accepted(h)
      BY <1>13, <2>2, <3>1 DEF RoundInv, ShotsAccountedFor
    <3>2. CASE d = c /\ e \in Accepted(h)
      BY <1>2, <1>3, <1>6, <1>7, <1>13, <3>2
    <3>3. CASE e = c /\ d \in Accepted(h)
      BY <1>2, <1>3, <1>6, <1>7, <1>13, <3>3
    <3> QED BY <1>7, <2>2, <3>1, <3>2, <3>3
  <2>3. ASSUME NEW g \in hunters, g # h
        PROVE  /\ shells'[g] + Cardinality(Accepted(g)') = ShellLimit
               /\ \A d, e \in Accepted(g)' : d # e =>
                    \/ commands'[g][d].reload + ReloadDuration <= commands'[g][e].reload
                    \/ commands'[g][e].reload + ReloadDuration <= commands'[g][d].reload
    BY <1>7, <1>11, <2>3 DEF RoundInv, ShotsAccountedFor
  <2> QED BY <1>1, <2>1, <2>2, <2>3 DEF ShotsAccountedFor
<1>16. \A g \in hunters : \A d \in Accepted(g) :
         d \in Accepted(g)' /\ commands'[g][d] = commands[g][d]
  BY <1>7, <1>13
<1> QED BY <1>6, <1>7, <1>10, <1>12, <1>14, <1>15, <1>16

(* A shot that hits nobody keeps the invariant.                             *)
LEMMA MissKeeps ==
    ASSUME RoundInv, NEW h \in hunters, NEW c \in Command, NEW aim \in Aim,
           ~IsReplay(h, c), MissFire(h, c, aim), UNCHANGED <<assignment, now>>
    PROVE  RoundInv'
<1>1. TypeOK /\ hunters' = hunters
  BY DEF RoundInv, assignment
<1>2. UNCHANGED <<assignment, now, phase, deadline, winningSide, completionReason, discoveries>>
  BY DEF MissFire
<1>3. /\ shells' \in [hunters -> 0..ShellLimit] /\ reloadUntil' \in [hunters -> Nat]
      /\ commands' \in [hunters -> [Command -> Result \cup {NoResult}]]
      /\ FewCommands' /\ ReloadsArePast' /\ ShotsAccountedFor'
      /\ \A g \in hunters : \A d \in Accepted(g) :
           d \in Accepted(g)' /\ commands'[g][d] = commands[g][d]
  <2>1. /\ Refusal(h, aim) = "none" /\ SpendShell(h)
        /\ Record(h, c, Shot(h, aim, "miss", NoHider, FALSE))
    BY DEF MissFire
  <2> QED BY <2>1, ShotKeeps
<1>4. Hiders' = Hiders /\ TargetSlotCount' = TargetSlotCount /\ FoundHiders' = FoundHiders
  BY <1>2 DEF Hiders, TargetSlotCount, FoundHiders, assignment
<1>5. RolesAreAssigned' /\ OnSchedule' /\ FoundAll'
  BY <1>2, <1>4 DEF RoundInv, RolesAreAssigned, OnSchedule, FoundAll, assignment
<1>6. TypeOK'
  BY <1>1, <1>2, <1>3, <1>4 DEF TypeOK, assignment
<1>7. DiscoveriesAreEarned'
  <2>1. \A i \in DOMAIN discoveries : Earned(discoveries[i])'
    BY <1>2, <1>3, EarnedIsForGood
  <2> QED BY <1>2, <1>4, <2>1 DEF RoundInv, DiscoveriesAreEarned, Earned
<1> QED BY <1>3, <1>5, <1>6, <1>7 DEF RoundInv

(* A hit adds one hider to those found, and ends the round with the last.   *)
LEMMA HitKeeps ==
    ASSUME RoundInv, NEW h \in hunters, NEW c \in Command, NEW aim \in Aim,
           ~IsReplay(h, c), HitFire(h, c, aim), UNCHANGED <<assignment, now>>
    PROVE  RoundInv'
<1> DEFINE S == [hunter: hunters, hider: Hiders, aim: Nat, at: Nat]
<1>1. TypeOK /\ hunters' = hunters /\ now' = now /\ hidingSlot' = hidingSlot
  BY DEF RoundInv, assignment
<1>2. Refusal(h, aim) = "none" /\ SpendShell(h)
  BY DEF HitFire
<1>3. PICK hider \in Discoverable(aim) :
        /\ discoveries' = Append(discoveries, [hunter |-> h, hider |-> hider,
                                               aim |-> aim, at |-> now])
        /\ Record(h, c, Shot(h, aim, "hit", hider, IsLastHider))
  BY DEF HitFire
<1>4. hider \in Hiders /\ hider \in Member /\ hidingSlot[hider] = aim /\ hider \notin FoundHiders
  BY DEF Discoverable, HiderBySlot, Hiders
<1>5. phase = "hunting" /\ winningSide = "" /\ HuntingStarts <= now /\ now < HuntingEnds
  BY <1>1, <1>2, AdmittedFire DEF RoundInv, OnSchedule
<1>6. /\ shells' \in [hunters -> 0..ShellLimit] /\ reloadUntil' \in [hunters -> Nat]
      /\ commands' \in [hunters -> [Command -> Result \cup {NoResult}]]
      /\ FewCommands' /\ ReloadsArePast' /\ ShotsAccountedFor'
      /\ c \in Accepted(h)' /\ commands'[h][c].hider = hider
      /\ \A g \in hunters : \A d \in Accepted(g) :
           d \in Accepted(g)' /\ commands'[g][d] = commands[g][d]
  <2>1. IsLastHider \in BOOLEAN
    BY DEF IsLastHider
  <2> QED BY <1>2, <1>3, <1>4, <2>1, ShotKeeps
<1> DEFINE d == [hunter |-> h, hider |-> hider, aim |-> aim, at |-> now]
<1>7. d \in S /\ d.hider = hider /\ d.aim = aim /\ d.at = now /\ d.hunter = h
  BY <1>1, <1>4, FireNumbers
<1>8. discoveries \in Seq(S) /\ discoveries' = Append(discoveries, d)
  BY <1>1, <1>3 DEF TypeOK
<1> HIDE DEF d
<1>9. /\ discoveries' \in Seq(S) /\ Len(discoveries') = Len(discoveries) + 1
      /\ Len(discoveries) \in Nat
      /\ DOMAIN discoveries = 1..Len(discoveries)
      /\ DOMAIN discoveries' = 1..(Len(discoveries) + 1)
      /\ \A i \in DOMAIN discoveries : discoveries'[i] = discoveries[i]
      /\ discoveries'[Len(discoveries) + 1] = d
      /\ FoundHiders' = FoundHiders \cup {hider}
  <2> HIDE DEF S
  <2> QED BY <1>7, <1>8, Discovering
<1>10. Hiders' = Hiders /\ TargetSlotCount' = TargetSlotCount
  BY <1>1 DEF Hiders, TargetSlotCount
<1>11. /\ IsFiniteSet(Hiders) /\ Cardinality(Hiders) \in Nat
       /\ FoundHiders \subseteq Hiders /\ IsFiniteSet(FoundHiders)
       /\ Cardinality(FoundHiders) \in Nat
  <2>1. IsFiniteSet(Hiders) /\ Cardinality(Hiders) \in Nat
    BY <1>1, HidersFinite DEF TypeOK
  <2>2. FoundHiders \subseteq Hiders
    BY <1>1, DiscoveryType DEF FoundHiders
  <2> QED BY <2>1, <2>2, FS_Subset, FS_CardinalityType
<1>12. Cardinality(FoundHiders') = Cardinality(FoundHiders) + 1
  BY <1>4, <1>9, <1>11, FS_AddElement
<1>13. IsLastHider <=> FoundHiders' = Hiders
  <2>1. FoundHiders' \subseteq Hiders
    BY <1>4, <1>9, <1>11
  <2> QED BY <1>11, <1>12, <2>1, FS_Subset DEF IsLastHider
<1>14. \/ /\ IsLastHider /\ phase' = "terminal" /\ deadline' = 0
          /\ winningSide' = "hunters" /\ completionReason' = "all_hiders_found"
       \/ ~IsLastHider /\ UNCHANGED <<phase, deadline, winningSide, completionReason>>
  BY DEF HitFire
<1>15. FoundAll'
  BY <1>5, <1>10, <1>13, <1>14 DEF FoundAll
<1>16. OnSchedule'
  BY <1>1, <1>5, <1>14 DEF RoundInv, OnSchedule
<1>17. RolesAreAssigned'
  BY <1>1, <1>10 DEF RoundInv, RolesAreAssigned
<1>18. TypeOK'
  <2>1. /\ deadline' \in Nat /\ phase' \in {"preparing", "hiding", "hunting", "terminal"}
        /\ winningSide' \in {"", "hiders", "hunters"}
        /\ completionReason' \in {"", "hunt_timeout", "all_hiders_found"}
    <3>1. /\ deadline \in Nat /\ phase \in {"preparing", "hiding", "hunting", "terminal"}
          /\ winningSide \in {"", "hiders", "hunters"}
          /\ completionReason \in {"", "hunt_timeout", "all_hiders_found"}
      BY <1>1 DEF TypeOK
    <3>2. CASE IsLastHider
      BY <1>14, <3>2
    <3>3. CASE ~IsLastHider
      BY <1>14, <3>1, <3>3
    <3> QED BY <3>2, <3>3
  <2>2. /\ hunters' \in SUBSET Member /\ hidingSlot' \in [Hiders' -> 1..TargetSlotCount']
        /\ now' \in Nat
    BY <1>1, <1>10 DEF TypeOK
  <2>3. discoveries' \in Seq([hunter: hunters', hider: Hiders', aim: Nat, at: Nat])
    BY <1>1, <1>9, <1>10
  <2> QED BY <1>1, <1>6, <2>1, <2>2, <2>3 DEF TypeOK
<1>19. DiscoveriesAreEarned'
  <2>1. Cardinality(FoundHiders') = Len(discoveries')
    BY <1>9, <1>12 DEF RoundInv, DiscoveriesAreEarned
  <2>2. ASSUME NEW i \in DOMAIN discoveries', NEW q, q = discoveries'[i]
        PROVE  Earned(q)'
    <3>1. CASE i \in DOMAIN discoveries
      <4>1. q = discoveries[i]
        BY <1>9, <2>2, <3>1
      <4> QED BY <1>6, <3>1, <4>1, EarnedIsForGood
    <3>2. CASE q = d
      <4>1. q.hunter = h /\ q.hider = hider /\ q.aim = aim /\ q.at = now
        BY <1>7, <3>2
      <4>2. hidingSlot'[hider] = aim /\ HuntingStarts <= now /\ now < HuntingEnds
        BY <1>1, <1>4, <1>5
      <4>3. \E b \in Accepted(h)' : commands'[h][b].hider = hider
        BY <1>6
      <4> QED BY <4>1, <4>2, <4>3 DEF Earned
    <3>3. i \in DOMAIN discoveries \/ i = Len(discoveries) + 1
      BY <1>9
    <3> QED BY <1>9, <2>2, <3>1, <3>2, <3>3
  <2>3. \A i \in DOMAIN discoveries' : \A q : q = discoveries'[i] =>
          /\ hidingSlot'[q.hider] = q.aim
          /\ HuntingStarts <= q.at /\ q.at < HuntingEnds
          /\ \E b \in Accepted(q.hunter)' : commands'[q.hunter][b].hider = q.hider
    BY <2>2 DEF Earned
  <2> QED BY <2>1, <2>3 DEF DiscoveriesAreEarned
<1> QED BY <1>6, <1>15, <1>16, <1>17, <1>18, <1>19 DEF RoundInv

-----------------------------------------------------------------------------
(* The theorems.                                                           *)

(* Every step keeps the invariant.                                          *)
LEMMA RoundStep == RoundInv /\ [Next]_vars => RoundInv'
<1> SUFFICES ASSUME RoundInv, [Next]_vars PROVE RoundInv'
  OBVIOUS
<1>1. ASSUME NEW delay \in 1..MaxDelay, Loop(delay) PROVE RoundInv'
  BY <1>1, LoopKeeps
<1>2. ASSUME NEW h \in hunters, NEW c \in Command, NEW aim \in Aim, HandleFire(h, c, aim)
      PROVE  RoundInv'
  <2>1. ~IsReplay(h, c) /\ UNCHANGED <<assignment, now>>
    BY <1>2 DEF HandleFire
  <2>2. CASE RefuseFire(h, c, aim)
    BY <2>1, <2>2, RefuseKeeps
  <2>3. CASE MissFire(h, c, aim)
    BY <2>1, <2>3, MissKeeps
  <2>4. CASE HitFire(h, c, aim)
    BY <2>1, <2>4, HitKeeps
  <2> QED BY <1>2, <2>2, <2>3, <2>4 DEF HandleFire
<1>3. CASE UNCHANGED vars
  <2>1. UNCHANGED <<assignment, discoveries, shells, reloadUntil, commands>>
    BY <1>3 DEF vars
  <2>2. /\ RolesAreAssigned' /\ FewCommands' /\ ReloadsArePast'
        /\ ShotsAccountedFor' /\ DiscoveriesAreEarned'
        /\ FoundHiders' = FoundHiders /\ Hiders' = Hiders
    BY <2>1, NothingFired
  <2>3. TypeOK'
    BY <1>3, <2>2 DEF RoundInv, TypeOK, vars, assignment, RolesAreAssigned
  <2>4. OnSchedule' /\ FoundAll'
    BY <1>3, <2>2 DEF RoundInv, OnSchedule, FoundAll, vars
  <2> QED BY <2>2, <2>3, <2>4 DEF RoundInv
<1> QED BY <1>1, <1>2, <1>3 DEF Next

(* The inductive invariant holds in every reachable state of a round.       *)
THEOREM RoundInvariant == Spec => []RoundInv
<1>1. Init => RoundInv
  BY RoundInit
<1>2. RoundInv /\ [Next]_vars => RoundInv'
  BY RoundStep
<1> QED BY <1>1, <1>2, PTL DEF Spec

(* The round state keeps the shape of casualRoundState, and the shells stay *)
(* within the configured limit, whatever the loop and the players do.       *)
THEOREM RoundTypeSafe == Spec => []TypeOK
<1>1. RoundInv => TypeOK
  BY DEF RoundInv
<1> QED BY <1>1, RoundInvariant, PTL

(* HandleFire: the shells spent are the accepted commands, one each, and    *)
(* two accepted shots of a hunter are a reload apart.                       *)
THEOREM ShotsAreAccountedFor == Spec => []ShotsAccountedFor
<1>1. RoundInv => ShotsAccountedFor
  BY DEF RoundInv
<1> QED BY <1>1, RoundInvariant, PTL

(* HandleFire: nobody is found twice, nobody outside the scheduled hunting  *)
(* window, and nobody without an accepted shot at the slot they hide in.    *)
THEOREM AllDiscoveriesAreEarned == Spec => []DiscoveriesAreEarned
<1>1. RoundInv => DiscoveriesAreEarned
  BY DEF RoundInv
<1> QED BY <1>1, RoundInvariant, PTL

(* Advance and HandleFire: the verdict is the one the discoveries and the   *)
(* clock call for, and the phase is the scheduled one however late a tick.  *)
THEOREM VerdictIsRight == Spec => []VerdictFollowsTheRound
<1>1. RoundInv => VerdictFollowsTheRound
  <2> SUFFICES ASSUME RoundInv PROVE VerdictFollowsTheRound
    OBVIOUS
  <2>1. TypeOK /\ OnSchedule
    BY DEF RoundInv
  <2>2. (HidersRemaining = 0) <=> (FoundHiders = Hiders)
    <3>1. IsFiniteSet(Hiders) /\ Cardinality(Hiders) \in Nat
      BY <2>1, HidersFinite DEF TypeOK
    <3>2. FoundHiders \subseteq Hiders
      BY <2>1, DiscoveryType DEF FoundHiders
    <3>3. Cardinality(FoundHiders) \in Nat
      BY <3>1, <3>2, FS_Subset, FS_CardinalityType
    <3>4. Cardinality(Hiders) = Cardinality(FoundHiders) <=> FoundHiders = Hiders
      BY <3>1, <3>2, FS_Subset
    <3> QED BY <3>1, <3>3, <3>4 DEF HidersRemaining
  <2>3. (winningSide = "hunters") <=> (HidersRemaining = 0)
    BY <2>2 DEF RoundInv, FoundAll
  <2>4. /\ phase \in {"preparing", "hiding", "hunting", "terminal"} /\ now \in Nat
        /\ winningSide \in {"", "hiders", "hunters"}
    BY <2>1 DEF TypeOK
  <2>5. (winningSide = "hiders") => now >= HuntingEnds
    BY <2>1, <2>4, ScheduleType DEF OnSchedule
  <2>6. (phase = "terminal") <=> (winningSide # "")
    BY <2>1, <2>4 DEF OnSchedule
  <2>7. phase = ScheduledPhase
    <3>0. now \in Nat /\ PreparingDuration \in Nat /\ HuntingStarts \in Nat /\ HuntingEnds \in Nat
          /\ PreparingDuration < HuntingStarts /\ HuntingStarts < HuntingEnds
      BY <2>4, ScheduleType
    <3>1. CASE phase = "preparing"
      <4>1. winningSide # "hunters" /\ now < PreparingDuration
        BY <2>1, <3>1 DEF OnSchedule
      <4> QED BY <3>0, <3>1, <4>1 DEF ScheduledPhase
    <3>2. CASE phase = "hiding"
      <4>1. winningSide # "hunters" /\ PreparingDuration <= now /\ now < HuntingStarts
        BY <2>1, <3>2 DEF OnSchedule
      <4>2. ~(now < PreparingDuration) /\ ~(HuntingStarts <= now) /\ ~(HuntingEnds <= now)
        BY <3>0, <4>1
      <4> QED BY <3>2, <4>1, <4>2 DEF ScheduledPhase
    <3>3. CASE phase = "hunting"
      <4>1. winningSide # "hunters" /\ HuntingStarts <= now /\ now < HuntingEnds
        BY <2>1, <3>3 DEF OnSchedule
      <4>2. ~(now < PreparingDuration) /\ ~(now < HuntingStarts) /\ ~(HuntingEnds <= now)
        BY <3>0, <4>1
      <4> QED BY <3>3, <4>1, <4>2 DEF ScheduledPhase
    <3>4. CASE phase = "terminal" /\ winningSide = "hunters"
      BY <3>4 DEF ScheduledPhase
    <3>5. CASE phase = "terminal" /\ winningSide # "hunters"
      <4>1. winningSide = "hiders" /\ HuntingEnds <= now
        BY <2>1, <3>5 DEF OnSchedule
      <4>2. ~(now < PreparingDuration) /\ ~(now < HuntingStarts) /\ ~(now < HuntingEnds)
        BY <3>0, <4>1
      <4> QED BY <3>5, <4>1, <4>2 DEF ScheduledPhase
    <3> QED BY <2>4, <3>1, <3>2, <3>3, <3>4, <3>5
  <2> QED BY <2>3, <2>5, <2>6, <2>7 DEF VerdictFollowsTheRound
<1> QED BY <1>1, RoundInvariant, PTL

(* A round that has ended stays as it ended: no late command or tick changes *)
(* the verdict, spends a shell or finds another hider.                      *)
THEOREM VerdictIsFinal ==
    Spec => [][phase = "terminal" =>
                 UNCHANGED <<phase, winningSide, discoveries, shells, reloadUntil>>]_vars
<1> DEFINE Ended == UNCHANGED <<phase, winningSide, discoveries, shells, reloadUntil>>
<1>1. RoundInv /\ [Next]_vars => [phase = "terminal" => Ended]_vars
  <2> SUFFICES ASSUME RoundInv, Next, phase = "terminal" PROVE Ended
    OBVIOUS
  <2>1. ASSUME NEW delay \in 1..MaxDelay, Loop(delay) PROVE Ended
    <3> DEFINE r == [phase |-> phase, deadline |-> deadline,
                     side |-> winningSide, why |-> completionReason]
    <3>1. r.phase = "terminal" /\ r.side = winningSide
      OBVIOUS
    <3>2. phase' = Advance(r, now').phase /\ winningSide' = Advance(r, now').side
      BY <2>1 DEF Loop
    <3> HIDE DEF r
    <3>3. \A t : AdvanceStep(r, t) = r
      BY <3>1 DEF AdvanceStep
    <3>4. Advance(r, now') = r
      BY <3>3 DEF Advance
    <3>5. phase' = phase /\ winningSide' = winningSide
      BY <3>1, <3>2, <3>4
    <3>6. UNCHANGED <<discoveries, shells, reloadUntil>>
      BY <2>1 DEF Loop
    <3> QED BY <3>5, <3>6
  <2>2. ASSUME NEW h \in hunters, NEW c \in Command, NEW aim \in Aim, HandleFire(h, c, aim)
        PROVE  Ended
    <3>1. Refusal(h, aim) # "none"
      BY AdmittedFire DEF RoundInv
    <3>2. RefuseFire(h, c, aim)
      BY <2>2, <3>1 DEF HandleFire, MissFire, HitFire
    <3> QED BY <3>2 DEF RefuseFire
  <2> QED BY <2>1, <2>2 DEF Next
<1> QED BY <1>1, RoundInvariant, PTL DEF Spec
=============================================================================

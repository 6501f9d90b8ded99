---------------------------- MODULE Provisioning ----------------------------
(* Google-to-Hive account provisioning (apps/api/src/provisioning), composed *)
(* with the sessions of IdentitySessions through the player, identity and   *)
(* acknowledgment rows they share.                                          *)
(*                                                                          *)
(* A run of ProvisioningService.process reads the job once, without a lock, *)
(* and takes every branch on that copy; each of its awaits is a step of its *)
(* own, so two runs of one job interleave.  The custody and sponsor adapters *)
(* are external and idempotent by key, as their contracts in                *)
(* provisioning.types.ts ask; either may fail, also after its effect.       *)
EXTENDS IdentitySessions

CONSTANT Worker     \* runs of process that may overlap

ASSUME FaultsAssumption ==
    \A l \in Scenarios : {l.faults, l.forks} \subseteq Nat /\ l.workers \subseteq Worker

VARIABLES
    final,      \* the account of a name is irreversible
    rc,         \* the initial resource credits of a name are in place
    projected,  \* names whose delegation is in hive_projection.rc_delegation
    job,        \* identity.hive_account_provisioning with its custody keys
    run,        \* the run each worker is executing
    faults, forks

provisioningVars == <<final, rc, projected, job, run, faults, forks>>
allVars == <<sessionVars, provisioningVars>>

NoJob == [state |-> "none", user |-> Nobody, keys |-> "none", delegated |-> FALSE]
NoRun == [pc |-> "idle", identity |-> Nobody, read |-> "none"]

Init ==
    /\ SessionsInit
    /\ final = [u \in Username |-> FALSE] /\ rc = [u \in Username |-> FALSE]
    /\ projected = {}
    /\ job = [e \in Identity |-> NoJob]
    /\ run = [w \in Worker |-> NoRun]
    /\ faults = 0 /\ forks = 0

-----------------------------------------------------------------------------
(* The Hive chain, external: somebody else may register a name, an account  *)
(* becomes irreversible, a fork drops one that is not.  The table of        *)
(* delegations is external too: its grants leave it to the projector, whose *)
(* source never writes it.                                                  *)

RegisteredElsewhere(u) ==
    /\ account[u] = "none"
    /\ account' = [account EXCEPT ![u] = "external"]
    /\ UNCHANGED <<limit, now, player, identity, challenge, session, ackVars, onboardingUntil,
                   request, bridgeVars, provisioningVars>>

BecomesIrreversible(u) ==
    /\ account[u] # "none" /\ ~final[u]
    /\ final' = [final EXCEPT ![u] = TRUE]
    /\ UNCHANGED <<sessionVars, rc, projected, job, run, faults, forks>>

Fork(u) ==
    /\ forks < limit.forks
    /\ account[u] # "none" /\ ~final[u]
    /\ account' = [account EXCEPT ![u] = "none"]
    /\ forks' = forks + 1
    /\ UNCHANGED <<limit, now, player, identity, challenge, session, ackVars, onboardingUntil,
                   request, bridgeVars, final, rc, projected, job, run, faults>>

RcDelegationProjected(u) ==
    /\ rc[u] /\ u \notin projected
    /\ projected' = projected \cup {u}
    /\ UNCHANGED <<sessionVars, final, rc, job, run, faults, forks>>

-----------------------------------------------------------------------------
(* Onboarding: the name is checked first and reserved later.               *)

(* uq_provisioning_reserved_username; no code sets terminal_failed.         *)
MutantFreeWhenReady(u) == \A e \in Identity : job[e].user = u => job[e].state = "ready"
Free(u) == \A e \in Identity : job[e].user # u

Available(u) == account[u] = "none" /\ Free(u)

CheckUsername(r, e, u) ==
    /\ CanBegin(r)
    /\ OnboardingTokenValid(e)
    /\ Available(u) \/ job[e].user = u
    /\ request' = [request EXCEPT ![r] =
         [Idle EXCEPT !.pc = "confirm", !.via = e, !.user = u]]
    /\ UNCHANGED <<limit, now, account, player, identity, challenge, session, ackVars,
                   onboardingUntil, bridgeVars, provisioningVars>>

ConfirmUsername(r) ==
    LET e == request[r].via
        u == request[r].user IN
    /\ request[r].pc = "confirm"
    /\ job' = IF identity[e].status = "provisioning" /\ job[e] = NoJob /\ Free(u)
              THEN [job EXCEPT ![e].state = "username_confirmed", ![e].user = u]
              ELSE job
    /\ Ends(r)
    /\ UNCHANGED <<limit, now, account, player, identity, challenge, session, ackVars,
                   onboardingUntil, bridgeVars, final, rc, projected, run, faults, forks>>

-----------------------------------------------------------------------------
(* process: what each of its awaits does and where it goes next.           *)

NeedsAccount(read) ==
    read \in {"username_confirmed", "keys_ready", "account_creation_pending",
              "retryable_failed"}

AfterKeys(read) ==
    CASE NeedsAccount(read) -> "create"
      [] read = "rc_delegated" -> "verify_ready"
      [] OTHER -> "mark_rc_pending"

(* The states from which each mark of the repository advances the job.      *)
MutantSaveLate == {"keys_ready", "retryable_failed"}
SaveFrom == {"username_confirmed", "keys_ready", "retryable_failed"}
MarkFrom ==
    [account_creation_pending |->
        {"keys_ready", "account_creation_pending", "retryable_failed"},
     account_created |->
        {"account_creation_pending", "account_created", "retryable_failed"},
     rc_delegation_pending |->
        {"account_created", "rc_delegation_pending", "retryable_failed"},
     rc_delegated |-> {"rc_delegation_pending", "rc_delegated", "retryable_failed"}]
Finished == {"ready", "terminal_failed"}

Continue(w, pc) == run' = [run EXCEPT ![w].pc = pc]
At(w, pc) == run[w].pc = pc
JobOf(w) == job[run[w].identity]
NameOf(w) == JobOf(w).user

GetJob(w, e) ==
    /\ run[w] = NoRun /\ w \in limit.workers
    /\ job[e] # NoJob /\ job[e].state \notin Finished
    /\ run' = [run EXCEPT ![w] = [pc |-> "get_keys", identity |-> e,
                                  read |-> job[e].state]]
    /\ UNCHANGED <<sessionVars, final, rc, projected, job, faults, forks>>

GetKeys(w) ==
    /\ At(w, "get_keys")
    /\ Continue(w, IF JobOf(w).keys = "none" THEN "save_keys"
                   ELSE AfterKeys(run[w].read))
    /\ UNCHANGED <<sessionVars, final, rc, projected, job, faults, forks>>

(* The generated keys are inserted unless present; afterwards exactly four  *)
(* must be in state generated, which active ones are not.                   *)
SaveKeys(w) ==
    LET e == run[w].identity IN
    /\ At(w, "save_keys")
    /\ IF job[e].keys = "active"
       THEN Continue(w, "fail") /\ UNCHANGED job
       ELSE /\ Continue(w, AfterKeys(run[w].read))
            /\ job' = [job EXCEPT ![e].keys = "generated",
                         ![e].state = IF @ \in SaveFrom THEN "keys_ready" ELSE @]
    /\ UNCHANGED <<sessionVars, final, rc, projected, faults, forks>>

CreateClaimedAccount(w) ==
    LET u == NameOf(w) IN
    /\ At(w, "create")
    /\ account' = [account EXCEPT ![u] = IF @ = "none" THEN "ours" ELSE @]
    /\ Continue(w, IF account[u] = "external" THEN "fail" ELSE "mark_creation_pending")
    /\ UNCHANGED <<limit, now, player, identity, challenge, session, ackVars, onboardingUntil,
                   request, bridgeVars, final, rc, projected, job, faults, forks>>

Mark(w, at, state, next) ==
    /\ At(w, at)
    /\ job' = [job EXCEPT ![run[w].identity].state =
                 IF @ \in MarkFrom[state] THEN state ELSE @]
    /\ Continue(w, next)
    /\ UNCHANGED <<sessionVars, final, rc, projected, faults, forks>>

MarkAccountCreationPending(w) ==
    Mark(w, "mark_creation_pending", "account_creation_pending", "verify_account")
MarkAccountCreated(w) == Mark(w, "mark_created", "account_created", "mark_rc_pending")
MarkRcDelegationPending(w) ==
    Mark(w, "mark_rc_pending", "rc_delegation_pending", "delegate")

(* verifyReady after the account was requested, and again at the end.       *)
MutantAtHead(u) == account[u] = "ours"
AccountVerified(u) == account[u] = "ours" /\ final[u]

VerifyAccount(w) ==
    /\ At(w, "verify_account")
    /\ Continue(w, IF AccountVerified(NameOf(w)) THEN "mark_created" ELSE "fail")
    /\ UNCHANGED <<sessionVars, final, rc, projected, job, faults, forks>>

DelegateInitialResourceCredits(w) ==
    LET u == NameOf(w)
        granted == account[u] = "ours" IN
    /\ At(w, "delegate")
    /\ rc' = [rc EXCEPT ![u] = @ \/ granted]
    /\ Continue(w, IF granted THEN "mark_delegated" ELSE "fail")
    /\ UNCHANGED <<sessionVars, final, projected, job, faults, forks>>

(* The update names the delegation and fails unless its row is there        *)
(* (fk_provisioning_rc_delegation); in another state it updates nothing.    *)
DelegationAdmitted(e) ==
    job[e].state \in MarkFrom["rc_delegated"] => job[e].user \in projected

MarkRcDelegated(w) ==
    LET e == run[w].identity IN
    /\ At(w, "mark_delegated")
    /\ job' = IF job[e].state \in MarkFrom["rc_delegated"] /\ DelegationAdmitted(e)
              THEN [job EXCEPT ![e].state = "rc_delegated", ![e].delegated = TRUE]
              ELSE job
    /\ Continue(w, IF DelegationAdmitted(e) THEN "verify_ready" ELSE "fail")
    /\ UNCHANGED <<sessionVars, final, rc, projected, faults, forks>>

VerifyReady(w) ==
    /\ At(w, "verify_ready")
    /\ Continue(w, IF AccountVerified(NameOf(w)) /\ rc[NameOf(w)]
                   THEN "mark_ready" ELSE "fail")
    /\ UNCHANGED <<sessionVars, final, rc, projected, job, faults, forks>>

(* markReady is one transaction.  It fails as a whole when the job would be *)
(* ready without a delegation (chk_provisioning_ready), or when a pending   *)
(* acknowledgment of the identity meets one of the player                   *)
(* (uq_disclosure_ack_player_version).  The player, the link and the        *)
(* acknowledgment do not depend on whether the job itself advances.         *)
ReadyFrom == {"rc_delegated", "retryable_failed"}
ReadyAdmitted(e) ==
    /\ job[e].state \in ReadyFrom => job[e].delegated
    /\ identityAck[e] = "pending" => ~Acknowledged(job[e].user)

LinkPlayer(e) ==
    LET u == job[e].user IN
    /\ player' = [player EXCEPT ![u] = Upserted(u, "platform_custodial")]
    /\ job' = [job EXCEPT ![e].keys = "active",
                          ![e].state = IF @ \in ReadyFrom THEN "ready" ELSE @]
    /\ identity' = IF identity[e].status = "provisioning"
                   THEN [identity EXCEPT ![e].status = "linked", ![e].player = u]
                   ELSE identity
    /\ identityAck' = [identityAck EXCEPT ![e] = IF @ = "pending" THEN "linked" ELSE @]

MarkReady(w) ==
    LET e == run[w].identity IN
    /\ At(w, "mark_ready")
    /\ IF job[e].state # "ready" /\ ReadyAdmitted(e)
       THEN LinkPlayer(e)
       ELSE UNCHANGED <<player, job, identity, identityAck>>
    /\ IF job[e].state = "ready" \/ ReadyAdmitted(e)
       THEN run' = [run EXCEPT ![w] = NoRun] ELSE Continue(w, "fail")
    /\ UNCHANGED <<limit, now, account, challenge, session, playerAck, onboardingUntil,
                   request, bridgeVars, final, rc, projected, faults, forks>>

MarkRetryableFailure(w) ==
    /\ At(w, "fail")
    /\ job' = [job EXCEPT ![run[w].identity].state =
                 IF @ \in Finished THEN @ ELSE "retryable_failed"]
    /\ run' = [run EXCEPT ![w] = NoRun]
    /\ UNCHANGED <<sessionVars, final, rc, projected, faults, forks>>

(* A call is refused, or the answer of one that took effect is lost: the    *)
(* run goes to its catch block.                                             *)
CallFails(w) ==
    /\ run[w] # NoRun /\ ~At(w, "fail") /\ faults < limit.faults
    /\ Continue(w, "fail")
    /\ faults' = faults + 1
    /\ UNCHANGED <<sessionVars, final, rc, projected, job, forks>>

(* The process is lost, or the catch block cannot reach the store either.   *)
RunLost(w) ==
    /\ run[w] # NoRun /\ faults < limit.faults
    /\ run' = [run EXCEPT ![w] = NoRun]
    /\ faults' = faults + 1
    /\ UNCHANGED <<sessionVars, final, rc, projected, job, forks>>

Process(w) ==
    \/ \E e \in Identity : GetJob(w, e)
    \/ GetKeys(w) \/ SaveKeys(w) \/ CreateClaimedAccount(w)
    \/ MarkAccountCreationPending(w) \/ VerifyAccount(w) \/ MarkAccountCreated(w)
    \/ MarkRcDelegationPending(w) \/ DelegateInitialResourceCredits(w)
    \/ MarkRcDelegated(w) \/ VerifyReady(w) \/ MarkReady(w) \/ MarkRetryableFailure(w)

Next ==
    \/ SessionsNext /\ UNCHANGED provisioningVars
    \/ \E r \in Request :
         \/ \E e \in Identity, u \in Username : CheckUsername(r, e, u)
         \/ ConfirmUsername(r)
    \/ \E u \in Username :
         \/ RegisteredElsewhere(u) \/ BecomesIrreversible(u) \/ Fork(u)
         \/ RcDelegationProjected(u)
    \/ \E w \in Worker : Process(w) \/ CallFails(w) \/ RunLost(w)

Spec == Init /\ [][Next]_allVars

-----------------------------------------------------------------------------
(* Properties.                                                             *)

JobStates ==
    {"none", "username_confirmed", "keys_ready", "account_creation_pending",
     "account_created", "rc_delegation_pending", "rc_delegated", "ready",
     "retryable_failed"}

(* Every row, request and run has the shape of its type.                    *)
TypeOK ==
    /\ now \in 0..limit.time
    /\ account \in [Username -> {"none", "external", "ours"}]
    /\ player \in [Username -> {"none", "external_self_custodial", "platform_custodial"}]
    /\ \A e \in Identity :
         /\ identity[e].status \in {"absent", "provisioning", "linked"}
         /\ identity[e].status = "linked" <=> identity[e].player \in Username
         /\ job[e].state \in JobStates
         /\ job[e].state \in {"none", "username_confirmed"} => job[e].keys = "none"
    /\ \A s \in DOMAIN session : player[session[s].user] # "none"
    /\ replay \subseteq DOMAIN assertion
    /\ projected \subseteq Username
    /\ faults \in 0..limit.faults /\ forks \in 0..limit.forks

(* Whatever two runs of process do to each other's marks, a Google identity *)
(* is linked only to a player of its own, whose account is irreversible,    *)
(* carries the four generated keys and has its resource credits; a job is   *)
(* ready only with its identity linked.  As long as no fork has dropped an  *)
(* account, the linked player is in platform custody, without which no      *)
(* Google login of hers is admitted.                                        *)
LinkedAccountsAreVerified ==
    /\ \A e \in Identity : identity[e].status = "linked" =>
         LET u == identity[e].player IN
         /\ account[u] = "ours" /\ final[u] /\ rc[u]
         /\ job[e].user = u /\ job[e].keys = "active"
         /\ \A f \in Identity \ {e} : identity[f].player # u
         /\ forks = 0 => player[u] = "platform_custodial"
    /\ \A e \in Identity : job[e].state = "ready" =>
         identity[e].status = "linked" /\ job[e].delegated

(* markReady gives the identity's pending acknowledgment to the player and  *)
(* rolls back, in every later run as well, if the player already has one    *)
(* (uq_disclosure_ack_player_version).  As long as no fork has dropped an   *)
(* account, nobody can have made one: the player of a name the platform has *)
(* registered plays only once the identity that reserved it is linked.      *)
AcknowledgmentsLetNamesLink ==
    forks = 0 =>
      \A e \in Identity :
        /\ job[e].user # Nobody /\ account[job[e].user] = "ours"
        /\ identity[e].status # "linked"
        => ~Acknowledged(job[e].user)
=============================================================================

--------------------------- MODULE MatchPublisher ---------------------------
(***************************************************************************)
(* The match publisher: workers/match-publisher, the cycle of runtime/      *)
(* match-publisher-worker.ts over the tables of store/postgres-publication- *)
(* store.ts, with the lifecycle trigger of the outbox.                      *)
(*                                                                         *)
(* Every store method is one transaction and one action.  Several workers   *)
(* may run; the claim lease of one may run out while it still works.        *)
(* Requests are numbered in completion order, outbox rows in the order they *)
(* are created; an outbox stands for its event, which is frozen with it.    *)
(* Time is abstracted to what it decides: a row's next_retry_at has passed  *)
(* or not, a result is older than maximumAgeMs or not.                      *)
(***************************************************************************)
EXTENDS Integers, FiniteSets, Sequences, SequencesExt

CONSTANTS
    Worker, NoJob,
    MaxRequest,          \* rounds completed, numbered 1..MaxRequest
    Unrepresentable,     \* those candidateFromRow refuses
    Size,                \* payload bytes of each result
    MaximumResults, MaximumPayloadBytes,
    MaxTries,            \* bound on the deferrals of a request
    MaxAttempts,         \* bound on attempt_count of an outbox
    MaxFaults,           \* failed, interrupted or overlong calls
    MaxForks, MaxExpiries

Request == 1..MaxRequest
Slot == Request          \* a batch holds at least one request

ASSUME PublisherAssumption ==
    /\ MaxRequest \in Nat /\ Unrepresentable \subseteq Request
    /\ Size \in [Request -> Nat \ {0}]
    /\ {MaximumResults, MaximumPayloadBytes} \subseteq Nat \ {0}
    /\ {MaxTries, MaxAttempts, MaxFaults, MaxForks, MaxExpiries} \subseteq Nat
    /\ NoJob \notin [outbox: Nat, attempt: Nat]

VARIABLES
    request,   \* match_publication_request: state, due, tries
    aged,      \* requests 1..aged are older than maximumAgeMs
    outbox,    \* match_publication_outbox rows with their items
    event,     \* match_event: finality of the event of each outbox
    pool,      \* broadcast transactions of each outbox not yet in a block
    journal,   \* transaction_intent: the attempts recorded for signing
    pc, job,   \* the cycle of each worker and the attempt it holds
    faults, forks, expiries

Feed == INSTANCE MatchEventFeed WITH Event <- Slot, state <- event

chain == <<event, pool>>
workers == <<pc, job>>
bounds == <<faults, forks, expiries>>
vars == <<request, aged, outbox, chain, journal, workers, bounds>>

-----------------------------------------------------------------------------
Claimable == {"queued", "retryable_failed", "reverted"}

(* hc_freeze_match_outbox_payload.                                          *)
MutantFinalMayFail(from, to) ==
    from = "irreversible" \/ <<from, to>> # <<"reverted", "irreversible">>
LegalTransition(from, to) ==
    \/ from = to
    \/ from = "queued" /\ to # "queued"
    \/ from = "broadcast" /\ to # "queued"
    \/ from = "retryable_failed" /\ to # "queued"
    \/ from = "included" /\ to \in {"irreversible", "reverted"}
    \/ from = "reverted" /\ to # "irreversible"

Init ==
    /\ request = [r \in Request |-> [state |-> "absent", due |-> TRUE, tries |-> 0]]
    /\ aged = 0 /\ outbox = <<>>
    /\ Feed!Init /\ pool = [o \in Slot |-> 0]
    /\ journal = {}
    /\ pc = [w \in Worker |-> "idle"] /\ job = [w \in Worker |-> NoJob]
    /\ faults = 0 /\ forks = 0 /\ expiries = 0

Goto(w, label) == pc' = [pc EXCEPT ![w] = label]
Idle(w) == Goto(w, "idle") /\ job' = [job EXCEPT ![w] = NoJob]
Fault == faults < MaxFaults /\ faults' = faults + 1 /\ UNCHANGED <<forks, expiries>>

-----------------------------------------------------------------------------
(* The environment of the workers.                                         *)

(* commitTerminalResult queues the initial request of a completed round.    *)
CommitResult(r) ==
    /\ request[r].state = "absent"
    /\ request' = [request EXCEPT ![r].state = "queued"]
    /\ UNCHANGED <<aged, outbox, chain, journal, workers, bounds>>

GrowOld ==
    /\ aged < MaxRequest
    /\ aged' = aged + 1
    /\ UNCHANGED <<request, outbox, chain, journal, workers, bounds>>

(* The hour a request was deferred by passes.                               *)
RequestDue(r) ==
    /\ ~request[r].due /\ request[r].tries <= MaxTries
    /\ request' = [request EXCEPT ![r].due = TRUE]
    /\ UNCHANGED <<aged, outbox, chain, journal, workers, bounds>>

(* A lease or a backoff passes; a lease that passes while its worker still  *)
(* works is counted as a fault.                                             *)
OutboxDue(o) ==
    /\ o \in DOMAIN outbox /\ ~outbox[o].due
    /\ outbox' = [outbox EXCEPT ![o].due = TRUE]
    /\ IF \E w \in Worker : job[w] # NoJob /\ job[w].outbox = o
       THEN Fault ELSE UNCHANGED bounds
    /\ UNCHANGED <<request, aged, chain, journal, workers>>

(* A transaction reaches a block the projector sees; a repeated event stays *)
(* bound to its first operation.                                           *)
Include(o) ==
    /\ pool[o] > 0
    /\ pool' = [pool EXCEPT ![o] = @ - 1]
    /\ event' = [event EXCEPT ![o] = IF @ = "irreversible" THEN @ ELSE "included"]
    /\ UNCHANGED <<request, aged, outbox, journal, workers, bounds>>

(* A fork takes it out again: back to the pool or gone.                     *)
Fork(o) ==
    /\ forks < MaxForks /\ event[o] = "included"
    /\ event' = [event EXCEPT ![o] = "reverted"]
    /\ \E back \in {0, 1} : pool' = [pool EXCEPT ![o] = @ + back]
    /\ forks' = forks + 1
    /\ UNCHANGED <<request, aged, outbox, journal, workers, faults, expiries>>

BecomeIrreversible(o) ==
    /\ event[o] = "included"
    /\ event' = [event EXCEPT ![o] = "irreversible"]
    /\ UNCHANGED <<request, aged, outbox, pool, journal, workers, bounds>>

(* A transaction expires before any producer includes it.                   *)
Expire(o) ==
    /\ expiries < MaxExpiries /\ pool[o] > 0
    /\ pool' = [pool EXCEPT ![o] = @ - 1]
    /\ expiries' = expiries + 1
    /\ UNCHANGED <<request, aged, outbox, event, journal, workers, faults, forks>>

-----------------------------------------------------------------------------
(* reconcileProjectedFinality: one statement over all rows, so one illegal  *)
(* transition fails the whole call, and with it the cycle.                  *)

Changed == {o \in DOMAIN outbox : /\ event[o] # "absent"
                                  /\ event[o] # outbox[o].state
                                  /\ outbox[o].state # "irreversible"}
Members(o) == ToSet(outbox[o].items)
ConfirmsItems(o) == event[o] = "irreversible"

ReconcileProjectedFinality(w) ==
    /\ pc[w] = "idle"
    /\ IF \A o \in Changed : LegalTransition(outbox[o].state, event[o])
       THEN /\ outbox' = [o \in DOMAIN outbox |->
                            IF o \in Changed
                            THEN [outbox[o] EXCEPT !.state = event[o], !.due = TRUE]
                            ELSE outbox[o]]
            /\ request' = [r \in Request |->
                  IF \E o \in Changed : ConfirmsItems(o) /\ r \in Members(o)
                  THEN [request[r] EXCEPT !.state = "published"] ELSE request[r]]
            /\ Goto(w, "freeze")
       ELSE UNCHANGED <<outbox, request, pc>>
    /\ UNCHANGED <<aged, chain, journal, job, bounds>>

-----------------------------------------------------------------------------
(* freezeNextBatch with planMatchBatch.                                     *)

MutantAnyUnpublished(r) == request[r].state \notin {"absent", "published"}
IsCandidate(r) == request[r].state \in {"queued", "retryable_failed"}

Eligible == {r \in Request : IsCandidate(r) /\ request[r].due}
Position(r) == Cardinality({q \in Eligible : q <= r})
(* The oldest first, one more than a batch may hold.                        *)
Selected ==
    [n \in 1..(IF Cardinality(Eligible) <= MaximumResults THEN Cardinality(Eligible)
               ELSE MaximumResults + 1)
       |-> CHOOSE r \in Eligible : Position(r) = n]

Bytes(items) == FoldSeq(LAMBDA r, n : n + Size[r], 0, items)
Fits(items) == Len(items) <= MaximumResults /\ Bytes(items) <= MaximumPayloadBytes
(* Results are added as long as the batch fits.                             *)
LargestBatch(s) ==
    SubSeq(s, 1, CHOOSE n \in 0..Len(s) :
                   /\ \A m \in 1..n : Fits(SubSeq(s, 1, m))
                   /\ n = Len(s) \/ ~Fits(SubSeq(s, 1, n + 1)))
MutantFullOnly(s) == Len(LargestBatch(s)) = MaximumResults
FlushesNow(s) ==
    \/ Head(s) <= aged
    \/ Len(LargestBatch(s)) = MaximumResults
    \/ LargestBatch(s) # s

DeferInvalidRequest(w, r) ==
    /\ request' = [request EXCEPT ![r] = [state |-> "retryable_failed", due |-> FALSE,
                                          tries |-> @.tries + 1]]
    /\ Idle(w)
    /\ UNCHANGED outbox

FreezeNothing(w) ==
    /\ Goto(w, "claim")
    /\ UNCHANGED <<request, outbox, job>>

InsertBatch(w, items) ==
    /\ outbox' = Append(outbox, [items |-> items, state |-> "queued", due |-> TRUE,
                                 attempts |-> 0])
    /\ request' = [r \in Request |-> IF r \in ToSet(items)
                                     THEN [request[r] EXCEPT !.state = "batched", !.due = TRUE]
                                     ELSE request[r]]
    /\ Goto(w, "claim")
    /\ UNCHANGED job

(* The first candidate whose row cannot be published, or the first of all    *)
(* when no batch can hold it.                                               *)
Misread(s) == ToSet(s) \cap Unrepresentable
Unpublishable(s) ==
    IF Misread(s) # {} THEN {r \in Misread(s) : \A q \in Misread(s) : r <= q}
    ELSE IF LargestBatch(s) = <<>> THEN {Head(s)} ELSE {}

FreezeNextBatch(w) ==
    /\ pc[w] = "freeze"
    /\ LET s == Selected IN
       \/ s = <<>> /\ FreezeNothing(w)
       \/ s # <<>> /\ \E r \in Unpublishable(s) : DeferInvalidRequest(w, r)
       \/ /\ s # <<>> /\ Unpublishable(s) = {}
          /\ IF FlushesNow(s) THEN InsertBatch(w, LargestBatch(s)) ELSE FreezeNothing(w)
    /\ UNCHANGED <<aged, chain, journal, bounds>>

(* A completed_at ahead of this worker's clock makes assertCandidates throw, *)
(* and the first candidate is the one deferred, whichever is at fault.       *)
RefuseToPlan(w) ==
    /\ pc[w] = "freeze" /\ Selected # <<>> /\ Fault
    /\ Misread(Selected) = {}
    /\ DeferInvalidRequest(w, Head(Selected))
    /\ UNCHANGED <<aged, chain, journal>>

-----------------------------------------------------------------------------
(* claimNextOutbox and publishAttempt.                                      *)

(* Past the bound an outbox is not claimed again; its worker goes on.        *)
Waiting == {o \in DOMAIN outbox : /\ outbox[o].state \in Claimable /\ outbox[o].due
                                  /\ outbox[o].attempts < MaxAttempts}
MutantSameAttempt(o) == outbox[o].attempts
NextAttempt(o) == outbox[o].attempts + 1

ClaimNextOutbox(w) ==
    /\ pc[w] = "claim"
    /\ \/ /\ Waiting = {} /\ Idle(w)
          /\ UNCHANGED outbox
       \/ \E o \in Waiting :
            /\ \A other \in Waiting : o <= other
            /\ outbox' = [outbox EXCEPT ![o].attempts = NextAttempt(o), ![o].due = FALSE]
            /\ job' = [job EXCEPT ![w] = [outbox |-> o, attempt |-> NextAttempt(o)]]
            /\ Goto(w, "prepare")
    /\ UNCHANGED <<request, aged, chain, journal, bounds>>

(* prepareOfficialEvent and recordSigningAttempt, whose idempotency key is   *)
(* unique.                                                                 *)
RecordSigningAttempt(w) ==
    /\ pc[w] = "prepare"
    /\ \/ /\ job[w] \notin journal
          /\ journal' = journal \cup {job[w]}
          /\ Goto(w, "journaled") /\ UNCHANGED bounds
       \/ /\ job[w] \in journal \/ faults < MaxFaults
          /\ IF job[w] \in journal THEN UNCHANGED bounds ELSE Fault
          /\ Goto(w, "failed") /\ UNCHANGED journal
    /\ UNCHANGED <<request, aged, outbox, chain, job>>

MutantOptimistic == "sent"
AfterFailedBroadcast == "failed"

(* broadcastOfficialEvent: done, refused, or done with the answer lost.      *)
BroadcastOfficialEvent(w) ==
    /\ pc[w] = "journaled"
    /\ LET o == job[w].outbox IN
       \/ /\ pool' = [pool EXCEPT ![o] = @ + 1]
          /\ Goto(w, "sent") /\ UNCHANGED bounds
       \/ /\ pool' \in {pool, [pool EXCEPT ![o] = @ + 1]}
          /\ Goto(w, AfterFailedBroadcast) /\ Fault
    /\ UNCHANGED <<request, aged, outbox, event, journal, job>>

(* Neither write looks at whose lease it is: only the trigger refuses.       *)
MarkBroadcast(w) ==
    /\ pc[w] = "sent"
    /\ LET o == job[w].outbox IN
       \/ /\ LegalTransition(outbox[o].state, "broadcast")
          /\ outbox' = [outbox EXCEPT ![o].state = "broadcast", ![o].due = TRUE]
          /\ Idle(w) /\ UNCHANGED bounds
       \/ /\ IF LegalTransition(outbox[o].state, "broadcast")
             THEN Fault ELSE UNCHANGED bounds
          /\ Goto(w, "failed") /\ UNCHANGED <<outbox, job>>
    /\ UNCHANGED <<request, aged, chain, journal>>

MarkRetryableFailure(w) ==
    /\ pc[w] = "failed"
    /\ LET o == job[w].outbox IN
       IF LegalTransition(outbox[o].state, "retryable_failed")
       THEN outbox' = [outbox EXCEPT ![o].state = "retryable_failed", ![o].due = FALSE]
       ELSE UNCHANGED outbox
    /\ Idle(w)
    /\ UNCHANGED <<request, aged, chain, journal, bounds>>

(* A transaction of the cycle fails or the process dies.                    *)
Interrupt(w) ==
    /\ pc[w] # "idle" /\ Fault
    /\ Idle(w)
    /\ UNCHANGED <<request, aged, outbox, chain, journal>>

Cycle(w) ==
    \/ ReconcileProjectedFinality(w) \/ FreezeNextBatch(w) \/ ClaimNextOutbox(w)
    \/ RecordSigningAttempt(w) \/ BroadcastOfficialEvent(w)
    \/ MarkBroadcast(w) \/ MarkRetryableFailure(w)

Next ==
    \/ \E w \in Worker : Cycle(w) \/ RefuseToPlan(w) \/ Interrupt(w)
    \/ \E r \in Request : CommitResult(r) \/ RequestDue(r)
    \/ GrowOld
    \/ \E o \in Slot :
         \/ OutboxDue(o) \/ Include(o) \/ Fork(o)
         \/ BecomeIrreversible(o) \/ Expire(o)

(* Workers poll for ever, clocks advance, and a transaction in the pool is   *)
(* included and becomes irreversible unless a fork or its expiry prevents it.*)
Spec ==
    /\ Init /\ [][Next]_vars
    /\ \A w \in Worker : WF_vars(Cycle(w))
    /\ WF_vars(GrowOld)
    /\ \A r \in Request : WF_vars(RequestDue(r))
    /\ \A o \in Slot : /\ WF_vars(OutboxDue(o)) /\ WF_vars(Include(o))
                       /\ WF_vars(BecomeIrreversible(o))

-----------------------------------------------------------------------------
(* Properties.                                                             *)

(* The tables hold values of their kind, and the journal knows only attempts *)
(* that were claimed.                                                       *)
TypeOK ==
    /\ request \in [Request -> [state: {"absent", "queued", "retryable_failed",
                                        "batched", "published"},
                                due: BOOLEAN, tries: Nat]]
    /\ outbox \in Seq([items: Seq(Request), state: Claimable \cup
                         {"broadcast", "included", "irreversible"},
                       due: BOOLEAN, attempts: Nat])
    /\ event \in [Slot -> Feed!State] /\ pool \in [Slot -> Nat]
    /\ \A n \in journal : n.outbox \in DOMAIN outbox
                          /\ n.attempt \in 1..outbox[n.outbox].attempts

(* "An accepted round_id can belong to only one initial batch": every        *)
(* request that left the queue is in exactly one batch, once, whatever       *)
(* workers freeze at the same time, and a batch keeps within its limits.     *)
OneBatchPerRequest ==
    /\ \A r \in Request :
         Cardinality({p \in (DOMAIN outbox) \X Request :
                        /\ p[2] \in DOMAIN outbox[p[1]].items
                        /\ outbox[p[1]].items[p[2]] = r})
           = IF request[r].state \in {"batched", "published"} THEN 1 ELSE 0
    /\ \A o \in DOMAIN outbox : outbox[o].items # <<>> /\ Fits(outbox[o].items)

(* A request is published exactly when its outbox is irreversible, and that  *)
(* only when the chain is: no late write of a slow worker takes it back.     *)
PublishedIsIrreversible ==
    \A o \in DOMAIN outbox :
      /\ outbox[o].state = "irreversible" => event[o] = "irreversible"
      /\ \A r \in Members(o) :
           request[r].state = "published" <=> outbox[o].state = "irreversible"

(* No two workers ever hold the same attempt of a batch, though a lease may  *)
(* run out under a worker: each transaction has a signer key of its own.     *)
AttemptsAreFenced ==
    \A v, w \in Worker : v # w /\ job[v] # NoJob => job[v] # job[w]

(* A batch no worker will claim again is known to the chain: it has a        *)
(* transaction under way or an event, unless a transaction expired.          *)
UnclaimedIsUnderWay ==
    \A o \in DOMAIN outbox :
      outbox[o].state = "broadcast" /\ expiries = 0
        => pool[o] > 0 \/ event[o] # "absent"

(* Every round whose result can be published is published, whatever calls    *)
(* fail or time out, unless a transaction was lost to a fork or an expiry.   *)
Publishable == {r \in Request \ Unrepresentable : Size[r] <= MaximumPayloadBytes}
RequestsGetPublished ==
    \A r \in Publishable :
      (request[r].state # "absent")
        ~> (request[r].state = "published" \/ forks + expiries > 0)

(* "reversion makes the same logical payload eligible for replay, and        *)
(* irreversibility marks every member request published"                    *)
(* (publication-pipeline.md): an event that is irreversible has its requests *)
(* published.                                                              *)
IrreversibilityPublishes ==
    \A o \in Slot :
      (event[o] = "irreversible")
        ~> (\A r \in Request : (o \in DOMAIN outbox /\ r \in Members(o))
                                 => request[r].state = "published")
=============================================================================

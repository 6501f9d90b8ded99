---------------------------- MODULE PublicLedger ----------------------------
(* What the HAF projector makes of the official events on the chain:        *)
(* validation of an operation and the materialization of irreversible       *)
(* events into results, corrections and collectibles (workers/haf-projector:*)
(* validation/operation-validator.ts, store/postgres-projection-store.ts),  *)
(* with the constraints and triggers of those tables.  Collectible events   *)
(* come from OfficialSigner, other operations from other accounts.          *)
(*                                                                          *)
(* Forks and the cycle of the projector are HafProjector's: here the chain  *)
(* only grows, and each cycle finalizes through the smaller of the LIB it   *)
(* read and the block it has processed.                                     *)
EXTENDS OfficialSigner

CONSTANTS
    Round, Collectible,
    MatchPublishers, CollectibleIssuers,   \* the policy of the validator
    MaximumFutureClockSkew

(* A row of hive_projection.match_result.                                   *)
MatchResult ==
    [initial: Event, current: Event, state: {"current", "corrected", "invalidated"},
     revision: {Nothing} \cup UNION {s.rows : s \in Scenarios}]

(* What the protocol schemas guarantee of a parsed event.                   *)
ASSUME LedgerAssumption ==
    /\ Nothing \notin Event /\ Nothing \notin Nat /\ Nothing \notin MatchResult
    /\ \A e \in Event :
         \/ Content[e].type \in {"issued", "revoked"} /\ Content[e].collectible \in Collectible
         \/ Content[e].type = "batch"
         \/ Content[e].type \in {"corrected", "invalidated"} /\ Content[e].round \in Round
    /\ \A s \in Scenarios : \A op \in s.others : op.event \in Event

VARIABLES
    known,    \* local rows an event may refer to: rounds, revisions, owners, payments
    reached,  \* operations of the chain at or below both the LIB and the cursor
    final,    \* operations of the chain that are irreversible in the projection
    tables    \* match_result, match_result_change, collectible_event and _instance

ledgerVars == <<known, reached, final, tables>>
allVars == <<signingVars, ledgerVars>>

EmptyTables ==
    [result |-> [r \in Round |-> Nothing], change |-> {},
     event |-> [e \in Event |-> Nothing], instance |-> [c \in Collectible |-> Nothing]]

Init ==
    /\ SigningInit
    /\ known = {} /\ reached = 0 /\ final = 0 /\ tables = EmptyTables

-----------------------------------------------------------------------------
(* HiveOperationValidator.                                                  *)

IsSignerAllowed(op) ==
    LET c == Content[op.event] IN
    CASE c.type = "issued"  -> op.signer \in CollectibleIssuers /\ c.issuer = op.signer
      [] c.type = "revoked" -> op.signer \in CollectibleIssuers
      [] OTHER              -> op.signer \in MatchPublishers /\ c.publisher = op.signer

(* null for an operation of another application; it is not stored at all.   *)
Validate(op) ==
    CASE op.form = "other"     -> "null"
      [] op.form = "malformed" -> "invalid_operation"
      [] op.form = "active"    -> "unexpected_authority"
      [] op.form = "garbled"   -> "invalid_event"
      [] ~IsSignerAllowed(op)  -> "signer_not_allowed"
      [] Content[op.event].occurredAt > op.at + MaximumFutureClockSkew ->
                                  "future_event_timestamp"
      [] OTHER                 -> "accepted"

Accepted(i) == Validate(chain[i]) = "accepted"

(* match_event keeps the first accepted operation of an event, and one      *)
(* event of a batch identifier.                                             *)
BatchOf(i) ==
    LET c == Content[chain[i].event] IN IF c.type = "batch" THEN c.batch ELSE Nothing
Bound(i) ==
    \A j \in 1..(i - 1) : Accepted(j) =>
      /\ chain[j].event # chain[i].event
      /\ BatchOf(j) = BatchOf(i) => BatchOf(i) = Nothing

-----------------------------------------------------------------------------
(* Materialization.  A step takes the tables and one event to the set of    *)
(* tables it may leave: one, or none when a statement, a constraint or a    *)
(* trigger raises, which aborts the whole transaction of finalizeThrough.   *)

(* The schemas accept values that no column takes: version codes of 33 to   *)
(* 64 characters for varchar(32), the year 0000 for a timestamptz.  Such a  *)
(* parameter fails the statement whatever rows it would write.              *)
FitsColumns(e) == Content[e].fits

(* ON CONFLICT (round_id) DO NOTHING.  A result whose round is not here is  *)
(* left out; one whose revision is not here stays pending.                  *)
FirstResultOf(t, r) == t.result[r] = Nothing

MaterializeInitialMatchResults(t, e) ==
    LET results == Content[e].results
        inserted == {r \in DOMAIN results : r \in known /\ FirstResultOf(t, r)} IN
    IF ~FitsColumns(e) THEN {}
    ELSE {[t EXCEPT !.result = [r \in Round |->
             IF r \notin inserted THEN t.result[r]
             ELSE [initial |-> e, current |-> e, state |-> "current",
                   revision |-> IF results[r] \in known THEN results[r] ELSE Nothing]]]}

(* The lookup of both kinds of change; hc_validate_match_result_change asks *)
(* for the same lineage and, with it, for the batch of the original.        *)
MutantAnyEventOfTheRound(t, c) ==
    t.result[c.round] # Nothing /\ t.result[c.round].initial = c.original
ExtendsCurrent(t, c) ==
    /\ t.result[c.round] # Nothing
    /\ t.result[c.round].initial = c.original
    /\ t.result[c.round].current = c.supersedes
TriggerAccepts(c) == Content[c.original].batch = c.originalBatch

(* The transaction of a change, its created_at, is told by where it ends.   *)
Changed(t, e, kind, revision) ==
    LET c == Content[e] IN
    IF ~TriggerAccepts(c) THEN {}
    ELSE {[t EXCEPT !.change = @ \cup {[event |-> e, round |-> c.round,
                                        supersedes |-> c.supersedes, type |-> kind,
                                        at |-> reached]},
                    !.result[c.round] = [@ EXCEPT !.current = e, !.state = kind,
                                                  !.revision = revision]]}

(* The lookup of a correction binds $4 and $11 and mentions neither, which  *)
(* PostgreSQL refuses unless the client declares the types of parameters;   *)
(* node-postgres, the client of main.ts, does not.                          *)
LookupPrepares == limit.typed

MaterializeMatchCorrection(t, e) ==
    LET c == Content[e] IN
    CASE ~LookupPrepares -> {}
      [] LookupPrepares /\ ~(ExtendsCurrent(t, c) /\ c.revision \in known) -> {t}
      [] LookupPrepares /\ ExtendsCurrent(t, c) /\ c.revision \in known ->
           IF FitsColumns(e) THEN Changed(t, e, "corrected", c.revision) ELSE {}

MaterializeMatchInvalidation(t, e) ==
    LET c == Content[e] IN
    IF ExtendsCurrent(t, c)
    THEN Changed(t, e, "invalidated", t.result[c.round].revision) ELSE {t}

(* Unique payment_transaction_id, which ON CONFLICT (id) does not cover.    *)
PaymentTaken(t, p) ==
    p # Nothing /\ \E c \in Collectible : t.instance[c] # Nothing /\ t.instance[c].payment = p

Issued(t, i) ==
    LET e == chain[i].event  c == Content[e] IN
    IF t.instance[c.collectible] # Nothing THEN {[t EXCEPT !.event[e] = i]}
    ELSE IF PaymentTaken(t, c.payment) THEN {}
    ELSE {[t EXCEPT !.event[e] = i,
                    !.instance[c.collectible] = [issued |-> e, revoked |-> Nothing,
                                                 state |-> "finalized", payment |-> c.payment]]}

(* The event needs its definition, owner and payment; ON CONFLICT (event_id)*)
(* DO NOTHING.                                                              *)
MutantEventIdRaises(t, i) ==
    LET e == chain[i].event IN
    IF ~FitsColumns(e) THEN {}
    ELSE IF ~(Content[e].needs \subseteq known) THEN {t}
    ELSE IF t.event[e] # Nothing THEN {} ELSE Issued(t, i)
MaterializeCollectibleIssue(t, i) ==
    LET e == chain[i].event IN
    IF ~FitsColumns(e) THEN {}
    ELSE IF Content[e].needs \subseteq known /\ t.event[e] = Nothing THEN Issued(t, i) ELSE {t}

(* The revocation names the issuance event of a finalized instance.         *)
MutantByCollectible(t, c) ==
    t.instance[c.collectible] # Nothing /\ t.instance[c.collectible].state = "finalized"
RevokesIssuance(t, c) ==
    /\ t.instance[c.collectible] # Nothing
    /\ t.instance[c.collectible].state = "finalized"
    /\ t.instance[c.collectible].issued = c.issued

MaterializeCollectibleRevocation(t, i) ==
    LET e == chain[i].event  c == Content[e] IN
    IF ~FitsColumns(e) THEN {}
    ELSE IF RevokesIssuance(t, c) /\ t.event[e] = Nothing
    THEN {[t EXCEPT !.event[e] = i,
                    !.instance[c.collectible] = [@ EXCEPT !.state = "revoked", !.revoked = e]]}
    ELSE {t}

MaterializeOperation(t, i) ==
    LET e == chain[i].event  type == Content[e].type IN
    CASE ~Accepted(i)                          -> {t}
      [] Accepted(i) /\ type = "issued"        -> MaterializeCollectibleIssue(t, i)
      [] Accepted(i) /\ type = "revoked"       -> MaterializeCollectibleRevocation(t, i)
      [] Accepted(i) /\ type = "batch"         ->
           IF Bound(i) THEN MaterializeInitialMatchResults(t, e) ELSE {t}
      [] Accepted(i) /\ type = "corrected"     ->
           IF Bound(i) THEN MaterializeMatchCorrection(t, e) ELSE {t}
      [] Accepted(i) /\ type = "invalidated"   ->
           IF Bound(i) THEN MaterializeMatchInvalidation(t, e) ELSE {t}

(* The operations that become irreversible in one transaction, in order.    *)
MutantWholeChain(n) ==
    LET after[i \in final..Len(chain)] ==
          IF i = final THEN {tables}
          ELSE UNION {MaterializeOperation(t, i) : t \in after[i - 1]}
    IN  after[Len(chain)]
MaterializeIrreversibleEvents(n) ==
    LET after[i \in final..n] ==
          IF i = final THEN {tables}
          ELSE UNION {MaterializeOperation(t, i) : t \in after[i - 1]}
    IN  after[n]

(* hc_check_match_result_change_head, deferred to the COMMIT: every change  *)
(* the transaction inserted is still the current one of its result.         *)
ChangesAreHeads(t) ==
    \A c \in t.change \ tables.change :
       t.result[c.round].current = c.event /\ t.result[c.round].state = c.type

(* A cycle finalizes all it has reached, so one that failed is tried again  *)
(* with at least as much.                                                   *)
FinalizeThrough ==
    /\ final < reached
    /\ final' = reached
    /\ UNCHANGED <<signingVars, known, reached>>
    /\ \E t \in MaterializeIrreversibleEvents(reached) : ChangesAreHeads(t) /\ tables' = t

-----------------------------------------------------------------------------
(* The surroundings: other accounts publish, the services of the game write *)
(* the rows that events refer to.                                           *)

PublishedElsewhere(op) ==
    /\ Len(chain) < limit.operations
    /\ \A i \in DOMAIN chain : chain[i].tx # op.tx
    /\ chain' = Append(chain, [event |-> op.event, signer |-> op.signer, form |-> op.form,
                               at |-> clock, tx |-> op.tx])
    /\ UNCHANGED <<limit, clock, attemptVars, signerVars, submitted, faults, ledgerVars>>

RowWritten(row) ==
    /\ known' = known \cup {row}
    /\ UNCHANGED <<signingVars, reached, final, tables>>

(* Min(LIB, cursor) never falls: a block it has passed is not reverted.     *)
Reach(n) ==
    /\ n \in (reached + 1)..Len(chain)
    /\ reached' = n
    /\ UNCHANGED <<signingVars, known, final, tables>>

Next ==
    \/ SigningNext /\ UNCHANGED ledgerVars
    \/ \E op \in limit.others : PublishedElsewhere(op)
    \/ \E row \in limit.rows \ known : RowWritten(row)
    \/ \E n \in DOMAIN chain : Reach(n)
    \/ FinalizeThrough

Spec == Init /\ [][Next]_allVars

(* The worker of the projector runs for ever, and the LIB and the cursor    *)
(* follow the head.                                                         *)
FairSpec == Spec /\ WF_allVars(\E n \in DOMAIN chain : Reach(n)) /\ WF_allVars(FinalizeThrough)

-----------------------------------------------------------------------------
(* Properties.                                                              *)

(* The tables and the attempts have the shape of their types.               *)
TypeOK ==
    /\ clock \in 0..limit.clock /\ final \in 0..reached /\ reached \in 0..Len(chain)
    /\ \A k \in Key : journal[k] = Nothing \/
         journal[k].state \in {"awaiting_signature", "broadcast", "failed"}
    /\ \A w \in Worker : (pc[w] = "idle") <=> (job[w] = NoJob)
    /\ \A h \in Handler : handler[h] # Nothing =>
         reservation[handler[h].req.key].binding = Binding(handler[h].req)
    /\ \A r \in Round : tables.result[r] = Nothing \/
         tables.result[r].state \in {"current", "corrected", "invalidated"}
    /\ \A e \in Event : tables.event[e] = Nothing \/ tables.event[e] \in 1..final

FirstAt(e) == CHOOSE i \in DOMAIN chain : chain[i].event = e /\ Accepted(i) /\ Bound(i)

(* The changes of a projected result form one chain from its initial event  *)
(* to its current one, so that hc_validate_match_result never raises, and   *)
(* each is later on Hive than what it supersedes, whatever order changes    *)
(* arrive in and wherever the transactions that did commit were cut; no two *)
(* were committed by one transaction; the current state is the last one's.  *)
CurrentIsChainHead ==
    \A r \in {x \in Round : tables.result[x] # Nothing} :
      LET result == tables.result[r]
          changes == {c \in tables.change : c.round = r}
          events == {result.initial} \cup {c.event : c \in changes} IN
      /\ Cardinality(events) = Cardinality(changes) + 1
      /\ \A c \in changes : c.supersedes \in events /\ FirstAt(c.supersedes) < FirstAt(c.event)
      /\ \A c, d \in changes : c.supersedes = d.supersedes \/ c.at = d.at => c = d
      /\ {e \in events : \A c \in changes : c.supersedes # e} = {result.current}
      /\ result.state = IF changes = {} THEN "current"
                        ELSE (CHOOSE c \in changes : c.event = result.current).type

Published(e, i) == chain[i].event = e /\ Accepted(i) /\ i <= final

(* Ownership follows the irreversible chain: an instance was issued by an   *)
(* event an allowed issuer published for that very collectible, however     *)
(* many attempts of it were included; it is revoked only by an event that   *)
(* names that issuance and is irreversible after it; and no payment buys    *)
(* two collectibles.                                                        *)
CollectiblesFollowTheChain ==
    /\ \A c \in {x \in Collectible : tables.instance[x] # Nothing} :
         LET it == tables.instance[c] IN
         /\ Content[it.issued].collectible = c
         /\ Published(it.issued, tables.event[it.issued])
         /\ chain[tables.event[it.issued]].signer \in CollectibleIssuers
         /\ (it.state = "revoked") <=> (it.revoked # Nothing)
         /\ it.revoked # Nothing =>
              /\ Content[it.revoked].issued = it.issued
              /\ Published(it.revoked, tables.event[it.revoked])
              /\ tables.event[it.issued] < tables.event[it.revoked]
    /\ \A c, d \in {x \in Collectible : tables.instance[x] # Nothing} :
         c # d => /\ tables.instance[c].issued # tables.instance[d].issued
                  /\ tables.instance[c].payment = tables.instance[d].payment =>
                       tables.instance[c].payment = Nothing

(* What the projector may never get past, all of it accepted: a value no    *)
(* column takes; a correction, when its lookup is not prepared; a change    *)
(* that names the batch of another event; two successive changes of one     *)
(* result, if one cycle reaches both; an issuance against the payment of    *)
(* another collectible.                                                     *)
IsChange(c) == c.type \in {"corrected", "invalidated"}
Succeeds(j, i) ==
    LET c == Content[chain[i].event]  d == Content[chain[j].event] IN
    IsChange(c) /\ IsChange(d) /\ d.round = c.round /\ d.supersedes = chain[i].event
SharesPayment(j, i) ==
    LET c == Content[chain[i].event]  d == Content[chain[j].event] IN
    /\ c.type = "issued" /\ d.type = "issued"
    /\ c.payment # Nothing /\ d.payment = c.payment /\ d.collectible # c.collectible
Poisoned ==
    \E i \in (final + 1)..Len(chain) :
      LET c == Content[chain[i].event] IN
      /\ Accepted(i)
      /\ \/ ~FitsColumns(chain[i].event)
         \/ c.type = "corrected" /\ ~LookupPrepares
         \/ IsChange(c) /\ ~TriggerAccepts(c)
         \/ \E j \in (i + 1)..Len(chain) : Accepted(j) /\ Succeeds(j, i)
         \/ \E j \in 1..(i - 1) : Accepted(j) /\ SharesPayment(j, i)

(* Whatever is included, however often, and whichever rows are missing:     *)
(* everything on the chain becomes final in the projection, unless what is  *)
(* pending is poisoned in one of those five ways.                           *)
LedgerCatchesUp == []<>(final = Len(chain) \/ Poisoned)
=============================================================================

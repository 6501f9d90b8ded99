--------------------------- MODULE OfficialSigner ---------------------------
(* How an official collectible event reaches the Hive chain: the attempt of *)
(* the collectible issuer (workers/collectible-issuer), the gateway that    *)
(* prepares and broadcasts its transaction and the isolated signer boundary *)
(* that signs it (packages/hive-gateway).                                   *)
(*                                                                          *)
(* An attempt awaits the journal, the signer and the node in turn, and may  *)
(* be lost at each of them.  The signer is another process: it goes on when *)
(* its client has given up.  Its idempotency ledger and signature provider  *)
(* are external, modelled by their contracts.  A transaction stands for its *)
(* identifier and digest: the operation and the head block it was built on. *)
EXTENDS Integers, Sequences, FiniteSets, SequencesExt

CONSTANTS
    Worker,             \* concurrent attempts of issuer processes
    Handler,            \* requests the signer handles at a time
    Event, Content,     \* protocol events by identifier, and what they say
    AuthorizationOf,    \* the authorization each issuer process is configured with
    Approved,           \* the authorizations of the signer's own policy
    Lifetime,           \* expirationSeconds
    Nothing,
    Scenarios           \* the bounds to explore, one set of them at a time

ASSUME SignerAssumption ==
    /\ Lifetime \in Nat
    /\ \A a, b \in Approved : <<a.version, a.role>> = <<b.version, b.role>> => a = b
    /\ \A w \in Worker : AuthorizationOf[w].role = "collectible_issuer"
    /\ \A s \in Scenarios : {s.attempts, s.clock} \subseteq Nat /\ s.commands \subseteq Event

(* What the journal, the wire, the signer and its ledger hold.              *)
Authorization == {AuthorizationOf[w] : w \in Worker}
Transaction == [event: Event, account: {a.account : a \in Authorization}, at: Nat]
TransactionIntent == [tx: Transaction, state: {"awaiting_signature", "broadcast", "failed"}]
SignerRequest == [key: Event \X Nat, tx: Transaction, auth: Authorization]
Acquisition == [binding: [tx: Transaction, auth: Authorization], state: {"active", "completed"}]
Handling == [req: SignerRequest, at: {"sign", "complete"}]

ASSUME NothingAssumption ==
    Nothing \notin TransactionIntent /\ Nothing \notin Acquisition /\ Nothing \notin Handling

VARIABLES
    limit,         \* the scenario: bounds of the model, not state of the program
    clock,         \* time of the head block
    journal,       \* hive_projection.transaction_intent by idempotency key
    pc, job,       \* the attempt of each issuer
    wire,          \* requests on their way to the signer
    handler,       \* requests the signer is working on
    reservation,   \* the signer's idempotency ledger
    signatures,    \* what the provider has signed: key and transaction
    submitted,     \* transactions a Hive node has taken
    chain,         \* operations on the chain, in order
    faults

attemptVars == <<journal, pc, job>>
signerVars == <<wire, handler, reservation, signatures>>
signingVars == <<limit, clock, attemptVars, signerVars, submitted, chain, faults>>

Key == Event \X (1..limit.attempts)
KeyOf(w) == <<job[w].event, job[w].attempt>>
NoJob == [event |-> Nothing, attempt |-> 0, tx |-> Nothing]

SigningInit ==
    /\ limit \in Scenarios
    /\ clock = 0
    /\ journal = [k \in Key |-> Nothing]
    /\ pc = [w \in Worker |-> "idle"] /\ job = [w \in Worker |-> NoJob]
    /\ wire = {}
    /\ handler = [h \in Handler |-> Nothing]
    /\ reservation = [k \in Key |-> Nothing]
    /\ signatures = <<>>
    /\ submitted = {} /\ chain = <<>>
    /\ faults = 0

Goes(w, next) == pc' = [pc EXCEPT ![w] = next]
Ends(w) == Goes(w, "idle") /\ job' = [job EXCEPT ![w] = NoJob]
FaultCounted == faults < limit.faults /\ faults' = faults + 1

-----------------------------------------------------------------------------
(* Policy, applied by the gateway and again by the signer.                  *)

IsCollectible(e) == Content[e].type \in {"issued", "revoked"}
RoleFor(e) == IF IsCollectible(e) THEN "collectible_issuer" ELSE "match_publisher"

(* The account an event names as its author is the one that signs it.       *)
PayloadAccountMatches(e, account) ==
    CASE Content[e].type = "issued"  -> Content[e].issuer = account
      [] Content[e].type = "revoked" -> TRUE
      [] OTHER                       -> Content[e].publisher = account

(* authorizeOfficialEvent: the operation it builds, if it builds one.       *)
MayPublish(e, a) == a.role = RoleFor(e) /\ PayloadAccountMatches(e, a.account)
Operation(e, a) == [event |-> e, account |-> a.account]

(* prepareCustomJson: a transaction is its operation and its header.        *)
PreparedTransaction(e, a) ==
    [event |-> e, account |-> a.account, at |-> clock]

Expired(tx) == clock > tx.at + Lifetime

-----------------------------------------------------------------------------
(* The attempt of the issuer: publish.                                      *)

PrepareOfficialEvent(w, e, n) ==
    /\ w \in limit.workers /\ pc[w] = "idle"
    /\ MayPublish(e, AuthorizationOf[w])
    /\ job' = [job EXCEPT ![w] = [event |-> e, attempt |-> n,
                                  tx |-> PreparedTransaction(e, AuthorizationOf[w])]]
    /\ Goes(w, "record")
    /\ UNCHANGED <<limit, clock, journal, signerVars, submitted, chain, faults>>

(* idempotency_key is unique in transaction_intent; the insert stands       *)
(* outside the try block, so its failure leaves no mark.                    *)
MutantKeyNotUnique(k) == TRUE
JournalAdmits(k) == journal[k] = Nothing

RecordPrepared(w) ==
    /\ pc[w] = "record"
    /\ IF JournalAdmits(KeyOf(w))
       THEN /\ journal' = [journal EXCEPT ![KeyOf(w)] =
                             [tx |-> job[w].tx, state |-> "awaiting_signature"]]
            /\ Goes(w, "send") /\ UNCHANGED job
       ELSE Ends(w) /\ UNCHANGED journal
    /\ UNCHANGED <<limit, clock, signerVars, submitted, chain, faults>>

(* broadcastOfficialEvent posts the request to the signer.                  *)
RequestOf(w) == [key |-> KeyOf(w), tx |-> job[w].tx, auth |-> AuthorizationOf[w]]

SendSignerRequest(w) ==
    /\ pc[w] = "send"
    /\ wire' = wire \cup {RequestOf(w)}
    /\ Goes(w, "await")
    /\ UNCHANGED <<limit, clock, journal, job, handler, reservation, signatures, submitted,
                   chain, faults>>

(* AbortSignal.timeout, a broken connection, an unreadable answer.          *)
SignerUnavailable(w) ==
    /\ pc[w] = "await" /\ FaultCounted
    /\ Goes(w, "failed")
    /\ UNCHANGED <<limit, clock, journal, job, signerVars, submitted, chain>>

(* The node refuses a transaction that has expired or that it already has.  *)
NodeTakes(tx) == ~Expired(tx) /\ tx \notin submitted

BroadcastTransaction(w) ==
    /\ pc[w] = "signed"
    /\ IF NodeTakes(job[w].tx)
       THEN Goes(w, "broadcast") /\ submitted' = submitted \cup {job[w].tx}
       ELSE Goes(w, "failed") /\ UNCHANGED submitted
    /\ UNCHANGED <<limit, clock, journal, job, signerVars, chain, faults>>

(* The call fails, whether the node has taken the transaction or not.       *)
BroadcastFails(w) ==
    /\ pc[w] = "signed" /\ FaultCounted
    /\ Goes(w, "failed")
    /\ submitted' \in {submitted} \cup
         (IF NodeTakes(job[w].tx) THEN {submitted \cup {job[w].tx}} ELSE {})
    /\ UNCHANGED <<limit, clock, journal, job, signerVars, chain>>

MarkBroadcast(w) ==
    /\ pc[w] = "broadcast"
    /\ journal' = [journal EXCEPT ![KeyOf(w)].state = "broadcast"]
    /\ Ends(w)
    /\ UNCHANGED <<limit, clock, signerVars, submitted, chain, faults>>

(* markBroadcast stands inside the try block: its failure marks the attempt *)
(* failed although the transaction is out.                                  *)
MarkBroadcastFails(w) ==
    /\ pc[w] = "broadcast" /\ FaultCounted
    /\ Goes(w, "failed")
    /\ UNCHANGED <<limit, clock, journal, job, signerVars, submitted, chain>>

MarkFailed(w) ==
    /\ pc[w] = "failed"
    /\ journal' = [journal EXCEPT ![KeyOf(w)].state = "failed"]
    /\ Ends(w)
    /\ UNCHANGED <<limit, clock, signerVars, submitted, chain, faults>>

(* The process is lost, or a journal call outside the try block fails.      *)
AttemptLost(w) ==
    /\ pc[w] # "idle" /\ FaultCounted
    /\ Ends(w)
    /\ UNCHANGED <<limit, clock, journal, signerVars, submitted, chain>>

Publish(w) ==
    \/ \E e \in limit.commands, n \in 1..limit.attempts : PrepareOfficialEvent(w, e, n)
    \/ RecordPrepared(w) \/ SendSignerRequest(w) \/ SignerUnavailable(w)
    \/ BroadcastTransaction(w) \/ BroadcastFails(w)
    \/ MarkBroadcast(w) \/ MarkBroadcastFails(w) \/ MarkFailed(w) \/ AttemptLost(w)

-----------------------------------------------------------------------------
(* The signer boundary: sign.                                               *)

Trusted(a) == a \in Approved
Inspected(tx) == [event |-> tx.event, account |-> tx.account]

(* What sign checks before it touches the ledger: an approved authorization *)
(* that reconstructs the very operation of the transaction.                 *)
PolicyAllows(req) ==
    /\ Trusted(req.auth)
    /\ MayPublish(req.tx.event, req.auth)
    /\ Operation(req.tx.event, req.auth) = Inspected(req.tx)

(* The answer reaches the attempt if it still waits for it.                 *)
Answer(req, next) ==
    pc' = [w \in Worker |-> IF pc[w] = "await" /\ RequestOf(w) = req THEN next ELSE pc[w]]

Binding(req) == [tx |-> req.tx, auth |-> req.auth]

(* acquire: a new reservation, a conflict, or the replay of a response.  An *)
(* identical request waits as long as its reservation is unresolved.        *)
Takes(req, repeats) == wire' = IF repeats THEN wire ELSE wire \ {req}

Sign(h, req, repeats) ==
    /\ handler[h] = Nothing
    /\ IF repeats THEN FaultCounted ELSE UNCHANGED faults
    /\ Takes(req, repeats)
    /\ LET held == reservation[req.key] IN
       \/ /\ ~PolicyAllows(req)
          /\ Answer(req, "failed") /\ UNCHANGED <<handler, reservation>>
       \/ /\ PolicyAllows(req) /\ held = Nothing
          /\ reservation' = [reservation EXCEPT ![req.key] =
                               [binding |-> Binding(req), state |-> "active"]]
          /\ handler' = [handler EXCEPT ![h] = [req |-> req, at |-> "sign"]]
          /\ UNCHANGED pc
       \/ /\ PolicyAllows(req) /\ held # Nothing
          /\ held.binding # Binding(req)
          /\ Answer(req, "failed") /\ UNCHANGED <<handler, reservation>>
       \/ /\ PolicyAllows(req) /\ held = [binding |-> Binding(req), state |-> "completed"]
          /\ Answer(req, "signed") /\ UNCHANGED <<handler, reservation>>
    /\ UNCHANGED <<limit, clock, journal, job, signatures, submitted, chain>>

SignDigest(h) ==
    /\ handler[h] # Nothing /\ handler[h].at = "sign"
    /\ signatures' = Append(signatures, [key |-> handler[h].req.key, tx |-> handler[h].req.tx])
    /\ handler' = [handler EXCEPT ![h].at = "complete"]
    /\ UNCHANGED <<limit, clock, attemptVars, wire, reservation, submitted, chain, faults>>

(* The provider fails, whether it has signed or not, or signs with a key    *)
(* that is not the expected one.  The reservation stays.                    *)
MutantAborts(key) == [reservation EXCEPT ![key] = Nothing]
AfterProviderFailure(key) == reservation

SignDigestFails(h) ==
    /\ handler[h] # Nothing /\ handler[h].at = "sign" /\ FaultCounted
    /\ signatures' \in {signatures, Append(signatures, [key |-> handler[h].req.key,
                                                        tx |-> handler[h].req.tx])}
    /\ reservation' = AfterProviderFailure(handler[h].req.key)
    /\ Answer(handler[h].req, "failed")
    /\ handler' = [handler EXCEPT ![h] = Nothing]
    /\ UNCHANGED <<limit, clock, journal, job, wire, submitted, chain>>

Completed(key) == [reservation EXCEPT ![key].state = "completed"]

CompleteReservation(h) ==
    /\ handler[h] # Nothing /\ handler[h].at = "complete"
    /\ reservation' = Completed(handler[h].req.key)
    /\ Answer(handler[h].req, "signed")
    /\ handler' = [handler EXCEPT ![h] = Nothing]
    /\ UNCHANGED <<limit, clock, journal, job, wire, signatures, submitted, chain, faults>>

(* complete fails, whether the ledger has committed it or not.              *)
CompleteFails(h) ==
    /\ handler[h] # Nothing /\ handler[h].at = "complete" /\ FaultCounted
    /\ reservation' \in {reservation, Completed(handler[h].req.key)}
    /\ Answer(handler[h].req, "failed")
    /\ handler' = [handler EXCEPT ![h] = Nothing]
    /\ UNCHANGED <<limit, clock, journal, job, wire, signatures, submitted, chain>>

SignerLost(h) ==
    /\ handler[h] # Nothing /\ FaultCounted
    /\ handler' = [handler EXCEPT ![h] = Nothing]
    /\ UNCHANGED <<limit, clock, attemptVars, wire, reservation, signatures, submitted, chain>>

SignerStep(h) ==
    \/ \E req \in wire, repeats \in BOOLEAN : Sign(h, req, repeats)
    \/ SignDigest(h) \/ SignDigestFails(h) \/ CompleteReservation(h) \/ CompleteFails(h)
    \/ SignerLost(h)

-----------------------------------------------------------------------------
(* The chain: a transaction is included once, before it expires.            *)

Tick ==
    /\ clock < limit.clock
    /\ clock' = clock + 1
    /\ UNCHANGED <<limit, attemptVars, signerVars, submitted, chain, faults>>

Include(tx) ==
    /\ ~Expired(tx)
    /\ \A i \in DOMAIN chain : chain[i].tx # tx
    /\ chain' = Append(chain, [event |-> tx.event, signer |-> tx.account, form |-> "posting",
                               at |-> clock, tx |-> tx])
    /\ UNCHANGED <<limit, clock, attemptVars, signerVars, submitted, faults>>

SigningNext ==
    \/ \E w \in Worker : Publish(w)
    \/ \E h \in Handler : SignerStep(h)
    \/ Tick
    \/ \E tx \in submitted : Include(tx)

-----------------------------------------------------------------------------
(* Properties.                                                              *)

(* The provider signs at most once for an idempotency key, whatever request *)
(* is repeated or retried and whichever call of sign fails half-way.        *)
OneSignaturePerKey ==
    \A i, j \in DOMAIN signatures : signatures[i].key = signatures[j].key => i = j

(* Everything that was signed stands in the journal under its key with its  *)
(* transaction, so that a crash leaves no unknown transaction abroad; what  *)
(* a node holds was signed under an approved authorization; and a row says  *)
(* broadcast only if a node has its transaction.                            *)
EverySignatureIsJournaled ==
    /\ \A s \in Range(signatures) : journal[s.key] # Nothing /\ journal[s.key].tx = s.tx
    /\ \A tx \in submitted :
         /\ \E s \in Range(signatures) : s.tx = tx
         /\ \E a \in Approved : a.account = tx.account /\ MayPublish(tx.event, a)
    /\ \A k \in Key : journal[k] # Nothing /\ journal[k].state = "broadcast" =>
         journal[k].tx \in submitted
=============================================================================

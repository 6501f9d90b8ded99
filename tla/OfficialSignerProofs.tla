------------------------ MODULE OfficialSignerProofs ------------------------
(* Proofs about OfficialSigner, as part of PublicLedger, for any number of  *)
(* issuer processes, signer handlers, events and attempts, any policy and   *)
(* any number of faults.                                                    *)
EXTENDS PublicLedger, SequenceTheorems, TLAPS

-----------------------------------------------------------------------------
(* The inductive invariant.                                                 *)

Stages == {"idle", "record", "send", "await", "signed", "broadcast", "failed"}
Job == [event: Event, attempt: Nat, tx: Transaction]
Signature == [key: Event \X Nat, tx: Transaction]

SigningTypes ==
    /\ limit \in Scenarios /\ clock \in Nat
    /\ journal \in [Key -> TransactionIntent \cup {Nothing}]
    /\ pc \in [Worker -> Stages] /\ job \in [Worker -> Job \cup {NoJob}]
    /\ wire \subseteq SignerRequest
    /\ handler \in [Handler -> Handling \cup {Nothing}]
    /\ reservation \in [Key -> Acquisition \cup {Nothing}]
    /\ signatures \in Seq(Signature)

(* The journal holds this transaction under this key; the provider has      *)
(* signed it under this key; the policy lets somebody publish it.           *)
Journaled(k, tx) == k \in Key /\ journal[k] # Nothing /\ journal[k].tx = tx
Signed(k, tx) == \E i \in DOMAIN signatures : signatures[i].key = k /\ signatures[i].tx = tx
Allowed(tx) == \E a \in Approved : a.account = tx.account /\ MayPublish(tx.event, a)
Vouched(tx) == Allowed(tx) /\ \E i \in DOMAIN signatures : signatures[i].tx = tx
Unsigned(k) == \A i \in DOMAIN signatures : signatures[i].key # k

(* An attempt that is past the journal has its row there.                   *)
AttemptIsJournaled(w) ==
    /\ pc[w] = "idle" => job[w] = NoJob
    /\ pc[w] # "idle" => job[w] \in Job /\ KeyOf(w) \in Key
    /\ pc[w] \notin {"idle", "record"} => Journaled(KeyOf(w), job[w].tx)
    /\ pc[w] = "signed" => Vouched(job[w].tx)
    /\ pc[w] = "broadcast" => job[w].tx \in submitted

RequestsAreJournaled == \A req \in wire : Journaled(req.key, req.tx)

(* A reservation is for what the journal has under its key, and completed   *)
(* only once that is signed.                                                *)
ReservationsAreJournaled ==
    \A k \in Key : reservation[k] # Nothing =>
      LET tx == reservation[k].binding.tx IN
      /\ Journaled(k, tx) /\ Allowed(tx)
      /\ reservation[k].state = "completed" => Signed(k, tx)

Reserved(k, tx) == k \in Key /\ reservation[k] # Nothing /\ reservation[k].binding.tx = tx

(* A key is signed under its reservation, and nobody else is at work on the *)
(* key of a handler, whose stage says whether it has been signed.           *)
HandlersHoldReservations ==
    \A h \in Handler : handler[h] # Nothing =>
      LET req == handler[h].req IN
      /\ Reserved(req.key, req.tx) /\ reservation[req.key].binding = Binding(req)
      /\ handler[h].at = "sign" => Unsigned(req.key)
      /\ handler[h].at = "complete" => Signed(req.key, req.tx)
      /\ \A g \in Handler : handler[g] # Nothing /\ handler[g].req.key = req.key => g = h

SignaturesAreReserved ==
    \A i \in DOMAIN signatures : Reserved(signatures[i].key, signatures[i].tx)

SubmittedIsVouched == \A tx \in submitted : Vouched(tx)

BroadcastIsSubmitted ==
    \A k \in Key : journal[k] # Nothing /\ journal[k].state = "broadcast" =>
      journal[k].tx \in submitted

SigningInv ==
    /\ SigningTypes /\ (\A w \in Worker : AttemptIsJournaled(w)) /\ RequestsAreJournaled
    /\ ReservationsAreJournaled /\ HandlersHoldReservations /\ SignaturesAreReserved
    /\ OneSignaturePerKey /\ SubmittedIsVouched /\ BroadcastIsSubmitted

-----------------------------------------------------------------------------
(* Facts about what only grows.                                             *)

JournalGrows ==
    \A k \in Key : journal[k] # Nothing => journal'[k] # Nothing /\ journal'[k].tx = journal[k].tx
SignaturesGrow ==
    \A i \in DOMAIN signatures : i \in DOMAIN signatures' /\ signatures'[i] = signatures[i]

(* What is journaled, signed or vouched for stays so.                       *)
LEMMA Growing ==
    ASSUME UNCHANGED limit
    PROVE  /\ Key' = Key
           /\ JournalGrows => \A k, tx : Journaled(k, tx) => Journaled(k, tx)'
           /\ SignaturesGrow => \A k, tx : Signed(k, tx) => Signed(k, tx)'
           /\ SignaturesGrow => \A tx : Vouched(tx) => Vouched(tx)'
<1>1. Key' = Key
  BY DEF Key
<1>2. JournalGrows => \A k, tx : Journaled(k, tx) => Journaled(k, tx)'
  BY <1>1 DEF JournalGrows, Journaled
<1>3. SignaturesGrow => \A k, tx : Signed(k, tx) => Signed(k, tx)'
  BY DEF SignaturesGrow, Signed
<1>4. SignaturesGrow => \A tx : Vouched(tx) => Vouched(tx)'
  BY DEF SignaturesGrow, Vouched, Allowed
<1> QED BY <1>1, <1>2, <1>3, <1>4

(* The account and the event of a transaction the policy of the signer lets *)
(* through are those of an approved authorization.                          *)
LEMMA PolicyIsEnough ==
    ASSUME NEW req, PolicyAllows(req)
    PROVE  Allowed(req.tx)
<1>1. req.auth \in Approved /\ MayPublish(req.tx.event, req.auth)
  BY DEF PolicyAllows, Trusted
<1>2. req.auth.account = req.tx.account
  BY DEF PolicyAllows, Operation, Inspected
<1> QED BY <1>1, <1>2 DEF Allowed

-----------------------------------------------------------------------------
(* A step of an attempt.                                                    *)

(* What a step of one attempt has to leave for the invariant to hold after  *)
(* it.                                                                      *)
LEMMA AttemptKeeps ==
    ASSUME SigningInv, NEW w \in Worker,
           UNCHANGED <<limit, clock, handler, reservation, signatures>>,
           pc' \in [Worker -> Stages], job' \in [Worker -> Job \cup {NoJob}],
           \A v \in Worker : v # w => pc'[v] = pc[v] /\ job'[v] = job[v],
           journal' \in [Key -> TransactionIntent \cup {Nothing}], JournalGrows,
           submitted \subseteq submitted',
           AttemptIsJournaled(w)',
           wire' \subseteq SignerRequest,
           \A req \in wire' : req \in wire \/ Journaled(req.key, req.tx)',
           \A tx \in submitted' : tx \in submitted \/ Vouched(tx),
           BroadcastIsSubmitted'
    PROVE  SigningInv'
<1>1. /\ Key' = Key
      /\ \A k, tx : Journaled(k, tx) => Journaled(k, tx)'
  BY Growing
<1>2. \A k, tx : /\ Signed(k, tx)' <=> Signed(k, tx)
                 /\ Reserved(k, tx)' <=> Reserved(k, tx)
                 /\ Vouched(tx)' <=> Vouched(tx)
                 /\ Unsigned(k)' <=> Unsigned(k)
  BY <1>1 DEF Signed, Reserved, Vouched, Unsigned, Allowed
<1>3. SigningTypes'
  BY <1>1 DEF SigningInv, SigningTypes
<1>4. \A v \in Worker : AttemptIsJournaled(v)'
  <2> SUFFICES ASSUME NEW v \in Worker, v # w PROVE AttemptIsJournaled(v)'
    OBVIOUS
  <2>1. AttemptIsJournaled(v) /\ pc'[v] = pc[v] /\ job'[v] = job[v]
    BY DEF SigningInv
  <2>2. KeyOf(v)' = KeyOf(v)
    BY <2>1 DEF KeyOf
  <2> QED BY <1>1, <1>2, <2>1, <2>2 DEF AttemptIsJournaled
<1>5. RequestsAreJournaled'
  BY <1>1 DEF SigningInv, RequestsAreJournaled
<1>6. ReservationsAreJournaled'
  BY <1>1, <1>2 DEF SigningInv, ReservationsAreJournaled, Allowed
<1>7. HandlersHoldReservations'
  BY <1>2 DEF SigningInv, HandlersHoldReservations, Binding
<1>8. SignaturesAreReserved' /\ OneSignaturePerKey'
  BY <1>2 DEF SigningInv, SignaturesAreReserved, OneSignaturePerKey
<1>9. SubmittedIsVouched'
  BY <1>2 DEF SigningInv, SubmittedIsVouched
<1> QED BY <1>3, <1>4, <1>5, <1>6, <1>7, <1>8, <1>9 DEF SigningInv

(* A call of the attempt fails; nothing but its stage has changed.          *)
LEMMA FailsKeeps ==
    ASSUME SigningInv, NEW w \in Worker, pc[w] \notin {"idle", "record"}, Goes(w, "failed"),
           UNCHANGED <<limit, clock, journal, job, signerVars>>,
           submitted \subseteq submitted', \A tx \in submitted' : tx \in submitted \/ Vouched(tx)
    PROVE  SigningInv'
<1>1. /\ pc \in [Worker -> Stages] /\ job \in [Worker -> Job \cup {NoJob}]
      /\ journal \in [Key -> TransactionIntent \cup {Nothing}] /\ wire \subseteq SignerRequest
  BY DEF SigningInv, SigningTypes
<1>2. /\ pc' \in [Worker -> Stages] /\ pc'[w] = "failed"
      /\ \A v \in Worker : v # w => pc'[v] = pc[v]
  BY <1>1 DEF Goes, Stages
<1>3. Key' = Key /\ KeyOf(w)' = KeyOf(w) /\ \A k, tx : Journaled(k, tx)' <=> Journaled(k, tx)
  BY DEF Key, KeyOf, Journaled
<1>4. AttemptIsJournaled(w)
  BY DEF SigningInv
<1>5. AttemptIsJournaled(w)'
  BY <1>2, <1>3, <1>4 DEF AttemptIsJournaled
<1>6. BroadcastIsSubmitted' /\ JournalGrows
  BY <1>3 DEF SigningInv, BroadcastIsSubmitted, JournalGrows
<1> QED BY <1>1, <1>2, <1>5, <1>6, AttemptKeeps DEF signerVars

(* An attempt that is over may leave a mark in the journal.                 *)
LEMMA EndsKeeps ==
    ASSUME SigningInv, NEW w \in Worker, Ends(w),
           UNCHANGED <<limit, clock, signerVars, submitted>>,
           journal' \in [Key -> TransactionIntent \cup {Nothing}], JournalGrows,
           BroadcastIsSubmitted'
    PROVE  SigningInv'
<1>1. /\ pc \in [Worker -> Stages] /\ job \in [Worker -> Job \cup {NoJob}]
      /\ wire \subseteq SignerRequest
  BY DEF SigningInv, SigningTypes
<1>2. /\ pc' \in [Worker -> Stages] /\ pc'[w] = "idle"
      /\ \A v \in Worker : v # w => pc'[v] = pc[v]
  BY <1>1 DEF Ends, Goes, Stages
<1>3. /\ job' \in [Worker -> Job \cup {NoJob}] /\ job'[w] = NoJob
      /\ \A v \in Worker : v # w => job'[v] = job[v]
  BY <1>1 DEF Ends
<1>4. AttemptIsJournaled(w)'
  BY <1>2, <1>3 DEF AttemptIsJournaled, NoJob
<1> QED BY <1>1, <1>2, <1>3, <1>4, AttemptKeeps DEF signerVars

(* The update of a row that exists keeps its transaction.                   *)
LEMMA MarkGrows ==
    ASSUME SigningInv, NEW k \in Key, journal[k] # Nothing,
           NEW mark \in {"broadcast", "failed"},
           journal' = [journal EXCEPT ![k].state = mark], UNCHANGED <<limit, submitted>>,
           mark = "broadcast" => journal[k].tx \in submitted
    PROVE  /\ journal' \in [Key -> TransactionIntent \cup {Nothing}] /\ JournalGrows
           /\ BroadcastIsSubmitted'
<1> DEFINE row == [journal[k] EXCEPT !.state = mark]
<1>1. journal \in [Key -> TransactionIntent \cup {Nothing}] /\ Key' = Key
  BY DEF SigningInv, SigningTypes, Key
<1>2. journal[k] \in TransactionIntent
  BY <1>1
<1>3. row \in TransactionIntent /\ row.tx = journal[k].tx /\ row.state = mark
  BY <1>2 DEF TransactionIntent
<1>4. journal' = [journal EXCEPT ![k] = row]
  OBVIOUS
<1> HIDE DEF row
<1>5. journal' \in [Key -> TransactionIntent \cup {Nothing}]
  BY <1>1, <1>3, <1>4
<1>6. journal'[k] = row /\ \A x \in Key : x # k => journal'[x] = journal[x]
  BY <1>1, <1>4
<1>7. row # Nothing
  BY <1>3, NothingAssumption
<1>8. JournalGrows
  BY <1>3, <1>6, <1>7 DEF JournalGrows
<1>9. BroadcastIsSubmitted'
  BY <1>1, <1>3, <1>6 DEF SigningInv, BroadcastIsSubmitted
<1> QED BY <1>5, <1>8, <1>9

(* A transaction is prepared.                                               *)
LEMMA PrepareKeeps ==
    ASSUME SigningInv, NEW w \in Worker, NEW e \in limit.commands, NEW n \in 1..limit.attempts,
           PrepareOfficialEvent(w, e, n)
    PROVE  SigningInv'
<1> DEFINE tx == PreparedTransaction(e, AuthorizationOf[w])
           j == [event |-> e, attempt |-> n, tx |-> tx]
<1>1. /\ pc \in [Worker -> Stages] /\ job \in [Worker -> Job \cup {NoJob}]
      /\ wire \subseteq SignerRequest /\ clock \in Nat
      /\ journal \in [Key -> TransactionIntent \cup {Nothing}] /\ limit \in Scenarios
  BY DEF SigningInv, SigningTypes
<1>2. limit.attempts \in Nat /\ limit.commands \subseteq Event
  BY <1>1, SignerAssumption
<1>3. e \in Event /\ n \in Nat /\ <<e, n>> \in Key
  BY <1>2 DEF Key
<1>4. tx \in Transaction
  BY <1>1, <1>3 DEF PreparedTransaction, Transaction, Authorization
<1> HIDE DEF tx
<1>5. j \in Job /\ j.event = e /\ j.attempt = n
  BY <1>3, <1>4 DEF Job
<1> HIDE DEF j
<1>6. /\ job' \in [Worker -> Job \cup {NoJob}] /\ job'[w] = j
      /\ \A v \in Worker : v # w => job'[v] = job[v]
  <2>1. job' = [job EXCEPT ![w] = j]
    BY DEF PrepareOfficialEvent, j, tx
  <2> QED BY <1>1, <1>5, <2>1
<1>7. /\ pc' \in [Worker -> Stages] /\ pc'[w] = "record"
      /\ \A v \in Worker : v # w => pc'[v] = pc[v]
  BY <1>1 DEF PrepareOfficialEvent, Goes, Stages
<1>8. UNCHANGED <<limit, clock, journal, signerVars, submitted>>
  BY DEF PrepareOfficialEvent
<1>9. Key' = Key /\ KeyOf(w)' = <<e, n>>
  BY <1>5, <1>6, <1>8 DEF Key, KeyOf
<1>10. AttemptIsJournaled(w)'
  BY <1>3, <1>5, <1>6, <1>7, <1>9 DEF AttemptIsJournaled
<1>11. BroadcastIsSubmitted' /\ JournalGrows
  BY <1>8, <1>9 DEF SigningInv, BroadcastIsSubmitted, JournalGrows
<1> QED BY <1>1, <1>6, <1>7, <1>8, <1>10, <1>11, AttemptKeeps DEF signerVars

(* The prepared transaction is journaled, or its key is taken.              *)
LEMMA RecordKeeps ==
    ASSUME SigningInv, NEW w \in Worker, RecordPrepared(w)
    PROVE  SigningInv'
<1> DEFINE k == KeyOf(w)
           row == [tx |-> job[w].tx, state |-> "awaiting_signature"]
<1>1. /\ pc \in [Worker -> Stages] /\ job \in [Worker -> Job \cup {NoJob}]
      /\ journal \in [Key -> TransactionIntent \cup {Nothing}] /\ wire \subseteq SignerRequest
  BY DEF SigningInv, SigningTypes
<1>2. UNCHANGED <<limit, clock, signerVars, submitted>> /\ Key' = Key
  BY DEF RecordPrepared, Key
<1>3. job[w] \in Job /\ k \in Key
  BY DEF SigningInv, AttemptIsJournaled, RecordPrepared
<1>4. CASE JournalAdmits(k)
  <2>1. row \in TransactionIntent /\ row.tx = job[w].tx /\ row.state = "awaiting_signature"
    BY <1>3 DEF TransactionIntent, Job
  <2>2. journal' = [journal EXCEPT ![k] = row] /\ Goes(w, "send") /\ job' = job
    BY <1>4 DEF RecordPrepared
  <2> HIDE DEF row
  <2>3. journal' \in [Key -> TransactionIntent \cup {Nothing}]
    BY <1>1, <1>3, <2>1, <2>2
  <2>4. journal'[k] = row /\ \A x \in Key : x # k => journal'[x] = journal[x]
    BY <1>1, <1>3, <2>2
  <2>5. JournalGrows
    BY <1>4, <2>4 DEF JournalGrows, JournalAdmits
  <2>6. row # Nothing
    BY <2>1, NothingAssumption
  <2>7. BroadcastIsSubmitted'
    BY <1>2, <2>1, <2>4 DEF SigningInv, BroadcastIsSubmitted
  <2>8. /\ pc' \in [Worker -> Stages] /\ pc'[w] = "send"
        /\ \A v \in Worker : v # w => pc'[v] = pc[v]
    BY <1>1, <2>2 DEF Goes, Stages
  <2>9. KeyOf(w)' = k
    BY <2>2 DEF KeyOf
  <2>10. AttemptIsJournaled(w)'
    BY <1>2, <1>3, <2>1, <2>2, <2>4, <2>6, <2>8, <2>9 DEF AttemptIsJournaled, Journaled
  <2> HIDE DEF k
  <2> QED BY <1>1, <1>2, <2>2, <2>3, <2>5, <2>7, <2>8, <2>10, AttemptKeeps DEF signerVars
<1>5. CASE ~JournalAdmits(k)
  <2>1. Ends(w) /\ journal' = journal
    BY <1>5 DEF RecordPrepared
  <2>2. BroadcastIsSubmitted' /\ JournalGrows
    BY <1>2, <2>1 DEF SigningInv, BroadcastIsSubmitted, JournalGrows
  <2> QED BY <1>1, <1>2, <2>1, <2>2, EndsKeeps
<1> QED BY <1>4, <1>5

(* The request goes to the signer.                                          *)
LEMMA SendKeeps ==
    ASSUME SigningInv, NEW w \in Worker, SendSignerRequest(w)
    PROVE  SigningInv'
<1>1. /\ pc \in [Worker -> Stages] /\ job \in [Worker -> Job \cup {NoJob}]
      /\ journal \in [Key -> TransactionIntent \cup {Nothing}] /\ wire \subseteq SignerRequest
      /\ limit \in Scenarios
  BY DEF SigningInv, SigningTypes
<1>2. /\ UNCHANGED <<limit, clock, journal, job, handler, reservation, signatures, submitted>>
      /\ wire' = wire \cup {RequestOf(w)} /\ Key' = Key
  BY DEF SendSignerRequest, Key
<1>3. /\ pc' \in [Worker -> Stages] /\ pc'[w] = "await" /\ pc[w] = "send"
      /\ \A v \in Worker : v # w => pc'[v] = pc[v]
  BY <1>1 DEF SendSignerRequest, Goes, Stages
<1>4. job[w] \in Job /\ KeyOf(w) \in Key /\ Journaled(KeyOf(w), job[w].tx)
  BY <1>3 DEF SigningInv, AttemptIsJournaled
<1>5. KeyOf(w) \in Event \X Nat /\ job[w].tx \in Transaction /\ AuthorizationOf[w] \in Authorization
  BY <1>4 DEF KeyOf, Job, Authorization
<1>6. RequestOf(w) \in SignerRequest /\ RequestOf(w).key = KeyOf(w) /\ RequestOf(w).tx = job[w].tx
  BY <1>5 DEF RequestOf, SignerRequest
<1>7. KeyOf(w)' = KeyOf(w) /\ \A k, tx : Journaled(k, tx)' <=> Journaled(k, tx)
  BY <1>2 DEF KeyOf, Journaled
<1>8. wire' \subseteq SignerRequest
      /\ \A req \in wire' : req \in wire \/ Journaled(req.key, req.tx)'
  BY <1>1, <1>2, <1>4, <1>6, <1>7
<1>9. AttemptIsJournaled(w)'
  BY <1>2, <1>3, <1>4, <1>7 DEF AttemptIsJournaled
<1>10. BroadcastIsSubmitted' /\ JournalGrows
  BY <1>2 DEF SigningInv, BroadcastIsSubmitted, JournalGrows
<1> QED BY <1>1, <1>2, <1>3, <1>8, <1>9, <1>10, AttemptKeeps

(* A node takes the signed transaction, or the call fails.                  *)
LEMMA BroadcastKeeps ==
    ASSUME SigningInv, NEW w \in Worker, BroadcastTransaction(w) \/ BroadcastFails(w)
    PROVE  SigningInv'
<1>1. /\ pc \in [Worker -> Stages] /\ job \in [Worker -> Job \cup {NoJob}]
      /\ journal \in [Key -> TransactionIntent \cup {Nothing}] /\ wire \subseteq SignerRequest
  BY DEF SigningInv, SigningTypes
<1>2. UNCHANGED <<limit, clock, journal, job, signerVars>> /\ pc[w] = "signed"
  BY DEF BroadcastTransaction, BroadcastFails
<1>3. AttemptIsJournaled(w) /\ Vouched(job[w].tx)
  BY <1>2 DEF SigningInv, AttemptIsJournaled
<1>4. /\ submitted \subseteq submitted'
      /\ \A tx \in submitted' : tx \in submitted \/ Vouched(tx)
      /\ \/ Goes(w, "failed")
         \/ Goes(w, "broadcast") /\ job[w].tx \in submitted'
  BY <1>3 DEF BroadcastTransaction, BroadcastFails
<1>5. CASE Goes(w, "failed")
  BY <1>2, <1>4, <1>5, FailsKeeps
<1>6. CASE Goes(w, "broadcast") /\ job[w].tx \in submitted'
  <2>1. /\ pc' \in [Worker -> Stages] /\ pc'[w] = "broadcast"
        /\ \A v \in Worker : v # w => pc'[v] = pc[v]
    BY <1>1, <1>6 DEF Goes, Stages
  <2>2. Key' = Key /\ KeyOf(w)' = KeyOf(w) /\ \A k, tx : Journaled(k, tx)' <=> Journaled(k, tx)
    BY <1>2 DEF Key, KeyOf, Journaled
  <2>3. AttemptIsJournaled(w)'
    BY <1>2, <1>3, <1>6, <2>1, <2>2 DEF AttemptIsJournaled
  <2>4. BroadcastIsSubmitted' /\ JournalGrows
    BY <1>2, <1>4, <2>2 DEF SigningInv, BroadcastIsSubmitted, JournalGrows
  <2> QED BY <1>1, <1>2, <1>4, <2>1, <2>3, <2>4, AttemptKeeps DEF signerVars
<1> QED BY <1>4, <1>5, <1>6

(* The journal row is marked.                                               *)
LEMMA MarkKeeps ==
    ASSUME SigningInv, NEW w \in Worker, MarkBroadcast(w) \/ MarkFailed(w)
    PROVE  SigningInv'
<1>1. PICK mark \in {"broadcast", "failed"} :
        /\ pc[w] = mark /\ journal' = [journal EXCEPT ![KeyOf(w)].state = mark] /\ Ends(w)
        /\ UNCHANGED <<limit, clock, signerVars, submitted>>
  BY DEF MarkBroadcast, MarkFailed
<1>2. /\ KeyOf(w) \in Key /\ journal[KeyOf(w)] # Nothing
      /\ mark = "broadcast" => journal[KeyOf(w)].tx \in submitted
  BY <1>1 DEF SigningInv, AttemptIsJournaled, Journaled
<1>3. /\ journal' \in [Key -> TransactionIntent \cup {Nothing}] /\ JournalGrows
      /\ BroadcastIsSubmitted'
  BY <1>1, <1>2, MarkGrows
<1> QED BY <1>1, <1>3, EndsKeeps

(* An attempt is lost.                                                      *)
LEMMA LostKeeps ==
    ASSUME SigningInv, NEW w \in Worker, AttemptLost(w)
    PROVE  SigningInv'
<1>1. Ends(w) /\ UNCHANGED <<limit, clock, journal, signerVars, submitted>>
  BY DEF AttemptLost
<1>2. BroadcastIsSubmitted' /\ JournalGrows /\ Key' = Key
  BY <1>1 DEF SigningInv, BroadcastIsSubmitted, JournalGrows, Key
<1>3. journal' \in [Key -> TransactionIntent \cup {Nothing}]
  BY <1>1 DEF SigningInv, SigningTypes
<1> QED BY <1>1, <1>2, <1>3, EndsKeeps

(* Every step of an attempt keeps the invariant.                            *)
LEMMA PublishKeeps ==
    ASSUME SigningInv, NEW w \in Worker, Publish(w)
    PROVE  SigningInv'
<1>1. ASSUME NEW e \in limit.commands, NEW n \in 1..limit.attempts, PrepareOfficialEvent(w, e, n)
      PROVE  SigningInv'
  BY <1>1, PrepareKeeps
<1>2. CASE SignerUnavailable(w) \/ MarkBroadcastFails(w)
  <2>1. /\ pc[w] \notin {"idle", "record"} /\ Goes(w, "failed")
        /\ UNCHANGED <<limit, clock, journal, job, signerVars>>
        /\ UNCHANGED submitted
    BY <1>2 DEF SignerUnavailable, MarkBroadcastFails
  <2> QED BY <2>1, FailsKeeps
<1> QED BY <1>1, <1>2, RecordKeeps, SendKeeps, BroadcastKeeps, MarkKeeps, LostKeeps DEF Publish

-----------------------------------------------------------------------------
(* A step of the signer.                                                    *)

(* Whoever still waits for the answer to a request learns that it failed or *)
(* that what they asked for is signed.                                      *)
LEMMA AnswerKeeps ==
    ASSUME SigningInv, UNCHANGED <<limit, journal, job, submitted>>, SignaturesGrow,
           NEW req, NEW next \in {"failed", "signed"}, Answer(req, next) \/ UNCHANGED pc,
           next = "signed" => Vouched(req.tx)'
    PROVE  /\ pc' \in [Worker -> Stages]
           /\ \A w \in Worker : AttemptIsJournaled(w)'
<1>1. pc \in [Worker -> Stages] /\ Key' = Key
  BY DEF SigningInv, SigningTypes, Key
<1>2. pc' \in [Worker -> Stages]
  BY <1>1 DEF Answer, Stages
<1>3. \A tx : Vouched(tx) => Vouched(tx)'
  BY Growing
<1>4. ASSUME NEW w \in Worker PROVE AttemptIsJournaled(w)'
  <2>1. AttemptIsJournaled(w) /\ KeyOf(w)' = KeyOf(w)
    BY DEF SigningInv, KeyOf
  <2>2. \A k, tx : Journaled(k, tx)' <=> Journaled(k, tx)
    BY <1>1 DEF Journaled
  <2>3. CASE pc'[w] = pc[w]
    BY <1>1, <1>3, <2>1, <2>2, <2>3 DEF AttemptIsJournaled
  <2>4. CASE pc[w] = "await" /\ RequestOf(w) = req /\ pc'[w] = next
    <3>1. req.tx = job[w].tx
      BY <2>4 DEF RequestOf
    <3> QED BY <1>1, <2>1, <2>2, <2>4, <3>1 DEF AttemptIsJournaled
  <2>5. pc'[w] = pc[w] \/ (pc[w] = "await" /\ RequestOf(w) = req /\ pc'[w] = next)
    BY <1>1 DEF Answer
  <2> QED BY <2>3, <2>4, <2>5
<1> QED BY <1>2, <1>4

(* A reservation is never taken back, and never bound to something else.    *)
ReservationsStay ==
    \A k \in Key : reservation[k] # Nothing =>
      reservation'[k] # Nothing /\ reservation'[k].binding = reservation[k].binding

(* What a step of the signer has to leave for the invariant to hold after   *)
(* it.                                                                      *)
LEMMA SignerKeeps ==
    ASSUME SigningInv, UNCHANGED <<limit, clock, journal, job, submitted>>, wire' \subseteq wire,
           SignaturesGrow, signatures' \in Seq(Signature),
           NEW req, NEW next \in {"failed", "signed"}, Answer(req, next) \/ UNCHANGED pc,
           next = "signed" => Vouched(req.tx)',
           handler' \in [Handler -> Handling \cup {Nothing}],
           reservation' \in [Key -> Acquisition \cup {Nothing}],
           ReservationsAreJournaled', HandlersHoldReservations', SignaturesAreReserved',
           OneSignaturePerKey'
    PROVE  SigningInv'
<1>1. /\ Key' = Key /\ (\A tx : Vouched(tx) => Vouched(tx)')
      /\ \A k, tx : Journaled(k, tx) => Journaled(k, tx)'
  BY Growing DEF Journaled, Key
<1>2. pc' \in [Worker -> Stages] /\ \A w \in Worker : AttemptIsJournaled(w)'
  BY AnswerKeeps
<1>3. SigningTypes'
  BY <1>1, <1>2 DEF SigningInv, SigningTypes
<1>4. RequestsAreJournaled'
  BY <1>1 DEF SigningInv, RequestsAreJournaled
<1>5. SubmittedIsVouched' /\ BroadcastIsSubmitted'
  BY <1>1 DEF SigningInv, SubmittedIsVouched, BroadcastIsSubmitted
<1> QED BY <1>2, <1>3, <1>4, <1>5 DEF SigningInv

(* The handler of a request is the one that may sign its key: the signature *)
(* it adds is the only one of that key, and no other handler is concerned.  *)
LEMMA SigningOnce ==
    ASSUME SigningInv, UNCHANGED limit, ReservationsStay,
           NEW h \in Handler, handler[h] # Nothing, handler[h].at = "sign",
           NEW req, req = handler[h].req,
           signatures' = Append(signatures, [key |-> req.key, tx |-> req.tx])
    PROVE  /\ signatures' \in Seq(Signature) /\ SignaturesGrow
           /\ SignaturesAreReserved' /\ OneSignaturePerKey'
           /\ Signed(req.key, req.tx)'
           /\ \A k : k # req.key => (Unsigned(k) => Unsigned(k)')
<1> DEFINE s == [key |-> req.key, tx |-> req.tx]
           n == Len(signatures)
<1>1. signatures \in Seq(Signature) /\ handler[h] \in Handling /\ Key' = Key
  BY DEF SigningInv, SigningTypes, Key
<1>2. s \in Signature /\ s.key = req.key /\ s.tx = req.tx
  BY <1>1 DEF Handling, SignerRequest, Signature
<1>3. signatures' = Append(signatures, s)
  OBVIOUS
<1>4. Reserved(req.key, req.tx) /\ Unsigned(req.key)
  BY DEF SigningInv, HandlersHoldReservations
<1> HIDE DEF s
<1>5. /\ signatures' \in Seq(Signature) /\ n \in Nat
      /\ DOMAIN signatures = 1..n /\ DOMAIN signatures' = 1..(n + 1)
      /\ \A i \in 1..n : signatures'[i] = signatures[i]
      /\ signatures'[n + 1] = s
  <2>1. n \in Nat /\ Len(signatures') = n + 1 /\ signatures' \in Seq(Signature)
    BY <1>1, <1>2, <1>3, AppendProperties, LenProperties
  <2>2. DOMAIN signatures = 1..n /\ DOMAIN signatures' = 1..(n + 1)
    BY <1>1, <2>1, LenProperties
  <2> QED BY <1>1, <1>2, <1>3, <2>1, <2>2, AppendProperties
<1> HIDE DEF n
<1>6. SignaturesGrow
  BY <1>5 DEF SignaturesGrow
<1>7. \A i \in DOMAIN signatures' : i \in DOMAIN signatures \/ i = n + 1
  BY <1>5
<1>8. \A k, tx : Reserved(k, tx) => Reserved(k, tx)'
  BY <1>1 DEF ReservationsStay, Reserved
<1>9. SignaturesAreReserved'
  BY <1>2, <1>4, <1>5, <1>6, <1>7, <1>8 DEF SigningInv, SignaturesAreReserved, SignaturesGrow
<1>10. OneSignaturePerKey'
  <2> SUFFICES ASSUME NEW i \in DOMAIN signatures', NEW j \in DOMAIN signatures',
                      signatures'[i].key = signatures'[j].key
               PROVE  i = j
    BY DEF OneSignaturePerKey
  <2>1. CASE i \in DOMAIN signatures /\ j \in DOMAIN signatures
    BY <1>6, <2>1 DEF SigningInv, OneSignaturePerKey, SignaturesGrow
  <2>2. CASE i \in DOMAIN signatures /\ j = n + 1
    BY <1>2, <1>4, <1>5, <2>2 DEF Unsigned
  <2>3. CASE i = n + 1 /\ j \in DOMAIN signatures
    BY <1>2, <1>4, <1>5, <2>3 DEF Unsigned
  <2> QED BY <1>7, <2>1, <2>2, <2>3
<1>11. n + 1 \in DOMAIN signatures'
  BY <1>5
<1>12. Signed(req.key, req.tx)'
  <2>1. signatures'[n + 1].key = req.key /\ signatures'[n + 1].tx = req.tx
    BY <1>2, <1>5
  <2>2. \E i \in DOMAIN signatures' : signatures'[i].key = req.key /\ signatures'[i].tx = req.tx
    BY <1>11, <2>1
  <2> QED BY <2>2 DEF Signed
<1>13. \A k : k # req.key => (Unsigned(k) => Unsigned(k)')
  BY <1>2, <1>5, <1>7 DEF Unsigned
<1> QED BY <1>5, <1>6, <1>9, <1>10, <1>12, <1>13

(* A handler that is done with its request, or lost, whether it has signed  *)
(* or completed just before or not.                                         *)
LEMMA ReleaseKeeps ==
    ASSUME SigningInv, UNCHANGED <<limit, clock, journal, job, wire, submitted>>,
           NEW h \in Handler, handler[h] # Nothing,
           handler' = [handler EXCEPT ![h] = Nothing],
           NEW req, req = handler[h].req,
           \/ UNCHANGED signatures
           \/ /\ handler[h].at = "sign"
              /\ signatures' = Append(signatures, [key |-> req.key, tx |-> req.tx]),
           \/ UNCHANGED reservation
           \/ handler[h].at = "complete" /\ reservation' = Completed(req.key),
           NEW next \in {"failed", "signed"}, Answer(req, next) \/ UNCHANGED pc,
           next = "signed" => handler[h].at = "complete"
    PROVE  SigningInv'
<1>1. /\ signatures \in Seq(Signature) /\ handler \in [Handler -> Handling \cup {Nothing}]
      /\ reservation \in [Key -> Acquisition \cup {Nothing}] /\ Key' = Key
  BY DEF SigningInv, SigningTypes, Key
<1>2. /\ Reserved(req.key, req.tx) /\ reservation[req.key].binding = Binding(req)
      /\ handler[h].at = "sign" => Unsigned(req.key)
      /\ handler[h].at = "complete" => Signed(req.key, req.tx)
      /\ \A g \in Handler : handler[g] # Nothing /\ handler[g].req.key = req.key => g = h
  BY DEF SigningInv, HandlersHoldReservations
<1>3. /\ reservation' \in [Key -> Acquisition \cup {Nothing}] /\ ReservationsStay
      /\ \A k \in Key : /\ reservation[k] = Nothing => reservation'[k] = Nothing
                        /\ reservation'[k] # Nothing /\ reservation'[k].state = "completed" =>
                             \/ reservation[k].state = "completed"
                             \/ k = req.key /\ handler[h].at = "complete"
  <2>1. CASE UNCHANGED reservation
    BY <1>1, <2>1 DEF ReservationsStay
  <2>2. CASE handler[h].at = "complete" /\ reservation' = Completed(req.key)
    <3> DEFINE hold == [reservation[req.key] EXCEPT !.state = "completed"]
    <3>1. req.key \in Key /\ reservation[req.key] \in Acquisition
      BY <1>1, <1>2 DEF Reserved
    <3>2. hold \in Acquisition /\ hold.binding = reservation[req.key].binding
      BY <3>1 DEF Acquisition
    <3>3. reservation' = [reservation EXCEPT ![req.key] = hold]
      BY <2>2 DEF Completed
    <3> HIDE DEF hold
    <3>4. hold # Nothing
      BY <3>2, NothingAssumption
    <3>5. reservation' \in [Key -> Acquisition \cup {Nothing}]
      BY <1>1, <3>1, <3>2, <3>3
    <3>6. /\ reservation'[req.key] = hold
          /\ \A k \in Key : k # req.key => reservation'[k] = reservation[k]
      BY <1>1, <3>1, <3>3
    <3>7. reservation[req.key] # Nothing
      BY <1>2 DEF Reserved
    <3> QED BY <2>2, <3>2, <3>4, <3>5, <3>6, <3>7 DEF ReservationsStay
  <2> QED BY <2>1, <2>2
<1>4. /\ signatures' \in Seq(Signature) /\ SignaturesGrow
      /\ SignaturesAreReserved' /\ OneSignaturePerKey'
      /\ \A k : k # req.key => (Unsigned(k) => Unsigned(k)')
  <2>1. CASE UNCHANGED signatures
    <3>1. \A k, tx : Reserved(k, tx) => Reserved(k, tx)'
      BY <1>1, <1>3 DEF ReservationsStay, Reserved
    <3>2. SignaturesAreReserved' /\ OneSignaturePerKey'
      BY <2>1, <3>1 DEF SigningInv, SignaturesAreReserved, OneSignaturePerKey
    <3> QED BY <1>1, <2>1, <3>2 DEF SignaturesGrow, Unsigned
  <2>2. CASE /\ handler[h].at = "sign"
             /\ signatures' = Append(signatures, [key |-> req.key, tx |-> req.tx])
    BY <1>3, <2>2, SigningOnce
  <2> QED BY <2>1, <2>2
<1>5. /\ \A k, tx : Journaled(k, tx)' <=> Journaled(k, tx)
      /\ \A k, tx : Signed(k, tx) => Signed(k, tx)'
      /\ \A k, tx : Reserved(k, tx) => Reserved(k, tx)'
  BY <1>1, <1>3, <1>4, Growing DEF ReservationsStay, Reserved, Journaled
<1>6. ReservationsAreJournaled'
  <2>1. ASSUME NEW k \in Key, reservation'[k] # Nothing,
               NEW tx, tx = reservation'[k].binding.tx
        PROVE  /\ Journaled(k, tx)' /\ Allowed(tx)'
               /\ reservation'[k].state = "completed" => Signed(k, tx)'
    <3>1. reservation[k] # Nothing /\ reservation[k].binding.tx = tx
      BY <1>3, <2>1 DEF ReservationsStay
    <3>2. /\ Journaled(k, tx) /\ Allowed(tx)
          /\ reservation[k].state = "completed" => Signed(k, tx)
      BY <3>1 DEF SigningInv, ReservationsAreJournaled
    <3>3. reservation'[k].state = "completed" => Signed(k, tx)'
      BY <1>2, <1>3, <1>5, <2>1, <3>1, <3>2 DEF Reserved
    <3> QED BY <1>5, <3>2, <3>3 DEF Allowed
  <2>2. \A k \in Key : \A tx : reservation'[k] # Nothing /\ tx = reservation'[k].binding.tx =>
          /\ Journaled(k, tx)' /\ Allowed(tx)'
          /\ reservation'[k].state = "completed" => Signed(k, tx)'
    BY <2>1
  <2> QED BY <1>1, <2>2 DEF ReservationsAreJournaled
<1>7. /\ handler' \in [Handler -> Handling \cup {Nothing}] /\ handler'[h] = Nothing
      /\ \A g \in Handler : g # h => handler'[g] = handler[g]
  BY <1>1
<1>8. HandlersHoldReservations'
  <2> SUFFICES ASSUME NEW g \in Handler, g # h, handler[g] # Nothing,
                      NEW r, r = handler[g].req
               PROVE  /\ Reserved(r.key, r.tx)' /\ reservation'[r.key].binding = Binding(r)
                      /\ handler[g].at = "sign" => Unsigned(r.key)'
                      /\ handler[g].at = "complete" => Signed(r.key, r.tx)'
                      /\ \A f \in Handler : handler'[f] # Nothing /\ handler'[f].req.key = r.key => f = g
    BY <1>7 DEF HandlersHoldReservations, Binding
  <2>1. /\ Reserved(r.key, r.tx) /\ reservation[r.key].binding = Binding(r)
        /\ handler[g].at = "sign" => Unsigned(r.key)
        /\ handler[g].at = "complete" => Signed(r.key, r.tx)
        /\ \A f \in Handler : handler[f] # Nothing /\ handler[f].req.key = r.key => f = g
    BY DEF SigningInv, HandlersHoldReservations
  <2>2. r.key # req.key
    BY <1>2
  <2>3. reservation'[r.key].binding = Binding(r)
    BY <1>3, <2>1 DEF Reserved, ReservationsStay
  <2> QED BY <1>4, <1>5, <1>7, <2>1, <2>2, <2>3
<1>9. next = "signed" => Vouched(req.tx)'
  <2> SUFFICES ASSUME handler[h].at = "complete" PROVE Vouched(req.tx)'
    OBVIOUS
  <2>1. Allowed(req.tx)
    BY <1>2 DEF SigningInv, ReservationsAreJournaled, Reserved
  <2>2. Signed(req.key, req.tx)'
    BY <1>2, <1>5
  <2> QED BY <2>1, <2>2 DEF Vouched, Signed, Allowed
<1> QED BY <1>3, <1>4, <1>6, <1>7, <1>8, <1>9, SignerKeeps

(* A request that is refused, or answered from a completed reservation.     *)
LEMMA ReplayKeeps ==
    ASSUME SigningInv, UNCHANGED <<limit, clock, journal, job, submitted>>,
           UNCHANGED <<handler, reservation, signatures>>, wire' \subseteq wire,
           NEW req, NEW next \in {"failed", "signed"}, Answer(req, next),
           next = "signed" => Vouched(req.tx)
    PROVE  SigningInv'
<1>1. /\ signatures' \in Seq(Signature) /\ handler' \in [Handler -> Handling \cup {Nothing}]
      /\ reservation' \in [Key -> Acquisition \cup {Nothing}] /\ Key' = Key /\ SignaturesGrow
  BY DEF SigningInv, SigningTypes, Key, SignaturesGrow
<1>2. \A k, tx : /\ Journaled(k, tx)' <=> Journaled(k, tx)
                 /\ Signed(k, tx)' <=> Signed(k, tx)
                 /\ Reserved(k, tx)' <=> Reserved(k, tx)
                 /\ Vouched(tx)' <=> Vouched(tx)
                 /\ Unsigned(k)' <=> Unsigned(k)
  BY <1>1 DEF Journaled, Signed, Reserved, Vouched, Unsigned, Allowed
<1>3. ReservationsAreJournaled'
  BY <1>1, <1>2 DEF SigningInv, ReservationsAreJournaled, Allowed
<1>4. HandlersHoldReservations'
  BY <1>2 DEF SigningInv, HandlersHoldReservations, Binding
<1>5. SignaturesAreReserved' /\ OneSignaturePerKey'
  BY <1>2 DEF SigningInv, SignaturesAreReserved, OneSignaturePerKey
<1> QED BY <1>1, <1>2, <1>3, <1>4, <1>5, SignerKeeps

(* acquire: the first request of a key, which nobody has signed yet.        *)
LEMMA AcquireKeeps ==
    ASSUME SigningInv, UNCHANGED <<limit, clock, journal, job, submitted, signatures, pc>>,
           wire' \subseteq wire, NEW h \in Handler, NEW req \in wire,
           handler[h] = Nothing, PolicyAllows(req), reservation[req.key] = Nothing,
           reservation' = [reservation EXCEPT ![req.key] =
                             [binding |-> Binding(req), state |-> "active"]],
           handler' = [handler EXCEPT ![h] = [req |-> req, at |-> "sign"]]
    PROVE  SigningInv'
<1> DEFINE hold == [binding |-> Binding(req), state |-> "active"]
           work == [req |-> req, at |-> "sign"]
<1>1. /\ signatures \in Seq(Signature) /\ handler \in [Handler -> Handling \cup {Nothing}]
      /\ reservation \in [Key -> Acquisition \cup {Nothing}] /\ Key' = Key
      /\ wire \subseteq SignerRequest
  BY DEF SigningInv, SigningTypes, Key
<1>2. req \in SignerRequest /\ Journaled(req.key, req.tx) /\ req.key \in Key
  BY <1>1 DEF SigningInv, RequestsAreJournaled, Journaled
<1>3. /\ hold \in Acquisition /\ hold.binding = Binding(req) /\ hold.binding.tx = req.tx
      /\ hold.state = "active"
  BY <1>2 DEF Acquisition, Binding, SignerRequest
<1>4. work \in Handling /\ work.req = req /\ work.at = "sign"
  BY <1>2 DEF Handling
<1>5. reservation' = [reservation EXCEPT ![req.key] = hold]
      /\ handler' = [handler EXCEPT ![h] = work]
  OBVIOUS
<1> HIDE DEF hold, work
<1>6. hold # Nothing /\ work # Nothing
  BY <1>3, <1>4, NothingAssumption
<1>7. /\ reservation' \in [Key -> Acquisition \cup {Nothing}] /\ reservation'[req.key] = hold
      /\ \A k \in Key : k # req.key => reservation'[k] = reservation[k]
  BY <1>1, <1>2, <1>3, <1>5
<1>8. /\ handler' \in [Handler -> Handling \cup {Nothing}] /\ handler'[h] = work
      /\ \A g \in Handler : g # h => handler'[g] = handler[g]
  BY <1>1, <1>4, <1>5
<1>9. /\ \A k, tx : /\ Journaled(k, tx)' <=> Journaled(k, tx)
                    /\ Signed(k, tx)' <=> Signed(k, tx)
                    /\ Reserved(k, tx) => Reserved(k, tx)'
                    /\ Unsigned(k)' <=> Unsigned(k)
      /\ Reserved(req.key, req.tx)'
  BY <1>1, <1>2, <1>3, <1>6, <1>7 DEF Journaled, Signed, Reserved, Unsigned
<1>10. Unsigned(req.key)
  BY DEF SigningInv, SignaturesAreReserved, Reserved, Unsigned
<1>11. \A g \in Handler : handler[g] # Nothing => handler[g].req.key # req.key
  BY DEF SigningInv, HandlersHoldReservations, Reserved
<1>12. ReservationsAreJournaled'
  <2>1. Journaled(req.key, req.tx)' /\ Allowed(req.tx)
    BY <1>2, <1>9, PolicyIsEnough
  <2>2. ASSUME NEW k \in Key, reservation'[k] # Nothing,
               NEW tx, tx = reservation'[k].binding.tx
        PROVE  /\ Journaled(k, tx)' /\ Allowed(tx)'
               /\ reservation'[k].state = "completed" => Signed(k, tx)'
    <3>1. CASE k = req.key
      BY <1>3, <1>7, <2>1, <2>2, <3>1 DEF Allowed
    <3>2. CASE k # req.key
      <4>1. reservation[k] # Nothing /\ reservation[k].binding.tx = tx
            /\ reservation'[k].state = reservation[k].state
        BY <1>7, <2>2, <3>2
      <4>2. /\ Journaled(k, tx) /\ Allowed(tx)
            /\ reservation[k].state = "completed" => Signed(k, tx)
        BY <4>1 DEF SigningInv, ReservationsAreJournaled
      <4> QED BY <1>9, <4>1, <4>2 DEF Allowed
    <3> QED BY <3>1, <3>2
  <2>3. \A k \in Key : \A tx : reservation'[k] # Nothing /\ tx = reservation'[k].binding.tx =>
          /\ Journaled(k, tx)' /\ Allowed(tx)'
          /\ reservation'[k].state = "completed" => Signed(k, tx)'
    BY <2>2
  <2> QED BY <1>1, <2>3 DEF ReservationsAreJournaled
<1>13. HandlersHoldReservations'
  <2>1. ASSUME NEW g \in Handler, handler'[g] # Nothing, NEW r, r = handler'[g].req
        PROVE  /\ Reserved(r.key, r.tx)' /\ reservation'[r.key].binding = Binding(r)
               /\ handler'[g].at = "sign" => Unsigned(r.key)'
               /\ handler'[g].at = "complete" => Signed(r.key, r.tx)'
               /\ \A f \in Handler : handler'[f] # Nothing /\ handler'[f].req.key = r.key => f = g
    <3>1. CASE g = h
      <4>1. r = req /\ handler'[g].at = "sign"
        BY <1>4, <1>8, <2>1, <3>1
      <4> QED BY <1>3, <1>7, <1>8, <1>9, <1>10, <1>11, <3>1, <4>1
    <3>2. CASE g # h
      <4>1. handler'[g] = handler[g]
        BY <1>8, <3>2
      <4>2. /\ Reserved(r.key, r.tx) /\ reservation[r.key].binding = Binding(r)
            /\ handler[g].at = "sign" => Unsigned(r.key)
            /\ handler[g].at = "complete" => Signed(r.key, r.tx)
            /\ \A f \in Handler : handler[f] # Nothing /\ handler[f].req.key = r.key => f = g
        BY <2>1, <4>1 DEF SigningInv, HandlersHoldReservations
      <4>3. r.key # req.key /\ r.key \in Key
        BY <1>11, <2>1, <4>1, <4>2 DEF Reserved
      <4> QED BY <1>4, <1>7, <1>8, <1>9, <4>1, <4>2, <4>3
    <3> QED BY <3>1, <3>2
  <2>2. \A g \in Handler : \A r : handler'[g] # Nothing /\ r = handler'[g].req =>
          /\ Reserved(r.key, r.tx)' /\ reservation'[r.key].binding = Binding(r)
          /\ handler'[g].at = "sign" => Unsigned(r.key)'
          /\ handler'[g].at = "complete" => Signed(r.key, r.tx)'
          /\ \A f \in Handler : handler'[f] # Nothing /\ handler'[f].req.key = r.key => f = g
    BY <2>1
  <2> QED BY <2>2 DEF HandlersHoldReservations, Binding
<1>14. SignaturesAreReserved' /\ OneSignaturePerKey'
  BY <1>9 DEF SigningInv, SignaturesAreReserved, OneSignaturePerKey
<1>15. SignaturesGrow /\ signatures' \in Seq(Signature)
  BY <1>1 DEF SignaturesGrow
<1> QED BY <1>7, <1>8, <1>12, <1>13, <1>14, <1>15, SignerKeeps

(* The signer takes a request: refusal, new reservation, conflict or        *)
(* replay.                                                                  *)
LEMMA SignKeeps ==
    ASSUME SigningInv, NEW h \in Handler, NEW req \in wire, NEW repeats \in BOOLEAN,
           Sign(h, req, repeats)
    PROVE  SigningInv'
<1>1. /\ UNCHANGED <<limit, clock, journal, job, submitted, signatures>>
      /\ wire' \subseteq wire /\ handler[h] = Nothing
  BY DEF Sign, Takes
<1>2. CASE Answer(req, "failed") /\ UNCHANGED <<handler, reservation>>
  BY <1>1, <1>2, ReplayKeeps
<1>3. CASE /\ PolicyAllows(req) /\ reservation[req.key] = Nothing
           /\ reservation' = [reservation EXCEPT ![req.key] =
                                [binding |-> Binding(req), state |-> "active"]]
           /\ handler' = [handler EXCEPT ![h] = [req |-> req, at |-> "sign"]]
           /\ UNCHANGED pc
  BY <1>1, <1>3, AcquireKeeps
<1>4. CASE /\ PolicyAllows(req) /\ Answer(req, "signed") /\ UNCHANGED <<handler, reservation>>
           /\ reservation[req.key] = [binding |-> Binding(req), state |-> "completed"]
  <2>1. req.key \in Key
    BY DEF SigningInv, RequestsAreJournaled, Journaled
  <2>2. /\ reservation[req.key].binding.tx = req.tx
        /\ reservation[req.key].state = "completed"
    BY <1>4 DEF Binding
  <2>3. reservation[req.key] # Nothing
    <3>1. [binding |-> Binding(req), state |-> "completed"] \in Acquisition
      BY DEF SigningInv, SigningTypes, Acquisition, Binding, SignerRequest
    <3> QED BY <1>4, <3>1, NothingAssumption
  <2>4. Signed(req.key, req.tx) /\ Allowed(req.tx)
    BY <2>1, <2>2, <2>3 DEF SigningInv, ReservationsAreJournaled
  <2>5. Vouched(req.tx)
    BY <2>4 DEF Vouched, Signed
  <2> QED BY <1>1, <1>4, <2>5, ReplayKeeps
<1> QED BY <1>2, <1>3, <1>4 DEF Sign

(* The provider signs.                                                      *)
LEMMA SignDigestKeeps ==
    ASSUME SigningInv, NEW h \in Handler, SignDigest(h)
    PROVE  SigningInv'
<1>1. PICK req : req = handler[h].req
  OBVIOUS
<1>2. /\ handler[h] # Nothing /\ handler[h].at = "sign"
      /\ signatures' = Append(signatures, [key |-> req.key, tx |-> req.tx])
      /\ handler' = [handler EXCEPT ![h].at = "complete"]
      /\ UNCHANGED <<limit, clock, journal, pc, job, wire, reservation, submitted>>
  BY <1>1 DEF SignDigest, attemptVars
<1>3. /\ handler \in [Handler -> Handling \cup {Nothing}] /\ Key' = Key
      /\ reservation' \in [Key -> Acquisition \cup {Nothing}] /\ ReservationsStay
  BY <1>2 DEF SigningInv, SigningTypes, Key, ReservationsStay
<1>4. /\ signatures' \in Seq(Signature) /\ SignaturesGrow
      /\ SignaturesAreReserved' /\ OneSignaturePerKey'
      /\ Signed(req.key, req.tx)'
      /\ \A k : k # req.key => (Unsigned(k) => Unsigned(k)')
  BY <1>1, <1>2, <1>3, SigningOnce
<1>5. /\ \A k, tx : Journaled(k, tx)' <=> Journaled(k, tx)
      /\ \A k, tx : Signed(k, tx) => Signed(k, tx)'
      /\ \A k, tx : Reserved(k, tx)' <=> Reserved(k, tx)
  BY <1>2, <1>3, <1>4, Growing DEF Reserved, Journaled
<1>6. ReservationsAreJournaled'
  BY <1>2, <1>3, <1>5 DEF SigningInv, ReservationsAreJournaled, Allowed
<1> DEFINE work == [handler[h] EXCEPT !.at = "complete"]
<1>7. work \in Handling /\ work.req = req /\ work.at = "complete"
  BY <1>1, <1>2, <1>3 DEF Handling
<1>8. handler' = [handler EXCEPT ![h] = work]
  BY <1>2
<1> HIDE DEF work
<1>9. /\ handler' \in [Handler -> Handling \cup {Nothing}] /\ handler'[h] = work
      /\ \A g \in Handler : g # h => handler'[g] = handler[g]
  BY <1>3, <1>7, <1>8
<1>10. \A g \in Handler : /\ handler'[g] # Nothing => handler[g] # Nothing
                          /\ handler'[g].req = handler[g].req
  BY <1>1, <1>2, <1>7, <1>9
<1>11. HandlersHoldReservations'
  <2>1. ASSUME NEW g \in Handler, handler'[g] # Nothing, NEW r, r = handler'[g].req
        PROVE  /\ Reserved(r.key, r.tx)' /\ reservation'[r.key].binding = Binding(r)
               /\ handler'[g].at = "sign" => Unsigned(r.key)'
               /\ handler'[g].at = "complete" => Signed(r.key, r.tx)'
               /\ \A f \in Handler : handler'[f] # Nothing /\ handler'[f].req.key = r.key => f = g
    <3>1. /\ Reserved(r.key, r.tx) /\ reservation[r.key].binding = Binding(r)
          /\ handler[g].at = "sign" => Unsigned(r.key)
          /\ handler[g].at = "complete" => Signed(r.key, r.tx)
          /\ \A f \in Handler : handler[f] # Nothing /\ handler[f].req.key = r.key => f = g
      BY <1>10, <2>1 DEF SigningInv, HandlersHoldReservations
    <3>2. CASE g = h
      <4>1. r = req /\ handler'[g].at = "complete"
        BY <1>7, <1>9, <2>1, <3>2
      <4> QED BY <1>2, <1>4, <1>5, <1>10, <3>1, <4>1
    <3>3. CASE g # h
      <4>1. r.key # req.key
        BY <1>1, <1>2, <3>1, <3>3
      <4> QED BY <1>2, <1>4, <1>5, <1>9, <1>10, <3>1, <3>3, <4>1
    <3> QED BY <3>2, <3>3
  <2>2. \A g \in Handler : \A r : handler'[g] # Nothing /\ r = handler'[g].req =>
          /\ Reserved(r.key, r.tx)' /\ reservation'[r.key].binding = Binding(r)
          /\ handler'[g].at = "sign" => Unsigned(r.key)'
          /\ handler'[g].at = "complete" => Signed(r.key, r.tx)'
          /\ \A f \in Handler : handler'[f] # Nothing /\ handler'[f].req.key = r.key => f = g
    BY <2>1
  <2> QED BY <2>2 DEF HandlersHoldReservations, Binding
<1> QED BY <1>2, <1>3, <1>4, <1>6, <1>9, <1>11, SignerKeeps

(* Every step of a signer handler keeps the invariant.                      *)
LEMMA SignerStepKeeps ==
    ASSUME SigningInv, NEW h \in Handler, SignerStep(h)
    PROVE  SigningInv'
<1>1. ASSUME NEW req \in wire, NEW repeats \in BOOLEAN, Sign(h, req, repeats) PROVE SigningInv'
  BY <1>1, SignKeeps
<1>2. CASE SignDigestFails(h)
  <2>1. PICK req : req = handler[h].req
    OBVIOUS
  <2>2. /\ handler[h] # Nothing /\ handler[h].at = "sign"
        /\ signatures' \in {signatures, Append(signatures, [key |-> req.key, tx |-> req.tx])}
        /\ handler' = [handler EXCEPT ![h] = Nothing] /\ UNCHANGED reservation
        /\ UNCHANGED <<limit, clock, journal, job, wire, submitted>> /\ Answer(req, "failed")
    BY <1>2, <2>1 DEF SignDigestFails, AfterProviderFailure
  <2> QED BY <2>1, <2>2, ReleaseKeeps
<1>3. CASE CompleteReservation(h) \/ CompleteFails(h)
  <2>1. PICK req : req = handler[h].req
    OBVIOUS
  <2>2. /\ handler[h] # Nothing /\ handler[h].at = "complete"
        /\ handler' = [handler EXCEPT ![h] = Nothing]
        /\ UNCHANGED <<limit, clock, journal, job, wire, submitted>> /\ UNCHANGED signatures
        /\ reservation' \in {reservation, Completed(req.key)}
        /\ Answer(req, "signed") \/ Answer(req, "failed")
    BY <1>3, <2>1 DEF CompleteReservation, CompleteFails
  <2> QED BY <2>1, <2>2, ReleaseKeeps
<1>4. CASE SignerLost(h)
  <2>1. PICK req : req = handler[h].req
    OBVIOUS
  <2>2. /\ handler[h] # Nothing /\ handler' = [handler EXCEPT ![h] = Nothing]
        /\ UNCHANGED <<limit, clock, journal, job, wire, submitted>> /\ UNCHANGED signatures
        /\ UNCHANGED reservation /\ UNCHANGED pc
    BY <1>4 DEF SignerLost, attemptVars
  <2> QED BY <2>1, <2>2, ReleaseKeeps
<1> QED BY <1>1, <1>2, <1>3, <1>4, SignDigestKeeps DEF SignerStep

-----------------------------------------------------------------------------
(* The theorems.                                                            *)

(* Nothing journaled, reserved or signed satisfies the invariant.           *)
LEMMA SigningInitial == Init => SigningInv
<1> SUFFICES ASSUME Init PROVE SigningInv
  OBVIOUS
<1> USE DEF Init, SigningInit
<1>1. limit \in Scenarios /\ clock \in Nat /\ submitted = {}
      /\ journal = [k \in Key |-> Nothing] /\ pc = [w \in Worker |-> "idle"]
      /\ job = [w \in Worker |-> NoJob] /\ wire = {} /\ handler = [h \in Handler |-> Nothing]
      /\ reservation = [k \in Key |-> Nothing] /\ signatures = <<>>
  OBVIOUS
<1>2. SigningTypes
  BY <1>1 DEF SigningTypes, Stages
<1>3. \A w \in Worker : AttemptIsJournaled(w)
  BY <1>1 DEF AttemptIsJournaled
<1>4. RequestsAreJournaled /\ SubmittedIsVouched
  BY <1>1 DEF RequestsAreJournaled, SubmittedIsVouched
<1>5. ReservationsAreJournaled /\ HandlersHoldReservations /\ BroadcastIsSubmitted
  BY <1>1 DEF ReservationsAreJournaled, HandlersHoldReservations, BroadcastIsSubmitted
<1>6. SignaturesAreReserved /\ OneSignaturePerKey
  BY <1>1 DEF SignaturesAreReserved, OneSignaturePerKey
<1> QED BY <1>2, <1>3, <1>4, <1>5, <1>6 DEF SigningInv

(* What concerns the chain or the projection only.                          *)
LEMMA ElsewhereKeeps ==
    ASSUME SigningInv, UNCHANGED <<limit, attemptVars, signerVars, submitted>>, clock' \in Nat
    PROVE  SigningInv'
<1>1. /\ UNCHANGED <<limit, journal, pc, job, wire, handler, reservation>>
      /\ UNCHANGED <<signatures, submitted>> /\ Key' = Key
  BY DEF attemptVars, signerVars, Key
<1>2. \A k, tx : /\ Journaled(k, tx)' <=> Journaled(k, tx)
                 /\ Signed(k, tx)' <=> Signed(k, tx)
                 /\ Reserved(k, tx)' <=> Reserved(k, tx)
                 /\ Vouched(tx)' <=> Vouched(tx)
                 /\ Unsigned(k)' <=> Unsigned(k)
  BY <1>1 DEF Journaled, Signed, Reserved, Vouched, Unsigned, Allowed
<1>3. SigningTypes'
  BY <1>1 DEF SigningInv, SigningTypes
<1>4. \A w \in Worker : AttemptIsJournaled(w)'
  <2>1. \A w \in Worker : KeyOf(w)' = KeyOf(w) /\ AttemptIsJournaled(w)
    BY <1>1 DEF SigningInv, KeyOf
  <2> QED BY <1>1, <1>2, <2>1 DEF AttemptIsJournaled
<1>5. RequestsAreJournaled' /\ SubmittedIsVouched' /\ BroadcastIsSubmitted'
  BY <1>1, <1>2 DEF SigningInv, RequestsAreJournaled, SubmittedIsVouched, BroadcastIsSubmitted
<1>6. ReservationsAreJournaled'
  BY <1>1, <1>2 DEF SigningInv, ReservationsAreJournaled, Allowed
<1>7. HandlersHoldReservations'
  BY <1>1, <1>2 DEF SigningInv, HandlersHoldReservations, Binding
<1>8. SignaturesAreReserved' /\ OneSignaturePerKey'
  BY <1>1, <1>2 DEF SigningInv, SignaturesAreReserved, OneSignaturePerKey
<1> QED BY <1>3, <1>4, <1>5, <1>6, <1>7, <1>8 DEF SigningInv

(* Every step of PublicLedger keeps the invariant.                          *)
LEMMA SigningStep == SigningInv /\ [Next]_allVars => SigningInv'
<1> SUFFICES ASSUME SigningInv, [Next]_allVars PROVE SigningInv'
  OBVIOUS
<1>0. clock \in Nat
  BY DEF SigningInv, SigningTypes
<1>1. ASSUME NEW w \in Worker, Publish(w) PROVE SigningInv'
  BY <1>1, PublishKeeps
<1>2. ASSUME NEW h \in Handler, SignerStep(h) PROVE SigningInv'
  BY <1>2, SignerStepKeeps
<1>3. CASE Tick
  BY <1>0, <1>3, ElsewhereKeeps DEF Tick
<1>4. ASSUME NEW tx, Include(tx) PROVE SigningInv'
  BY <1>0, <1>4, ElsewhereKeeps DEF Include
<1>5. ASSUME NEW op, PublishedElsewhere(op) PROVE SigningInv'
  BY <1>0, <1>5, ElsewhereKeeps DEF PublishedElsewhere
<1>6. CASE UNCHANGED signingVars
  BY <1>0, <1>6, ElsewhereKeeps DEF signingVars
<1>7. CASE SigningNext
  BY <1>1, <1>2, <1>3, <1>4, <1>7 DEF SigningNext
<1> QED BY <1>5, <1>6, <1>7 DEF Next, RowWritten, Reach, FinalizeThrough, allVars

(* The inductive invariant holds in every reachable state.                  *)
THEOREM SigningInvariant == Spec => []SigningInv
<1>1. Init => SigningInv
  BY SigningInitial
<1>2. SigningInv /\ [Next]_allVars => SigningInv'
  BY SigningStep
<1> QED BY <1>1, <1>2, PTL DEF Spec

(* The signer boundary signs at most once for an idempotency key, however   *)
(* many attempts, repeated requests, handlers and failures there are.       *)
THEOREM SignsOncePerKey == Spec => []OneSignaturePerKey
<1>1. SigningInv => OneSignaturePerKey
  BY DEF SigningInv
<1> QED BY <1>1, SigningInvariant, PTL

(* The issuer journals before it asks for a signature, and the gateway      *)
(* submits only what the signer's policy approved: nothing is signed that   *)
(* the journal does not have, nothing is submitted that was not signed.     *)
THEOREM SignaturesAreJournaled == Spec => []EverySignatureIsJournaled
<1>1. SigningInv => EverySignatureIsJournaled
  <2> SUFFICES ASSUME SigningInv PROVE EverySignatureIsJournaled
    OBVIOUS
  <2>1. ASSUME NEW i \in DOMAIN signatures
        PROVE  /\ journal[signatures[i].key] # Nothing
               /\ journal[signatures[i].key].tx = signatures[i].tx
    <3>1. Reserved(signatures[i].key, signatures[i].tx)
      BY DEF SigningInv, SignaturesAreReserved
    <3>2. Journaled(signatures[i].key, signatures[i].tx)
      BY <3>1 DEF SigningInv, ReservationsAreJournaled, Reserved
    <3> QED BY <3>2 DEF Journaled
  <2>2. Range(signatures) = {signatures[i] : i \in DOMAIN signatures}
    BY DEF Range
  <2>3. \A s \in Range(signatures) : journal[s.key] # Nothing /\ journal[s.key].tx = s.tx
    BY <2>1, <2>2
  <2>4. ASSUME NEW tx \in submitted
        PROVE  /\ \E s \in Range(signatures) : s.tx = tx
               /\ \E a \in Approved : a.account = tx.account /\ MayPublish(tx.event, a)
    BY <2>2 DEF SigningInv, SubmittedIsVouched, Vouched, Allowed
  <2> QED BY <2>3, <2>4 DEF EverySignatureIsJournaled, SigningInv, BroadcastIsSubmitted
<1> QED BY <1>1, SigningInvariant, PTL

=============================================================================

------------------------ MODULE MatchPublisherProofs ------------------------
(***************************************************************************)
(* Proofs about MatchPublisher for any number of workers, requests and      *)
(* batch limits, and any interleaving of leases, failures, forks and        *)
(* expiries.                                                               *)
(***************************************************************************)
EXTENDS MatchPublisher, FiniteSetTheorems, SequenceTheorems, WellFoundedInduction, TLAPS

-----------------------------------------------------------------------------
(* The inductive invariant.                                                *)

RequestRow == [state: {"absent", "queued", "retryable_failed", "batched", "published"},
               due: BOOLEAN, tries: Nat]
OutboxState == Claimable \cup {"broadcast", "included", "irreversible"}
OutboxRow == [items: Seq(Request), state: OutboxState, due: BOOLEAN, attempts: Nat]
Attempt == [outbox: Nat, attempt: Nat]
Label == {"idle", "freeze", "claim", "prepare", "journaled", "sent", "failed"}
Holding == {"prepare", "journaled", "sent", "failed"}

(* An attempt that was claimed.                                             *)
Claimed(a) == /\ a \in Attempt /\ a.outbox \in DOMAIN outbox
              /\ a.attempt \in 1..outbox[a.outbox].attempts

Tables ==
    /\ request \in [Request -> RequestRow] /\ outbox \in Seq(OutboxRow)
    /\ event \in [Slot -> Feed!State] /\ pool \in [Slot -> Nat] /\ expiries \in Nat
    /\ \A a \in journal : Claimed(a)

(* Workers hold an attempt while they publish, and only then.               *)
WorkersHoldAttempts ==
    /\ pc \in [Worker -> Label] /\ DOMAIN job = Worker
    /\ \A w \in Worker : IF pc[w] \in Holding THEN Claimed(job[w]) ELSE job[w] = NoJob

(* Every request that left the queue has one place in the batches; no batch  *)
(* is empty or over its limits.                                            *)
Frozen == {"batched", "published"}
RequestsHavePlaces ==
    /\ \A o \in DOMAIN outbox : outbox[o].items # <<>> /\ Fits(outbox[o].items)
    /\ \A o, p \in DOMAIN outbox :
         \A i \in DOMAIN outbox[o].items, j \in DOMAIN outbox[p].items :
           outbox[o].items[i] = outbox[p].items[j] => o = p /\ i = j
    /\ \A r \in Request : request[r].state \in Frozen <=>
                            \E o \in DOMAIN outbox : r \in Members(o)

(* What a worker has sent is known to the chain before the row says so.      *)
Known(o) == pool[o] > 0 \/ event[o] # "absent"
SentIsUnderWay ==
    \A w \in Worker : pc[w] = "sent" /\ expiries = 0 => Known(job[w].outbox)

PublisherInv ==
    /\ Tables /\ WorkersHoldAttempts /\ RequestsHavePlaces
    /\ PublishedIsIrreversible /\ AttemptsAreFenced
    /\ SentIsUnderWay /\ UnclaimedIsUnderWay

-----------------------------------------------------------------------------
(* Facts about numbers and sequences.                                       *)

(* A function on 1..n is a sequence.                                        *)
LEMMA FunctionIsSeq ==
    ASSUME NEW n \in Nat, NEW S, NEW f \in [1..n -> S]
    PROVE  f \in Seq(S) /\ Len(f) = n /\ DOMAIN f = 1..n
<1>1. f = [i \in 1..n |-> f[i]]
  OBVIOUS
<1>2. \A i \in 1..n : f[i] \in S
  OBVIOUS
<1> QED BY <1>1, <1>2

(* A set of naturals that is not empty has a least element.                 *)
LEMMA LeastNatural ==
    ASSUME NEW T, T \subseteq Nat, T # {}
    PROVE  \E m \in T : \A k \in T : m <= k
<1>1. PICK m \in T : \A k \in T : ~(<<k, m>> \in OpToRel(<, Nat))
  BY NatLessThanWellFounded, WFMin
<1>2. \A k \in T : ~(k < m)
  BY <1>1 DEF OpToRel
<1>3. \A k \in T : m <= k
  BY <1>2
<1> QED BY <1>3

-----------------------------------------------------------------------------
(* What freezeNextBatch selects.                                            *)

(* Publication requests are the first MaxRequest numbers.                   *)
LEMMA RequestsAreNumbers == Request \subseteq Nat /\ IsFiniteSet(Request)
                            /\ Cardinality(Request) = MaxRequest
<1>1. MaxRequest \in Nat /\ Request = 1..MaxRequest
  BY PublisherAssumption DEF Request
<1>2. /\ IsFiniteSet(1..MaxRequest)
      /\ Cardinality(1..MaxRequest) = IF 1 > MaxRequest THEN 0 ELSE MaxRequest - 1 + 1
  BY <1>1, FS_Interval
<1>3. (IF 1 > MaxRequest THEN 0 ELSE MaxRequest - 1 + 1) = MaxRequest
  BY <1>1
<1>4. 1..MaxRequest \subseteq Nat
  BY <1>1
<1> QED BY <1>1, <1>2, <1>3, <1>4

(* The n-th oldest candidate exists, and no two positions share one.         *)
LEMMA PositionsAreFilled ==
    /\ IsFiniteSet(Eligible) /\ Cardinality(Eligible) \in Nat
    /\ \A n \in 1..Cardinality(Eligible) : \E r \in Eligible : Position(r) = n
<1> DEFINE E == Eligible
           N == Cardinality(E)
           upto(r) == {q \in E : q <= r}
           rank == [r \in E |-> Position(r)]
<1>1. E \subseteq Request
  BY DEF Eligible
<1>2. IsFiniteSet(E) /\ N \in Nat
  BY <1>1, RequestsAreNumbers, FS_Subset, FS_CardinalityType
<1>3. ASSUME NEW r \in E
      PROVE  /\ IsFiniteSet(upto(r)) /\ Cardinality(upto(r)) \in 1..N
             /\ Position(r) = Cardinality(upto(r))
  <2>1. upto(r) \in SUBSET E
    OBVIOUS
  <2>2. IsFiniteSet(upto(r)) /\ Cardinality(upto(r)) <= N
    BY <1>2, <2>1, FS_Subset
  <2>3. Cardinality(upto(r)) \in Nat
    BY <2>2, FS_CardinalityType
  <2>4. r \in upto(r)
    BY <1>1, RequestsAreNumbers
  <2>5. Cardinality(upto(r)) # 0
    BY <2>2, <2>4, FS_EmptySet
  <2>6. Position(r) = Cardinality(upto(r))
    BY DEF Position
  <2> QED BY <1>2, <2>2, <2>3, <2>5, <2>6
<1>4. ASSUME NEW q \in E, NEW r \in E, q < r PROVE Position(q) # Position(r)
  <2>1. q \in Nat /\ r \in Nat /\ \A x \in E : x \in Nat
    BY <1>1, RequestsAreNumbers
  <2>2. upto(q) \in SUBSET upto(r)
    <3>1. \A x \in E : x <= q => x <= r
      BY <1>4, <2>1
    <3> QED BY <3>1
  <2>3. r \in upto(r) /\ r \notin upto(q)
    BY <1>4, <2>1
  <2>4. Cardinality(upto(r)) # Cardinality(upto(q))
    <3>1. IsFiniteSet(upto(r)) /\ upto(r) # upto(q)
      BY <1>3, <2>3
    <3> HIDE DEF upto
    <3> QED BY <2>2, <3>1, FS_Subset
  <2> QED BY <1>3, <2>4
<1>5. rank \in Injection(E, 1..N)
  <2>1. rank \in [E -> 1..N]
    BY <1>3
  <2>2. \A q, r \in E : q # r => Position(q) # Position(r)
    <3>1. \A x \in E : x \in Nat
      BY <1>1, RequestsAreNumbers
    <3>2. \A q, r \in E : q # r => q < r \/ r < q
      BY <3>1
    <3> QED BY <1>4, <3>2
  <2>3. IsInjective(rank)
    BY <2>2 DEF IsInjective
  <2> QED BY <2>1, <2>3 DEF Injection
<1>6. IsFiniteSet(1..N) /\ Cardinality(1..N) = N
  BY <1>2, FS_Interval
<1>7. rank \in Surjection(E, 1..N)
  BY <1>5, <1>6, FS_Injection
<1>8. \A n \in 1..N : \E r \in E : rank[r] = n
  BY <1>7 DEF Surjection
<1> QED BY <1>2, <1>8

(* A batch selects eligible requests, each once.                            *)
LEMMA SelectedIsDistinct ==
    /\ Selected \in Seq(Request)
    /\ \A i \in 1..Len(Selected) : Selected[i] \in Eligible
    /\ \A i, j \in 1..Len(Selected) : Selected[i] = Selected[j] => i = j
<1> DEFINE N == Cardinality(Eligible)
           L == IF N <= MaximumResults THEN N ELSE MaximumResults + 1
<1>1. N \in Nat /\ MaximumResults \in Nat
  BY PositionsAreFilled, PublisherAssumption
<1>2. L \in Nat /\ L <= N
  BY <1>1
<1>3. Selected = [n \in 1..L |-> CHOOSE r \in Eligible : Position(r) = n]
  BY DEF Selected
<1> HIDE DEF L
<1>4. ASSUME NEW n \in 1..L
      PROVE  Selected[n] \in Eligible /\ Position(Selected[n]) = n
  <2>1. n \in 1..N
    BY <1>1, <1>2
  <2>2. \E r \in Eligible : Position(r) = n
    BY <2>1, PositionsAreFilled
  <2>3. Selected[n] = CHOOSE r \in Eligible : Position(r) = n
    BY <1>3
  <2> QED BY <2>2, <2>3
<1>5. Selected \in [1..L -> Request]
  <2>1. \A n \in 1..L : Selected[n] \in Request
    BY <1>4 DEF Eligible
  <2> QED BY <1>3, <2>1
<1>6. Selected \in Seq(Request) /\ Len(Selected) = L
  BY <1>2, <1>5, FunctionIsSeq
<1> QED BY <1>4, <1>6

(* The batch is a prefix of the selection that fits.                        *)
LEMMA LargestBatchFits ==
    ASSUME NEW s \in Seq(Request), NEW batch, batch = LargestBatch(s)
    PROVE  /\ batch \in Seq(Request) /\ Len(batch) <= Len(s)
           /\ \A i \in 1..Len(batch) : batch[i] = s[i]
           /\ batch # <<>> => Fits(batch)
<1> DEFINE Good(n) == /\ \A m \in 1..n : Fits(SubSeq(s, 1, m))
                      /\ n = Len(s) \/ ~Fits(SubSeq(s, 1, n + 1))
           T == {m \in 1..Len(s) : ~Fits(SubSeq(s, 1, m))}
<1>1. Len(s) \in Nat
  BY LenProperties
<1>2. \E n \in 0..Len(s) : Good(n)
  <2>1. CASE T = {}
    <3>1. \A m \in 1..Len(s) : Fits(SubSeq(s, 1, m))
      BY <2>1
    <3>2. Good(Len(s))
      BY <3>1
    <3> QED BY <1>1, <3>2
  <2>2. CASE T # {}
    <3>0. T \subseteq Nat
      BY <1>1
    <3> HIDE DEF T
    <3>1. PICK m \in T : \A k \in T : m <= k
      BY <2>2, <3>0, LeastNatural
    <3> USE DEF T
    <3>2. m \in Nat /\ m >= 1 /\ m <= Len(s) /\ ~Fits(SubSeq(s, 1, m))
      BY <1>1
    <3>3. PICK n : n = m - 1
      OBVIOUS
    <3>4. n \in 0..Len(s) /\ n + 1 = m
      BY <1>1, <3>2, <3>3
    <3>5. \A k \in 1..n : Fits(SubSeq(s, 1, k))
      <4>1. ASSUME NEW k \in 1..n PROVE Fits(SubSeq(s, 1, k))
        <5>1. k \in 1..Len(s) /\ ~(m <= k)
          BY <1>1, <3>2, <3>4
        <5> QED BY <3>1, <5>1
      <4> QED BY <4>1
    <3>6. Good(n)
      BY <3>2, <3>4, <3>5
    <3> QED BY <3>4, <3>6
  <2> QED BY <2>1, <2>2
<1>3. PICK n : n = CHOOSE k \in 0..Len(s) : Good(k)
  OBVIOUS
<1>4. n \in 0..Len(s) /\ Good(n)
  BY <1>2, <1>3
<1>5. batch = SubSeq(s, 1, n)
  BY <1>3 DEF LargestBatch
<1>6. /\ batch \in Seq(Request) /\ Len(batch) = n
      /\ \A i \in 1..n : batch[i] = s[i]
  <2>1. \A i \in 1..n : s[i] \in Request
    BY <1>1, <1>4, ElementOfSeq
  <2>2. /\ SubSeq(s, 1, n) \in Seq(Request)
        /\ Len(SubSeq(s, 1, n)) = IF 1 <= n THEN n - 1 + 1 ELSE 0
        /\ \A i \in 1..(n - 1 + 1) : SubSeq(s, 1, n)[i] = s[1 + i - 1]
    BY <1>1, <1>4, <2>1, SubSeqProperties
  <2>3. n - 1 + 1 = n /\ \A i \in 1..n : 1 + i - 1 = i
    BY <1>1, <1>4
  <2>4. Len(batch) = n
    BY <1>1, <1>4, <1>5, <2>2
  <2> QED BY <1>5, <2>2, <2>3, <2>4
<1>7. ASSUME batch # <<>> PROVE Fits(batch)
  <2>1. Len(batch) # 0
    BY <1>6, <1>7, EmptySeq
  <2>2. n \in 1..n
    BY <1>1, <1>4, <1>6, <2>1
  <2> QED BY <1>4, <1>5, <2>2
<1> QED BY <1>1, <1>4, <1>6, <1>7

-----------------------------------------------------------------------------
(* What the places of requests imply.                                      *)

(* The types of the outbox rows.                                            *)
LEMMA TableTypes ==
    ASSUME Tables
    PROVE  /\ Len(outbox) \in Nat /\ DOMAIN outbox = 1..Len(outbox)
           /\ \A o \in DOMAIN outbox :
                /\ outbox[o] \in OutboxRow /\ outbox[o].items \in Seq(Request)
                /\ outbox[o].state \in OutboxState /\ outbox[o].due \in BOOLEAN
                /\ outbox[o].attempts \in Nat
                /\ Len(outbox[o].items) \in Nat
                /\ DOMAIN outbox[o].items = 1..Len(outbox[o].items)
                /\ \A i \in DOMAIN outbox[o].items : outbox[o].items[i] \in Request
<1>1. outbox \in Seq(OutboxRow)
  BY DEF Tables
<1>2. Len(outbox) \in Nat /\ DOMAIN outbox = 1..Len(outbox)
  BY <1>1, LenProperties
<1>3. ASSUME NEW o \in DOMAIN outbox
      PROVE  /\ outbox[o] \in OutboxRow /\ outbox[o].items \in Seq(Request)
             /\ outbox[o].state \in OutboxState /\ outbox[o].due \in BOOLEAN
             /\ outbox[o].attempts \in Nat
  <2>1. outbox[o] \in OutboxRow
    BY <1>1, <1>2, ElementOfSeq
  <2> QED BY <2>1 DEF OutboxRow
<1>4. ASSUME NEW s \in Seq(Request)
      PROVE  Len(s) \in Nat /\ DOMAIN s = 1..Len(s) /\ \A i \in DOMAIN s : s[i] \in Request
  BY LenProperties, ElementOfSeq
<1> QED BY <1>2, <1>3, <1>4

(* Batches are disjoint and not empty, so there are no more of them than     *)
(* requests: every outbox row has a slot of its own.                        *)
LEMMA BatchesHaveSlots ==
    ASSUME Tables, RequestsHavePlaces
    PROVE  DOMAIN outbox \subseteq Slot
<1> DEFINE D == DOMAIN outbox
           first == [o \in D |-> outbox[o].items[1]]
<1>1. Len(outbox) \in Nat /\ D = 1..Len(outbox) /\ MaxRequest \in Nat
  BY TableTypes, PublisherAssumption
<1>2. ASSUME NEW o \in D PROVE 1 \in DOMAIN outbox[o].items /\ outbox[o].items[1] \in Request
  <2>1. outbox[o].items # <<>> /\ outbox[o].items \in Seq(Request)
    BY TableTypes DEF RequestsHavePlaces
  <2>2. Len(outbox[o].items) \in Nat \ {0}
    BY <2>1, EmptySeq
  <2>3. 1 \in DOMAIN outbox[o].items
    BY <2>2, TableTypes
  <2> QED BY <2>3, TableTypes
<1>3. first \in Injection(D, Request)
  <2>1. first \in [D -> Request]
    BY <1>2
  <2>2. \A o, p \in D : outbox[o].items[1] = outbox[p].items[1] => o = p
    BY <1>2 DEF RequestsHavePlaces
  <2>3. IsInjective(first)
    BY <2>2 DEF IsInjective
  <2> QED BY <2>1, <2>3 DEF Injection
<1>4. Cardinality(D) <= Cardinality(Request) /\ Cardinality(Request) = MaxRequest
  BY <1>3, RequestsAreNumbers, FS_Injection
<1>5. Cardinality(1..Len(outbox)) = Len(outbox)
  <2>1. Cardinality(1..Len(outbox)) = IF 1 > Len(outbox) THEN 0 ELSE Len(outbox) - 1 + 1
    BY <1>1, FS_Interval
  <2> QED BY <1>1, <2>1
<1>6. Len(outbox) <= MaxRequest
  BY <1>1, <1>4, <1>5
<1> QED BY <1>1, <1>6 DEF Slot, Request

(* Requests that know their place are in one batch at most.                 *)
LEMMA OnePlace ==
    ASSUME Tables, RequestsHavePlaces
    PROVE  OneBatchPerRequest
<1> SUFFICES ASSUME NEW r \in Request
             PROVE  Cardinality({p \in (DOMAIN outbox) \X Request :
                                   /\ p[2] \in DOMAIN outbox[p[1]].items
                                   /\ outbox[p[1]].items[p[2]] = r})
                      = IF request[r].state \in Frozen THEN 1 ELSE 0
  BY DEF OneBatchPerRequest, RequestsHavePlaces, Frozen
<1> DEFINE P == {p \in (DOMAIN outbox) \X Request : /\ p[2] \in DOMAIN outbox[p[1]].items
                                                    /\ outbox[p[1]].items[p[2]] = r}
<1>1. CASE request[r].state \notin Frozen
  <2>1. \A o \in DOMAIN outbox : r \notin Members(o)
    BY <1>1 DEF RequestsHavePlaces
  <2>2. P = {}
    BY <2>1 DEF Members, ToSet
  <2> QED BY <1>1, <2>2, FS_EmptySet
<1>2. CASE request[r].state \in Frozen
  <2>1. PICK o \in DOMAIN outbox : r \in Members(o)
    BY <1>2 DEF RequestsHavePlaces
  <2>2. PICK i \in DOMAIN outbox[o].items : outbox[o].items[i] = r
    BY <2>1 DEF Members, ToSet
  <2>3. i \in Request
    <3> DEFINE s == outbox[o].items
    <3>1. s \in Seq(Request) /\ Len(s) \in Nat /\ DOMAIN s = 1..Len(s)
      BY TableTypes
    <3>2. \A j, k \in DOMAIN s : s[j] = s[k] => j = k
      BY DEF RequestsHavePlaces
    <3> HIDE DEF s
    <3>3. s \in [1..Len(s) -> Request]
      BY <3>1, LenProperties
    <3>4. s \in Injection(1..Len(s), Request)
      BY <3>1, <3>2, <3>3 DEF Injection, IsInjective
    <3>5. Cardinality(1..Len(s)) <= MaxRequest
      BY <3>4, RequestsAreNumbers, FS_Injection
    <3>6. Cardinality(1..Len(s)) = IF 1 > Len(s) THEN 0 ELSE Len(s) - 1 + 1
      BY <3>1, FS_Interval
    <3>7. Len(s) <= MaxRequest /\ MaxRequest \in Nat
      BY <3>1, <3>5, <3>6, PublisherAssumption
    <3>8. i \in 1..Len(s)
      BY <3>1 DEF s
    <3> QED BY <3>1, <3>7, <3>8 DEF Request
  <2>4. <<o, i>> \in P
    BY <2>2, <2>3
  <2>5. \A p \in P : p = <<o, i>>
    <3>1. ASSUME NEW p \in P PROVE p = <<o, i>>
      <4>1. /\ p \in (DOMAIN outbox) \X Request /\ p[1] \in DOMAIN outbox
            /\ p[2] \in DOMAIN outbox[p[1]].items /\ outbox[p[1]].items[p[2]] = r
        OBVIOUS
      <4>2. p[1] = o /\ p[2] = i
        BY <2>2, <4>1 DEF RequestsHavePlaces
      <4>3. p = <<p[1], p[2]>>
        BY <4>1
      <4> QED BY <4>2, <4>3
    <3> QED BY <3>1
  <2>6. P = {<<o, i>>}
    BY <2>4, <2>5
  <2> HIDE DEF P
  <2>7. Cardinality(P) = 1
    BY <2>6, FS_Singleton
  <2> QED BY <1>2, <2>7 DEF P
<1> QED BY <1>1, <1>2

-----------------------------------------------------------------------------
(* Steps that freeze and publish nothing.                                   *)

(* The invariant by its parts.                                              *)
LEMMA Parts ==
    ASSUME PublisherInv
    PROVE  /\ Tables /\ WorkersHoldAttempts /\ RequestsHavePlaces /\ DOMAIN outbox \subseteq Slot
           /\ PublishedIsIrreversible /\ AttemptsAreFenced
           /\ SentIsUnderWay /\ UnclaimedIsUnderWay
BY BatchesHaveSlots DEF PublisherInv

(* Rows keep their items and requests their side of the queue.              *)
LEMMA QuietStep ==
    ASSUME PublisherInv, Tables', WorkersHoldAttempts', AttemptsAreFenced',
           DOMAIN outbox' = DOMAIN outbox,
           \A o \in DOMAIN outbox :
             /\ outbox'[o].items = outbox[o].items
             /\ outbox'[o].state = "irreversible" <=> outbox[o].state = "irreversible"
             /\ event[o] = "irreversible" => event'[o] = "irreversible",
           \A r \in Request :
             /\ request'[r].state = "published" <=> request[r].state = "published"
             /\ request'[r].state = "batched" <=> request[r].state = "batched",
           SentIsUnderWay', UnclaimedIsUnderWay'
    PROVE  PublisherInv'
<1>1. Tables /\ RequestsHavePlaces /\ PublishedIsIrreversible
  BY Parts
<1>2. \A o \in DOMAIN outbox : Members(o)' = Members(o) /\ Members(o) \subseteq Request
  BY <1>1, TableTypes DEF Members, ToSet
<1>3. RequestsHavePlaces'
  <2>1. \A r \in Request : request'[r].state \in Frozen <=>
                             \E o \in DOMAIN outbox' : r \in Members(o)'
    BY <1>1, <1>2 DEF RequestsHavePlaces, Frozen
  <2>2. \A o, p \in DOMAIN outbox' :
          \A i \in DOMAIN outbox'[o].items, j \in DOMAIN outbox'[p].items :
            outbox'[o].items[i] = outbox'[p].items[j] => o = p /\ i = j
    BY <1>1 DEF RequestsHavePlaces
  <2>3. \A o \in DOMAIN outbox' : outbox'[o].items # <<>> /\ Fits(outbox'[o].items)
    BY <1>1 DEF RequestsHavePlaces
  <2> QED BY <2>1, <2>2, <2>3 DEF RequestsHavePlaces
<1>4. PublishedIsIrreversible'
  <2>1. \A o \in DOMAIN outbox : \A r \in Members(o) :
          request'[r].state = "published" <=> outbox'[o].state = "irreversible"
    BY <1>1, <1>2 DEF PublishedIsIrreversible
  <2>2. \A o \in DOMAIN outbox : outbox'[o].state = "irreversible" => event'[o] = "irreversible"
    BY <1>1 DEF PublishedIsIrreversible
  <2> QED BY <1>2, <2>1, <2>2 DEF PublishedIsIrreversible
<1> QED BY <1>3, <1>4 DEF PublisherInv

(* Claims survive what only adds attempts.                                  *)
LEMMA ClaimsStay ==
    ASSUME Tables, DOMAIN outbox \subseteq DOMAIN outbox',
           \A o \in DOMAIN outbox : outbox'[o].attempts \in Nat
                                    /\ outbox[o].attempts <= outbox'[o].attempts
    PROVE  \A a : Claimed(a) => Claimed(a)'
<1> SUFFICES ASSUME NEW a, Claimed(a) PROVE Claimed(a)'
  OBVIOUS
<1>1. a \in Attempt /\ a.outbox \in DOMAIN outbox /\ a.attempt \in 1..outbox[a.outbox].attempts
  BY DEF Claimed
<1>2. PICK o : o = a.outbox
  OBVIOUS
<1>3. /\ o \in DOMAIN outbox /\ outbox[o].attempts \in Nat /\ outbox'[o].attempts \in Nat
      /\ outbox[o].attempts <= outbox'[o].attempts
  BY <1>1, <1>2, TableTypes
<1>4. a.attempt \in 1..outbox'[o].attempts
  BY <1>1, <1>2, <1>3
<1> QED BY <1>1, <1>2, <1>3, <1>4 DEF Claimed

(* A worker keeps its attempt, or drops it and goes on.                     *)
LEMMA WorkerMoves ==
    ASSUME WorkersHoldAttempts, AttemptsAreFenced, \A a : Claimed(a) => Claimed(a)',
           NEW w \in Worker, NEW label \in Label, pc' = [pc EXCEPT ![w] = label],
           \/ job' = job /\ (label \in Holding <=> pc[w] \in Holding)
           \/ job' = [job EXCEPT ![w] = NoJob] /\ label \notin Holding
    PROVE  WorkersHoldAttempts' /\ AttemptsAreFenced'
<1>1. pc \in [Worker -> Label] /\ DOMAIN job = Worker
  BY DEF WorkersHoldAttempts
<1>2. /\ pc' \in [Worker -> Label] /\ pc'[w] = label
      /\ \A v \in Worker : v # w => pc'[v] = pc[v]
  BY <1>1
<1>3. /\ DOMAIN job' = Worker
      /\ \A v \in Worker : job'[v] = job[v] \/ (v = w /\ job'[v] = NoJob)
      /\ \A v \in Worker : v # w => job'[v] = job[v]
  BY <1>1
<1>4. \A v \in Worker : IF pc[v] \in Holding THEN Claimed(job[v]) ELSE job[v] = NoJob
  BY DEF WorkersHoldAttempts
<1>5. \A v \in Worker : IF pc'[v] \in Holding THEN Claimed(job[v])' ELSE job'[v] = NoJob
  <2>1. ASSUME NEW v \in Worker, v # w
        PROVE  IF pc'[v] \in Holding THEN Claimed(job[v])' ELSE job'[v] = NoJob
    <3>1. PICK a : a = job[v]
      OBVIOUS
    <3>2. IF pc'[v] \in Holding THEN Claimed(a)' ELSE a = NoJob
      BY <1>2, <1>4, <2>1, <3>1
    <3>3. a = job'[v]
      BY <1>3, <2>1, <3>1
    <3> QED BY <3>2, <3>3 DEF Claimed
  <2>2. CASE job' = job /\ (label \in Holding <=> pc[w] \in Holding)
    <3>1. PICK a : a = job[w]
      OBVIOUS
    <3>2. IF pc'[w] \in Holding THEN Claimed(a)' ELSE a = NoJob
      BY <1>2, <1>4, <2>2, <3>1
    <3>3. a = job'[w]
      BY <2>2, <3>1
    <3>4. IF pc'[w] \in Holding THEN Claimed(job[w])' ELSE job'[w] = NoJob
      BY <3>2, <3>3 DEF Claimed
    <3> QED BY <2>1, <3>4
  <2>3. CASE job' = [job EXCEPT ![w] = NoJob] /\ label \notin Holding
    <3>1. pc'[w] \notin Holding /\ job'[w] = NoJob
      BY <1>1, <1>2, <2>3
    <3> QED BY <2>1, <3>1
  <2> QED BY <2>2, <2>3
<1>6. AttemptsAreFenced'
  BY <1>3 DEF AttemptsAreFenced
<1> QED BY <1>2, <1>3, <1>5, <1>6 DEF WorkersHoldAttempts

(* Workers that do not move keep what they hold while claims stay.          *)
LEMMA WorkersStay ==
    ASSUME WorkersHoldAttempts, AttemptsAreFenced, \A a : Claimed(a) => Claimed(a)',
           pc' = pc, job' = job
    PROVE  WorkersHoldAttempts' /\ AttemptsAreFenced'
<1>1. \A v \in Worker : IF pc'[v] \in Holding THEN Claimed(job[v])' ELSE job'[v] = NoJob
  <2>1. SUFFICES ASSUME NEW v \in Worker
                 PROVE  IF pc'[v] \in Holding THEN Claimed(job[v])' ELSE job'[v] = NoJob
    OBVIOUS
  <2>2. PICK a : a = job[v]
    OBVIOUS
  <2>3. IF pc'[v] \in Holding THEN Claimed(a)' ELSE a = NoJob
    BY <2>2 DEF WorkersHoldAttempts
  <2> QED BY <2>2, <2>3 DEF Claimed
<1> QED BY <1>1 DEF WorkersHoldAttempts, AttemptsAreFenced

(* One row changes its state, its lease or its attempt.                      *)
LEMMA RowUpdate ==
    ASSUME Tables, NEW o \in DOMAIN outbox, NEW row \in OutboxRow,
           outbox' = [outbox EXCEPT ![o] = row]
    PROVE  /\ outbox' \in Seq(OutboxRow) /\ DOMAIN outbox' = DOMAIN outbox
           /\ outbox'[o] = row
           /\ \A p \in DOMAIN outbox : p # o => outbox'[p] = outbox[p]
<1>1. /\ outbox \in Seq(OutboxRow) /\ DOMAIN outbox = 1..Len(outbox)
  BY TableTypes DEF Tables
<1>2. outbox' \in Seq(OutboxRow) /\ Len(outbox') = Len(outbox)
  BY <1>1, ExceptSeq
<1>3. DOMAIN outbox' = 1..Len(outbox')
  BY <1>2, LenProperties
<1> QED BY <1>1, <1>2, <1>3

(* What is under way stays under way until it is lost by an expiry.          *)
LEMMA UnderWayStays ==
    ASSUME PublisherInv, expiries' = 0 => expiries = 0,
           \A o \in Slot : expiries' = 0 /\ Known(o) => Known(o)',
           \A o \in DOMAIN outbox' : outbox'[o].state = "broadcast" =>
             \/ o \in DOMAIN outbox /\ outbox[o].state = "broadcast"
             \/ expiries' = 0 => Known(o)',
           \A w \in Worker : pc'[w] = "sent" => pc[w] = "sent" /\ job'[w] = job[w]
    PROVE  SentIsUnderWay' /\ UnclaimedIsUnderWay'
<1>0. /\ WorkersHoldAttempts /\ DOMAIN outbox \subseteq Slot
      /\ SentIsUnderWay /\ UnclaimedIsUnderWay
  BY Parts
<1>1. ASSUME NEW w \in Worker, pc'[w] = "sent", expiries' = 0
      PROVE  Known(job[w].outbox)'
  <2>1. PICK o : o = job[w].outbox
    OBVIOUS
  <2>2. pc[w] = "sent" /\ expiries = 0 /\ o = job'[w].outbox
    BY <1>1, <2>1
  <2>3. o \in Slot
    BY <1>0, <2>1, <2>2 DEF WorkersHoldAttempts, Holding, Claimed
  <2>4. Known(o)'
    BY <1>0, <1>1, <2>1, <2>2, <2>3 DEF SentIsUnderWay
  <2> QED BY <2>2, <2>4 DEF Known
<1>2. ASSUME NEW o \in DOMAIN outbox', outbox'[o].state = "broadcast", expiries' = 0
      PROVE  pool'[o] > 0 \/ event'[o] # "absent"
  <2>1. CASE o \in DOMAIN outbox /\ outbox[o].state = "broadcast"
    <3>1. Known(o) /\ o \in Slot
      BY <1>0, <1>2, <2>1 DEF UnclaimedIsUnderWay, Known
    <3> QED BY <1>2, <3>1 DEF Known
  <2>2. CASE Known(o)'
    BY <2>2 DEF Known
  <2> QED BY <1>2, <2>1, <2>2
<1> QED BY <1>1, <1>2 DEF SentIsUnderWay, UnclaimedIsUnderWay

(* Requests change, but not what is frozen.                                 *)
LEMMA RequestStep ==
    ASSUME PublisherInv, request' \in [Request -> RequestRow],
           \A r \in Request :
             /\ request'[r].state = "published" <=> request[r].state = "published"
             /\ request'[r].state = "batched" <=> request[r].state = "batched",
           UNCHANGED <<outbox, event, pool, journal, pc, job, expiries>>
    PROVE  PublisherInv'
<1>0. Tables /\ WorkersHoldAttempts /\ AttemptsAreFenced
  BY Parts
<1>1. \A a : Claimed(a) => Claimed(a)'
  BY DEF Claimed
<1>2. Tables'
  BY <1>0, <1>1 DEF Tables
<1>3. WorkersHoldAttempts' /\ AttemptsAreFenced'
  BY <1>0, <1>1, WorkersStay
<1>4. SentIsUnderWay' /\ UnclaimedIsUnderWay'
  BY UnderWayStays DEF Known
<1> QED BY <1>2, <1>3, <1>4, QuietStep

(* A result is committed, or the delay of a request passes.                 *)
LEMMA CommitResultKeeps ==
    ASSUME PublisherInv, NEW r \in Request, CommitResult(r) \/ RequestDue(r)
    PROVE  PublisherInv'
<1>1. request \in [Request -> RequestRow]
  BY Parts DEF Tables
<1>2. UNCHANGED <<outbox, event, pool, journal, pc, job, expiries>>
  BY DEF CommitResult, RequestDue, chain, workers, bounds
<1>3. CASE CommitResult(r)
  <2>1. PICK row : row = [request[r] EXCEPT !.state = "queued"]
    OBVIOUS
  <2>2. row \in RequestRow /\ row.state = "queued"
    BY <1>1, <2>1 DEF RequestRow
  <2>3. request' = [request EXCEPT ![r] = row] /\ request[r].state = "absent"
    BY <1>1, <1>3, <2>1 DEF CommitResult
  <2>4. request' \in [Request -> RequestRow]
    BY <1>1, <2>2, <2>3
  <2>5. request'[r].state = "queued" /\ \A q \in Request : q # r => request'[q] = request[q]
    BY <1>1, <2>2, <2>3
  <2>6. \A q \in Request :
          /\ request'[q].state = "published" <=> request[q].state = "published"
          /\ request'[q].state = "batched" <=> request[q].state = "batched"
    BY <2>3, <2>5
  <2> QED BY <1>2, <2>4, <2>6, RequestStep
<1>4. CASE RequestDue(r)
  <2>1. PICK row : row = [request[r] EXCEPT !.due = TRUE]
    OBVIOUS
  <2>2. row \in RequestRow /\ row.state = request[r].state
    BY <1>1, <2>1 DEF RequestRow
  <2>3. request' = [request EXCEPT ![r] = row]
    BY <1>1, <1>4, <2>1 DEF RequestDue
  <2>4. request' \in [Request -> RequestRow]
    BY <1>1, <2>2, <2>3
  <2>5. \A q \in Request : request'[q].state = request[q].state
    BY <1>1, <2>2, <2>3
  <2> QED BY <1>2, <2>4, <2>5, RequestStep
<1> QED BY <1>3, <1>4

(* The chain moves: nothing irreversible is undone, and what leaves the pool *)
(* for a block has an event.                                               *)
LEMMA ChainStep ==
    ASSUME PublisherInv, event' \in [Slot -> Feed!State], pool' \in [Slot -> Nat],
           \A o \in Slot : event[o] = "irreversible" => event'[o] = "irreversible",
           expiries' \in Nat, expiries' = 0 => expiries = 0,
           \A o \in Slot : expiries' = 0 /\ Known(o) => Known(o)',
           UNCHANGED <<request, outbox, journal, pc, job>>
    PROVE  PublisherInv'
<1>0. Tables /\ WorkersHoldAttempts /\ AttemptsAreFenced /\ DOMAIN outbox \subseteq Slot
  BY Parts
<1>1. \A a : Claimed(a) => Claimed(a)'
  BY DEF Claimed
<1>2. Tables'
  BY <1>0, <1>1 DEF Tables
<1>3. WorkersHoldAttempts' /\ AttemptsAreFenced'
  BY <1>0, <1>1, WorkersStay
<1>4. SentIsUnderWay' /\ UnclaimedIsUnderWay'
  BY UnderWayStays
<1> QED BY <1>0, <1>2, <1>3, <1>4, QuietStep

(* The chain includes, forks out, finalizes or drops a transaction.         *)
LEMMA ChainKeeps ==
    ASSUME PublisherInv, NEW o \in Slot,
           Include(o) \/ Fork(o) \/ BecomeIrreversible(o) \/ Expire(o)
    PROVE  PublisherInv'
<1>1. event \in [Slot -> Feed!State] /\ pool \in [Slot -> Nat] /\ expiries \in Nat
  BY Parts DEF Tables
<1>2. UNCHANGED <<request, outbox, journal, pc, job>>
  BY DEF Include, Fork, BecomeIrreversible, Expire, workers
<1>3. CASE Include(o)
  <2>1. /\ event' \in [Slot -> Feed!State] /\ event'[o] \in {"irreversible", "included"}
        /\ event[o] = "irreversible" => event'[o] = "irreversible"
        /\ \A p \in Slot : p # o => event'[p] = event[p]
    BY <1>1, <1>3 DEF Include, Feed!State
  <2>2. pool' \in [Slot -> Nat] /\ \A p \in Slot : p # o => pool'[p] = pool[p]
    BY <1>1, <1>3 DEF Include
  <2>3. expiries' = expiries
    BY <1>3 DEF Include, bounds
  <2> QED BY <1>1, <1>2, <2>1, <2>2, <2>3, ChainStep DEF Known
<1>4. CASE Fork(o)
  <2>1. /\ event' \in [Slot -> Feed!State] /\ event'[o] = "reverted" /\ event[o] = "included"
        /\ \A p \in Slot : p # o => event'[p] = event[p]
    BY <1>1, <1>4 DEF Fork, Feed!State
  <2>2. pool' \in [Slot -> Nat] /\ \A p \in Slot : p # o => pool'[p] = pool[p]
    BY <1>1, <1>4 DEF Fork
  <2>3. expiries' = expiries
    BY <1>4 DEF Fork
  <2> QED BY <1>1, <1>2, <2>1, <2>2, <2>3, ChainStep DEF Known
<1>5. CASE BecomeIrreversible(o)
  <2>1. /\ event' \in [Slot -> Feed!State] /\ event'[o] = "irreversible"
        /\ \A p \in Slot : p # o => event'[p] = event[p]
    BY <1>1, <1>5 DEF BecomeIrreversible, Feed!State
  <2>2. pool' = pool /\ expiries' = expiries
    BY <1>5 DEF BecomeIrreversible, bounds
  <2> QED BY <1>1, <1>2, <2>1, <2>2, ChainStep DEF Known
<1>6. CASE Expire(o)
  <2>1. pool' \in [Slot -> Nat] /\ event' = event
    BY <1>1, <1>6 DEF Expire
  <2>2. expiries' \in Nat /\ expiries' # 0
    BY <1>1, <1>6 DEF Expire
  <2> QED BY <1>1, <1>2, <2>1, <2>2, ChainStep
<1> QED BY <1>3, <1>4, <1>5, <1>6

(* A row changes while its items stay; a worker moves or not.                *)
LEMMA RowStep ==
    ASSUME PublisherInv, NEW o \in DOMAIN outbox, NEW row \in OutboxRow,
           outbox' = [outbox EXCEPT ![o] = row],
           row.items = outbox[o].items, outbox[o].attempts <= row.attempts,
           row.state = "irreversible" <=> outbox[o].state = "irreversible",
           row.state = "broadcast" =>
             outbox[o].state = "broadcast" \/ (expiries = 0 => Known(o)),
           (\A a : Claimed(a) => Claimed(a)') => WorkersHoldAttempts' /\ AttemptsAreFenced',
           \A w \in Worker : pc'[w] = "sent" => pc[w] = "sent" /\ job'[w] = job[w],
           UNCHANGED <<request, event, pool, journal, expiries>>
    PROVE  PublisherInv'
<1>0. Tables /\ DOMAIN outbox \subseteq Slot
  BY Parts
<1>1. /\ outbox' \in Seq(OutboxRow) /\ DOMAIN outbox' = DOMAIN outbox /\ outbox'[o] = row
      /\ \A p \in DOMAIN outbox : p # o => outbox'[p] = outbox[p]
  BY <1>0, RowUpdate
<1>2. row.attempts \in Nat /\ \A p \in DOMAIN outbox : outbox[p].attempts \in Nat
  BY <1>0, TableTypes DEF OutboxRow
<1>3. \A a : Claimed(a) => Claimed(a)'
  BY <1>0, <1>1, <1>2, ClaimsStay
<1>4. Tables'
  BY <1>0, <1>1, <1>3 DEF Tables
<1>5. SentIsUnderWay' /\ UnclaimedIsUnderWay'
  BY <1>1, UnderWayStays DEF Known
<1> QED BY <1>1, <1>3, <1>4, <1>5, QuietStep

(* A lease or a backoff passes.                                             *)
LEMMA OutboxDueKeeps ==
    ASSUME PublisherInv, NEW o \in Slot, OutboxDue(o)
    PROVE  PublisherInv'
<1>0. Tables /\ WorkersHoldAttempts /\ AttemptsAreFenced /\ o \in DOMAIN outbox
  BY Parts DEF OutboxDue
<1>1. PICK row : row = [outbox[o] EXCEPT !.due = TRUE]
  OBVIOUS
<1>2. outbox[o] \in OutboxRow /\ outbox[o].attempts \in Nat
  BY <1>0, TableTypes
<1>3. /\ row \in OutboxRow /\ row.items = outbox[o].items /\ row.state = outbox[o].state
      /\ row.attempts = outbox[o].attempts
  BY <1>1, <1>2 DEF OutboxRow
<1>4. outbox' = [outbox EXCEPT ![o] = row]
  BY <1>1 DEF OutboxDue
<1>5. UNCHANGED <<request, event, pool, journal, expiries, pc, job>>
  BY DEF OutboxDue, chain, workers, bounds, Fault
<1>6. (\A a : Claimed(a) => Claimed(a)') => WorkersHoldAttempts' /\ AttemptsAreFenced'
  BY <1>0, <1>5, WorkersStay
<1>7. outbox[o].attempts <= row.attempts
  BY <1>2, <1>3
<1> QED BY <1>0, <1>3, <1>4, <1>5, <1>6, <1>7, RowStep

-----------------------------------------------------------------------------
(* Steps of a worker.                                                      *)

(* A worker moves on without touching a row; it may journal its attempt or   *)
(* put its transaction in the pool.                                         *)
LEMMA MoveStep ==
    ASSUME PublisherInv, NEW w \in Worker, NEW label \in Label,
           pc' = [pc EXCEPT ![w] = label],
           \/ job' = job /\ (label \in Holding <=> pc[w] \in Holding)
           \/ job' = [job EXCEPT ![w] = NoJob] /\ label \notin Holding,
           label # "sent",
           journal' \subseteq journal \cup {job[w]}, journal' # journal => pc[w] \in Holding,
           pool' \in [Slot -> Nat], \A o \in Slot : pool[o] <= pool'[o],
           UNCHANGED <<request, outbox, event, expiries>>
    PROVE  PublisherInv'
<1>0. Tables /\ WorkersHoldAttempts /\ AttemptsAreFenced
  BY Parts
<1>1. \A a : Claimed(a) => Claimed(a)'
  BY DEF Claimed
<1>2. WorkersHoldAttempts' /\ AttemptsAreFenced'
  BY <1>0, <1>1, WorkerMoves
<1>3. pc[w] \in Holding => Claimed(job[w])
  BY <1>0 DEF WorkersHoldAttempts
<1>4. \A a \in journal' : Claimed(a)'
  BY <1>0, <1>1, <1>3 DEF Tables
<1>5. Tables'
  BY <1>0, <1>4 DEF Tables
<1>6. \A o \in Slot : Known(o) => Known(o)'
  BY <1>0 DEF Known, Tables
<1>7. \A v \in Worker : pc'[v] = "sent" => pc[v] = "sent" /\ job'[v] = job[v]
  BY <1>0 DEF WorkersHoldAttempts
<1>8. SentIsUnderWay' /\ UnclaimedIsUnderWay'
  BY <1>6, <1>7, UnderWayStays
<1> QED BY <1>2, <1>5, <1>8, QuietStep

(* A worker that gives up its attempt leaves the tables alone.              *)
LEMMA IdleKeeps ==
    ASSUME PublisherInv, NEW w \in Worker, Idle(w),
           UNCHANGED <<request, outbox, event, pool, journal, expiries>>
    PROVE  PublisherInv'
<1>1. pool \in [Slot -> Nat]
  BY Parts DEF Tables
<1>2. "idle" \in Label /\ "idle" \notin Holding
  BY DEF Label, Holding
<1>3. pc' = [pc EXCEPT ![w] = "idle"] /\ job' = [job EXCEPT ![w] = NoJob]
  BY DEF Idle, Goto
<1>4. \A o \in Slot : pool[o] <= pool'[o]
  BY <1>1
<1> QED BY <1>1, <1>2, <1>3, <1>4, MoveStep

(* A worker is lost.                                                        *)
LEMMA InterruptKeeps ==
    ASSUME PublisherInv, NEW w \in Worker, Interrupt(w)
    PROVE  PublisherInv'
BY IdleKeeps DEF Interrupt, Fault, chain

(* The signing attempt is journaled.                                        *)
LEMMA RecordKeeps ==
    ASSUME PublisherInv, NEW w \in Worker, RecordSigningAttempt(w)
    PROVE  PublisherInv'
<1>1. pool \in [Slot -> Nat] /\ pc[w] = "prepare"
  BY Parts DEF Tables, RecordSigningAttempt
<1>2. UNCHANGED <<request, outbox, event, pool, expiries, job>>
  BY DEF RecordSigningAttempt, chain, bounds, Fault
<1>3. \A o \in Slot : pool[o] <= pool'[o]
  BY <1>1, <1>2
<1>4. PICK label \in {"journaled", "failed"} :
        pc' = [pc EXCEPT ![w] = label] /\ journal' \in {journal, journal \cup {job[w]}}
  BY DEF RecordSigningAttempt, Goto
<1>5. label \in Label /\ label \in Holding /\ pc[w] \in Holding /\ label # "sent"
  BY <1>1 DEF Label, Holding
<1>6. journal' \subseteq journal \cup {job[w]}
  BY <1>4
<1> QED BY <1>1, <1>2, <1>3, <1>4, <1>5, <1>6, MoveStep

(* The event is signed and broadcast, whatever answer comes back.           *)
LEMMA BroadcastKeeps ==
    ASSUME PublisherInv, NEW w \in Worker, BroadcastOfficialEvent(w)
    PROVE  PublisherInv'
<1>0. /\ Tables /\ WorkersHoldAttempts /\ AttemptsAreFenced /\ DOMAIN outbox \subseteq Slot
      /\ SentIsUnderWay /\ UnclaimedIsUnderWay
  BY Parts
<1>1. pc[w] = "journaled" /\ pool \in [Slot -> Nat] /\ pc \in [Worker -> Label]
  BY <1>0 DEF Tables, WorkersHoldAttempts, BroadcastOfficialEvent
<1>2. PICK o : o = job[w].outbox
  OBVIOUS
<1>3. o \in Slot
  BY <1>0, <1>1, <1>2 DEF WorkersHoldAttempts, Holding, Claimed
<1>4. UNCHANGED <<request, outbox, event, journal, job, expiries>>
  BY DEF BroadcastOfficialEvent, bounds, Fault
<1>5. \/ pool' = pool /\ pc' = [pc EXCEPT ![w] = "failed"]
      \/ pool' = [pool EXCEPT ![o] = @ + 1] /\ pc' = [pc EXCEPT ![w] = "failed"]
      \/ pool' = [pool EXCEPT ![o] = @ + 1] /\ pc' = [pc EXCEPT ![w] = "sent"]
  BY <1>2 DEF BroadcastOfficialEvent, Goto, AfterFailedBroadcast
<1>6. pool' \in [Slot -> Nat] /\ \A p \in Slot : pool[p] <= pool'[p]
  BY <1>1, <1>3, <1>5
<1>7. CASE pc' = [pc EXCEPT ![w] = "failed"]
  <2>1. "failed" \in Label /\ "failed" \in Holding /\ pc[w] \in Holding
    BY <1>1 DEF Label, Holding
  <2> QED BY <1>4, <1>6, <1>7, <2>1, MoveStep
<1>8. CASE pool' = [pool EXCEPT ![o] = @ + 1] /\ pc' = [pc EXCEPT ![w] = "sent"]
  <2>1. "sent" \in Label /\ "sent" \in Holding /\ pc[w] \in Holding
    BY <1>1 DEF Label, Holding
  <2>2. \A a : Claimed(a) => Claimed(a)'
    BY <1>4 DEF Claimed
  <2>3. WorkersHoldAttempts' /\ AttemptsAreFenced'
    BY <1>0, <1>4, <1>8, <2>1, <2>2, WorkerMoves
  <2>4. Tables'
    BY <1>0, <1>4, <1>6, <2>2 DEF Tables
  <2>5. \A p \in Slot : Known(p) => Known(p)'
    BY <1>1, <1>4, <1>6 DEF Known
  <2>6. pool'[o] > 0
    BY <1>1, <1>3, <1>8
  <2>7. UnclaimedIsUnderWay'
    BY <1>0, <1>4, <2>5 DEF UnclaimedIsUnderWay, Known
  <2>8. ASSUME NEW v \in Worker, pc'[v] = "sent", expiries' = 0 PROVE Known(job[v].outbox)'
    <3>1. CASE v = w
      BY <1>2, <1>4, <2>6, <3>1 DEF Known
    <3>2. CASE v # w
      <4>1. PICK p : p = job[v].outbox
        OBVIOUS
      <4>2. pc[v] = "sent"
        BY <1>1, <1>8, <2>8, <3>2
      <4>3. p \in Slot /\ Known(p)
        BY <1>0, <1>4, <2>8, <4>1, <4>2
           DEF WorkersHoldAttempts, Holding, Claimed, SentIsUnderWay
      <4> QED BY <1>4, <2>5, <4>1, <4>3 DEF Known
    <3> QED BY <3>1, <3>2
  <2>9. SentIsUnderWay'
    BY <2>8 DEF SentIsUnderWay
  <2> QED BY <1>4, <2>3, <2>4, <2>7, <2>9, QuietStep
<1> QED BY <1>5, <1>7, <1>8

(* The trigger refuses to take an irreversible row back.                     *)
LEMMA MarkBroadcastKeeps ==
    ASSUME PublisherInv, NEW w \in Worker, MarkBroadcast(w)
    PROVE  PublisherInv'
<1>0. Tables /\ WorkersHoldAttempts /\ AttemptsAreFenced /\ SentIsUnderWay
  BY Parts
<1>1. pc[w] = "sent" /\ pool \in [Slot -> Nat] /\ pc \in [Worker -> Label]
  BY <1>0 DEF Tables, WorkersHoldAttempts, MarkBroadcast
<1>2. PICK o : o = job[w].outbox
  OBVIOUS
<1>3. o \in DOMAIN outbox /\ (expiries = 0 => Known(o))
  BY <1>0, <1>1, <1>2 DEF WorkersHoldAttempts, Holding, Claimed, SentIsUnderWay
<1>4. UNCHANGED <<request, event, pool, journal, expiries>>
  BY DEF MarkBroadcast, chain, bounds, Fault
<1>5. CASE pc' = [pc EXCEPT ![w] = "failed"] /\ UNCHANGED <<outbox, job>>
  <2>1. "failed" \in Label /\ "failed" \in Holding /\ pc[w] \in Holding
    BY <1>1 DEF Label, Holding
  <2>2. \A p \in Slot : pool[p] <= pool'[p]
    BY <1>1, <1>4
  <2> QED BY <1>1, <1>4, <1>5, <2>1, <2>2, MoveStep
<1>6. CASE /\ LegalTransition(outbox[o].state, "broadcast") /\ Idle(w)
           /\ outbox' = [outbox EXCEPT ![o].state = "broadcast", ![o].due = TRUE]
  <2>1. PICK row : row = [outbox[o] EXCEPT !.state = "broadcast", !.due = TRUE]
    OBVIOUS
  <2>2. outbox[o] \in OutboxRow /\ outbox[o].attempts \in Nat
    BY <1>0, <1>3, TableTypes
  <2>3. /\ row \in OutboxRow /\ row.items = outbox[o].items /\ row.state = "broadcast"
        /\ row.attempts = outbox[o].attempts
    BY <2>1, <2>2 DEF OutboxRow, OutboxState
  <2>4. outbox' = [outbox EXCEPT ![o] = row]
    BY <1>6, <2>1
  <2>5. outbox[o].state # "irreversible"
    BY <1>6 DEF LegalTransition
  <2>6. pc' = [pc EXCEPT ![w] = "idle"] /\ job' = [job EXCEPT ![w] = NoJob]
    BY <1>6 DEF Idle, Goto
  <2>7. "idle" \in Label /\ "idle" \notin Holding
    BY DEF Label, Holding
  <2>8. (\A a : Claimed(a) => Claimed(a)') => WorkersHoldAttempts' /\ AttemptsAreFenced'
    BY <1>0, <2>6, <2>7, WorkerMoves
  <2>9. \A v \in Worker : pc'[v] = "sent" => pc[v] = "sent" /\ job'[v] = job[v]
    BY <1>0, <1>1, <2>6 DEF WorkersHoldAttempts
  <2>10. outbox[o].attempts <= row.attempts
    BY <2>2, <2>3
  <2> QED BY <1>3, <1>4, <2>3, <2>4, <2>5, <2>8, <2>9, <2>10, RowStep
<1> QED BY <1>2, <1>5, <1>6 DEF MarkBroadcast, Goto

(* A failed attempt is put back for a retry.                                *)
LEMMA MarkRetryableKeeps ==
    ASSUME PublisherInv, NEW w \in Worker, MarkRetryableFailure(w)
    PROVE  PublisherInv'
<1>0. Tables /\ WorkersHoldAttempts /\ AttemptsAreFenced
  BY Parts
<1>1. pc[w] = "failed" /\ pc \in [Worker -> Label] /\ Idle(w)
  BY <1>0 DEF WorkersHoldAttempts, MarkRetryableFailure
<1>2. PICK o : o = job[w].outbox
  OBVIOUS
<1>3. o \in DOMAIN outbox
  BY <1>0, <1>1, <1>2 DEF WorkersHoldAttempts, Holding, Claimed
<1>4. UNCHANGED <<request, event, pool, journal, expiries>>
  BY DEF MarkRetryableFailure, chain, bounds
<1>5. CASE UNCHANGED outbox
  BY <1>1, <1>4, <1>5, IdleKeeps
<1>6. CASE /\ LegalTransition(outbox[o].state, "retryable_failed")
           /\ outbox' = [outbox EXCEPT ![o].state = "retryable_failed", ![o].due = FALSE]
  <2>1. PICK row : row = [outbox[o] EXCEPT !.state = "retryable_failed", !.due = FALSE]
    OBVIOUS
  <2>2. outbox[o] \in OutboxRow /\ outbox[o].attempts \in Nat
    BY <1>0, <1>3, TableTypes
  <2>3. /\ row \in OutboxRow /\ row.items = outbox[o].items /\ row.state = "retryable_failed"
        /\ row.attempts = outbox[o].attempts
    BY <2>1, <2>2 DEF OutboxRow, OutboxState, Claimable
  <2>4. outbox' = [outbox EXCEPT ![o] = row]
    BY <1>6, <2>1
  <2>5. outbox[o].state # "irreversible"
    BY <1>6 DEF LegalTransition
  <2>6. pc' = [pc EXCEPT ![w] = "idle"] /\ job' = [job EXCEPT ![w] = NoJob]
    BY <1>1 DEF Idle, Goto
  <2>7. "idle" \in Label /\ "idle" \notin Holding
    BY DEF Label, Holding
  <2>8. (\A a : Claimed(a) => Claimed(a)') => WorkersHoldAttempts' /\ AttemptsAreFenced'
    BY <1>0, <2>6, <2>7, WorkerMoves
  <2>9. \A v \in Worker : pc'[v] = "sent" => pc[v] = "sent" /\ job'[v] = job[v]
    BY <1>0, <1>1, <2>6 DEF WorkersHoldAttempts
  <2>10. outbox[o].attempts <= row.attempts
    BY <2>2, <2>3
  <2> QED BY <1>3, <1>4, <2>3, <2>4, <2>5, <2>8, <2>9, <2>10, RowStep
<1> QED BY <1>2, <1>5, <1>6 DEF MarkRetryableFailure

(* A claim takes the next attempt number, which no worker has had.           *)
LEMMA ClaimKeeps ==
    ASSUME PublisherInv, NEW w \in Worker, ClaimNextOutbox(w)
    PROVE  PublisherInv'
<1>0. Tables /\ WorkersHoldAttempts /\ AttemptsAreFenced
  BY Parts
<1>1. pc[w] = "claim" /\ pc \in [Worker -> Label] /\ DOMAIN job = Worker
  BY <1>0 DEF WorkersHoldAttempts, ClaimNextOutbox
<1>2. UNCHANGED <<request, event, pool, journal, expiries>>
  BY DEF ClaimNextOutbox, chain, bounds
<1>3. CASE Idle(w) /\ UNCHANGED outbox
  BY <1>2, <1>3, IdleKeeps
<1>4. ASSUME NEW o \in Waiting,
             outbox' = [outbox EXCEPT ![o].attempts = NextAttempt(o), ![o].due = FALSE],
             job' = [job EXCEPT ![w] = [outbox |-> o, attempt |-> NextAttempt(o)]],
             pc' = [pc EXCEPT ![w] = "prepare"]
      PROVE  PublisherInv'
  <2>1. o \in DOMAIN outbox
    BY DEF Waiting
  <2>2. /\ outbox[o] \in OutboxRow /\ outbox[o].attempts \in Nat
        /\ DOMAIN outbox = 1..Len(outbox)
    BY <1>0, <2>1, TableTypes
  <2>3. PICK n : n = NextAttempt(o)
    OBVIOUS
  <2>4. n = outbox[o].attempts + 1 /\ n \in Nat /\ n >= 1
    BY <2>2, <2>3 DEF NextAttempt
  <2>5. PICK row : row = [outbox[o] EXCEPT !.attempts = n, !.due = FALSE]
    OBVIOUS
  <2>6. /\ row \in OutboxRow /\ row.items = outbox[o].items /\ row.state = outbox[o].state
        /\ row.attempts = n
    BY <2>2, <2>4, <2>5 DEF OutboxRow
  <2>7. outbox' = [outbox EXCEPT ![o] = row]
    BY <1>4, <2>3, <2>5
  <2>8. outbox'[o] = row /\ DOMAIN outbox' = DOMAIN outbox
    BY <1>0, <2>1, <2>6, <2>7, RowUpdate
  <2>9. PICK a : a = [outbox |-> o, attempt |-> n]
    OBVIOUS
  <2>10. a.outbox = o /\ a.attempt = n /\ a \in Attempt /\ a # NoJob
    BY <2>1, <2>2, <2>4, <2>9, PublisherAssumption DEF Attempt
  <2>11. Claimed(a)'
    BY <2>1, <2>4, <2>6, <2>8, <2>10 DEF Claimed
  <2>12. job'[w] = a /\ DOMAIN job' = Worker /\ \A v \in Worker : v # w => job'[v] = job[v]
    BY <1>1, <1>4, <2>3, <2>9
  <2>13. /\ pc' \in [Worker -> Label] /\ pc'[w] = "prepare"
         /\ \A v \in Worker : v # w => pc'[v] = pc[v]
    BY <1>1, <1>4 DEF Label
  <2>14. ASSUME NEW v \in Worker, v # w PROVE job[v] # a
    <3>1. CASE job[v] = NoJob
      BY <2>10, <3>1
    <3>2. CASE Claimed(job[v])
      <4>1. job[v].attempt \in 1..outbox[job[v].outbox].attempts
        BY <3>2 DEF Claimed
      <4>2. job[v] = a => n \in 1..outbox[o].attempts
        BY <2>10, <4>1
      <4> QED BY <2>2, <2>4, <4>2
    <3> QED BY <1>0, <3>1, <3>2 DEF WorkersHoldAttempts
  <2>15. AttemptsAreFenced'
    BY <1>0, <2>12, <2>14 DEF AttemptsAreFenced
  <2>16. ASSUME \A b : Claimed(b) => Claimed(b)' PROVE WorkersHoldAttempts'
    <3>1. ASSUME NEW v \in Worker
          PROVE  IF pc'[v] \in Holding THEN Claimed(job[v])' ELSE job'[v] = NoJob
      <4>1. PICK b : b = job'[v]
        OBVIOUS
      <4>2. IF pc'[v] \in Holding THEN Claimed(b)' ELSE b = NoJob
        <5>1. CASE v = w
          BY <2>11, <2>12, <2>13, <4>1, <5>1 DEF Holding
        <5>2. CASE v # w
          BY <1>0, <2>12, <2>13, <2>16, <4>1, <5>2 DEF WorkersHoldAttempts
        <5> QED BY <5>1, <5>2
      <4> QED BY <4>1, <4>2 DEF Claimed
    <3> QED BY <2>12, <2>13, <3>1 DEF WorkersHoldAttempts
  <2>17. \A v \in Worker : pc'[v] = "sent" => pc[v] = "sent" /\ job'[v] = job[v]
    BY <2>12, <2>13
  <2>18. outbox[o].attempts <= row.attempts
    BY <2>2, <2>4, <2>6
  <2> QED BY <1>2, <2>1, <2>6, <2>7, <2>15, <2>16, <2>17, <2>18, RowStep
<1> QED BY <1>3, <1>4 DEF ClaimNextOutbox, Goto

(* deferInvalidRequest: a candidate stays outside of every batch.            *)
LEMMA DeferKeeps ==
    ASSUME PublisherInv, NEW w \in Worker, NEW r \in Eligible, DeferInvalidRequest(w, r),
           UNCHANGED <<event, pool, journal, expiries>>
    PROVE  PublisherInv'
<1>0. Tables /\ WorkersHoldAttempts /\ AttemptsAreFenced
  BY Parts
<1>1. r \in Request /\ request[r].state \in {"queued", "retryable_failed"}
  BY DEF Eligible, IsCandidate
<1>2. request \in [Request -> RequestRow] /\ outbox' = outbox
  BY <1>0 DEF Tables, DeferInvalidRequest
<1>3. PICK row : row = [state |-> "retryable_failed", due |-> FALSE,
                        tries |-> request[r].tries + 1]
  OBVIOUS
<1>4. row \in RequestRow /\ row.state = "retryable_failed"
  BY <1>1, <1>2, <1>3 DEF RequestRow
<1>5. request' = [request EXCEPT ![r] = row]
  BY <1>3 DEF DeferInvalidRequest
<1>6. request' \in [Request -> RequestRow]
  BY <1>2, <1>4, <1>5
<1>7. request'[r].state = "retryable_failed"
      /\ \A q \in Request : q # r => request'[q] = request[q]
  BY <1>1, <1>2, <1>4, <1>5
<1>8. \A q \in Request :
        /\ request'[q].state = "published" <=> request[q].state = "published"
        /\ request'[q].state = "batched" <=> request[q].state = "batched"
  BY <1>1, <1>7
<1>9. pc' = [pc EXCEPT ![w] = "idle"] /\ job' = [job EXCEPT ![w] = NoJob]
  BY DEF DeferInvalidRequest, Idle, Goto
<1>10. \A a : Claimed(a) => Claimed(a)'
  BY <1>2 DEF Claimed
<1>11. "idle" \in Label /\ "idle" \notin Holding
  BY DEF Label, Holding
<1>12. WorkersHoldAttempts' /\ AttemptsAreFenced'
  BY <1>0, <1>9, <1>10, <1>11, WorkerMoves
<1>13. Tables'
  BY <1>0, <1>2, <1>6, <1>10 DEF Tables
<1>14. \A v \in Worker : pc'[v] = "sent" => pc[v] = "sent" /\ job'[v] = job[v]
  BY <1>0, <1>9 DEF WorkersHoldAttempts
<1>15. SentIsUnderWay' /\ UnclaimedIsUnderWay'
  BY <1>2, <1>14, UnderWayStays DEF Known
<1> QED BY <1>2, <1>8, <1>12, <1>13, <1>15, QuietStep

(* A batch takes candidates only, each once.                                *)
LEMMA InsertKeeps ==
    ASSUME PublisherInv, NEW w \in Worker, pc[w] = "freeze",
           NEW items, items = LargestBatch(Selected), items # <<>>, InsertBatch(w, items),
           UNCHANGED <<event, pool, journal, expiries>>
    PROVE  PublisherInv'
<1>0. /\ Tables /\ WorkersHoldAttempts /\ AttemptsAreFenced /\ RequestsHavePlaces
      /\ PublishedIsIrreversible
  BY Parts
<1>1. /\ request \in [Request -> RequestRow] /\ outbox \in Seq(OutboxRow)
      /\ Len(outbox) \in Nat /\ DOMAIN outbox = 1..Len(outbox)
  BY <1>0, TableTypes DEF Tables
<1>2. /\ Selected \in Seq(Request)
      /\ \A i \in 1..Len(Selected) : Selected[i] \in Eligible
      /\ \A i, j \in 1..Len(Selected) : Selected[i] = Selected[j] => i = j
  BY SelectedIsDistinct
<1>3. /\ items \in Seq(Request) /\ Len(items) <= Len(Selected) /\ Fits(items)
      /\ \A i \in 1..Len(items) : items[i] = Selected[i]
  BY <1>2, LargestBatchFits
<1>4. Len(items) \in Nat /\ Len(Selected) \in Nat /\ DOMAIN items = 1..Len(items)
  BY <1>2, <1>3, LenProperties
<1>5. \A i \in DOMAIN items : i \in 1..Len(Selected) /\ items[i] \in Eligible
                              /\ items[i] = Selected[i]
  BY <1>2, <1>3, <1>4
<1>6. \A i, j \in DOMAIN items : items[i] = items[j] => i = j
  BY <1>2, <1>5
<1>7. PICK n, row : /\ n = Len(outbox) + 1
                    /\ row = [items |-> items, state |-> "queued", due |-> TRUE, attempts |-> 0]
  OBVIOUS
<1>8. /\ row \in OutboxRow /\ row.items = items /\ row.state = "queued" /\ row.attempts = 0
  BY <1>3, <1>7 DEF OutboxRow, OutboxState, Claimable
<1>9. /\ outbox' \in Seq(OutboxRow) /\ Len(outbox') = n /\ outbox'[n] = row
      /\ \A o \in 1..Len(outbox) : outbox'[o] = outbox[o]
  <2>1. outbox' = Append(outbox, row)
    BY <1>7 DEF InsertBatch
  <2> QED BY <1>1, <1>7, <1>8, <2>1, AppendProperties
<1>10. DOMAIN outbox' = DOMAIN outbox \cup {n} /\ n \notin DOMAIN outbox
  <2>1. DOMAIN outbox' = 1..n
    BY <1>9, LenProperties
  <2> QED BY <1>1, <1>7, <2>1
<1>11. \A o \in DOMAIN outbox : outbox'[o] = outbox[o]
  BY <1>1, <1>9
<1>12. \A r \in Request : /\ r \in ToSet(items) => request'[r].state = "batched"
                          /\ r \notin ToSet(items) => request'[r] = request[r]
  BY <1>1 DEF InsertBatch, RequestRow
<1>13. request' \in [Request -> RequestRow]
  BY <1>1 DEF InsertBatch, RequestRow
<1>14. \A r \in ToSet(items) : r \in Request /\ request[r].state \notin Frozen
  BY <1>5 DEF ToSet, Eligible, IsCandidate, Frozen
<1>15. \A o \in DOMAIN outbox : /\ Members(o)' = Members(o) /\ Members(o) \subseteq Request
                                /\ Members(o) \cap ToSet(items) = {}
  <2>1. \A o \in DOMAIN outbox : Members(o)' = Members(o) /\ Members(o) \subseteq Request
    BY <1>0, <1>11, TableTypes DEF Members, ToSet
  <2>2. \A o \in DOMAIN outbox : \A r \in Members(o) : request[r].state \in Frozen
    BY <1>0, <2>1 DEF RequestsHavePlaces
  <2> QED BY <1>14, <2>1, <2>2
<1>16. Members(n)' = ToSet(items)
  BY <1>8, <1>9 DEF Members
<1>17. \A a : Claimed(a) => Claimed(a)'
  <2>1. \A o \in DOMAIN outbox : outbox'[o].attempts \in Nat
                                 /\ outbox[o].attempts <= outbox'[o].attempts
    BY <1>0, <1>11, TableTypes
  <2> QED BY <1>0, <1>10, <2>1, ClaimsStay
<1>18. Tables'
  BY <1>0, <1>9, <1>13, <1>17 DEF Tables
<1>19. pc' = [pc EXCEPT ![w] = "claim"] /\ job' = job
  BY DEF InsertBatch, Goto
<1>20. WorkersHoldAttempts' /\ AttemptsAreFenced'
  <2>1. "claim" \in Label /\ "claim" \notin Holding /\ pc[w] \notin Holding
    BY DEF Label, Holding
  <2> QED BY <1>0, <1>17, <1>19, <2>1, WorkerMoves
<1>21. RequestsHavePlaces'
  <2>1. \A o \in DOMAIN outbox' : outbox'[o].items # <<>> /\ Fits(outbox'[o].items)
    BY <1>0, <1>3, <1>8, <1>9, <1>10, <1>11 DEF RequestsHavePlaces
  <2>2. ASSUME NEW o \in DOMAIN outbox', NEW p \in DOMAIN outbox',
               NEW i \in DOMAIN outbox'[o].items, NEW j \in DOMAIN outbox'[p].items,
               outbox'[o].items[i] = outbox'[p].items[j]
        PROVE  o = p /\ i = j
    <3>1. CASE o \in DOMAIN outbox /\ p \in DOMAIN outbox
      BY <1>0, <1>11, <2>2, <3>1 DEF RequestsHavePlaces
    <3>2. CASE o = n /\ p = n
      BY <1>6, <1>8, <1>9, <2>2, <3>2
    <3>3. \A q \in DOMAIN outbox : \A k \in DOMAIN outbox[q].items :
            \A l \in DOMAIN items : outbox[q].items[k] # items[l]
      BY <1>15 DEF Members, ToSet
    <3>4. CASE o \in DOMAIN outbox /\ p = n
      BY <1>8, <1>9, <1>11, <2>2, <3>3, <3>4
    <3>5. CASE o = n /\ p \in DOMAIN outbox
      BY <1>8, <1>9, <1>11, <2>2, <3>3, <3>5
    <3> QED BY <1>10, <3>1, <3>2, <3>4, <3>5
  <2>3. ASSUME NEW r \in Request
        PROVE  request'[r].state \in Frozen <=> \E o \in DOMAIN outbox' : r \in Members(o)'
    <3>1. CASE r \in ToSet(items)
      BY <1>10, <1>12, <1>16, <3>1 DEF Frozen
    <3>2. CASE r \notin ToSet(items)
      <4>1. request'[r].state \in Frozen <=> \E o \in DOMAIN outbox : r \in Members(o)
        BY <1>0, <1>12, <3>2 DEF RequestsHavePlaces
      <4> QED BY <1>10, <1>15, <1>16, <3>2, <4>1
    <3> QED BY <3>1, <3>2
  <2> QED BY <2>1, <2>2, <2>3 DEF RequestsHavePlaces
<1>22. PublishedIsIrreversible'
  <2>1. ASSUME NEW o \in DOMAIN outbox
        PROVE  /\ outbox'[o].state = "irreversible" => event'[o] = "irreversible"
               /\ \A r \in Members(o)' :
                    request'[r].state = "published" <=> outbox'[o].state = "irreversible"
    BY <1>0, <1>11, <1>12, <1>15 DEF PublishedIsIrreversible
  <2>2. /\ outbox'[n].state # "irreversible"
        /\ \A r \in Members(n)' : request'[r].state # "published"
    BY <1>8, <1>9, <1>12, <1>14, <1>16
  <2> QED BY <1>10, <2>1, <2>2 DEF PublishedIsIrreversible
<1>23. SentIsUnderWay' /\ UnclaimedIsUnderWay'
  <2>1. \A o \in DOMAIN outbox' : outbox'[o].state = "broadcast" =>
          o \in DOMAIN outbox /\ outbox[o].state = "broadcast"
    BY <1>8, <1>9, <1>10, <1>11
  <2>2. \A v \in Worker : pc'[v] = "sent" => pc[v] = "sent" /\ job'[v] = job[v]
    BY <1>0, <1>19 DEF WorkersHoldAttempts
  <2> QED BY <2>1, <2>2, UnderWayStays DEF Known
<1> QED BY <1>18, <1>20, <1>21, <1>22, <1>23 DEF PublisherInv

(* A batch is frozen into the outbox, or a request is deferred.             *)
LEMMA FreezeKeeps ==
    ASSUME PublisherInv, NEW w \in Worker, FreezeNextBatch(w) \/ RefuseToPlan(w)
    PROVE  PublisherInv'
<1>0. pool \in [Slot -> Nat]
  BY Parts DEF Tables
<1>1. pc[w] = "freeze" /\ UNCHANGED <<event, pool, journal, expiries>>
  BY DEF FreezeNextBatch, RefuseToPlan, Fault, chain, bounds
<1>2. PICK s : s = Selected
  OBVIOUS
<1>3. s \in Seq(Request) /\ \A i \in 1..Len(s) : s[i] \in Eligible
  BY <1>2, SelectedIsDistinct
<1>4. s # <<>> => Head(s) \in Eligible
  <2>1. SUFFICES ASSUME s # <<>> PROVE Head(s) \in Eligible
    OBVIOUS
  <2>2. Len(s) \in Nat \ {0}
    BY <1>3, <2>1, EmptySeq
  <2>3. Head(s) = s[1]
    OBVIOUS
  <2> QED BY <1>3, <2>2, <2>3
<1>5. \A r \in Misread(s) : r \in Eligible
  BY <1>3, LenProperties DEF Misread, ToSet
<1>6. s # <<>> => \A r \in Unpublishable(s) : r \in Eligible
  BY <1>4, <1>5 DEF Unpublishable
<1>7. CASE FreezeNothing(w)
  <2>1. /\ pc' = [pc EXCEPT ![w] = "claim"] /\ UNCHANGED <<request, outbox, job>>
        /\ "claim" \in Label /\ "claim" \notin Holding /\ pc[w] \notin Holding
    BY <1>1, <1>7 DEF FreezeNothing, Goto, Label, Holding
  <2>2. \A o \in Slot : pool[o] <= pool'[o]
    BY <1>0, <1>1
  <2> QED BY <1>0, <1>1, <2>1, <2>2, MoveStep
<1>8. ASSUME NEW r \in Eligible, DeferInvalidRequest(w, r) PROVE PublisherInv'
  BY <1>1, <1>8, DeferKeeps
<1>9. CASE s # <<>> /\ Unpublishable(s) = {} /\ InsertBatch(w, LargestBatch(s))
  <2>1. PICK items : items = LargestBatch(s)
    OBVIOUS
  <2>2. items # <<>>
    <3>1. CASE Misread(s) # {}
      <4>1. Misread(s) \subseteq Nat
        BY <1>5, RequestsAreNumbers DEF Eligible
      <4>2. PICK m \in Misread(s) : \A k \in Misread(s) : m <= k
        BY <3>1, <4>1, LeastNatural
      <4>3. m \in Unpublishable(s)
        BY <3>1, <4>2 DEF Unpublishable
      <4> QED BY <1>9, <4>3
    <3>2. CASE Misread(s) = {}
      BY <1>9, <2>1, <3>2 DEF Unpublishable
    <3> QED BY <3>1, <3>2
  <2>3. items = LargestBatch(Selected) /\ InsertBatch(w, items)
    BY <1>2, <1>9, <2>1
  <2> QED BY <1>1, <2>2, <2>3, InsertKeeps
<1>10. CASE FreezeNextBatch(w)
  BY <1>2, <1>6, <1>7, <1>8, <1>9, <1>10 DEF FreezeNextBatch
<1>11. CASE RefuseToPlan(w)
  BY <1>2, <1>4, <1>8, <1>11 DEF RefuseToPlan
<1> QED BY <1>10, <1>11

(* Finality is copied to every row at once, and to the requests of the rows  *)
(* that become irreversible.                                               *)
LEMMA ReconcileKeeps ==
    ASSUME PublisherInv, NEW w \in Worker, ReconcileProjectedFinality(w)
    PROVE  PublisherInv'
<1>0. /\ Tables /\ WorkersHoldAttempts /\ AttemptsAreFenced /\ RequestsHavePlaces
      /\ PublishedIsIrreversible /\ DOMAIN outbox \subseteq Slot
  BY Parts
<1>1. /\ pc[w] = "idle" /\ UNCHANGED <<event, pool, journal, job, expiries>>
      /\ request \in [Request -> RequestRow] /\ event \in [Slot -> Feed!State]
      /\ Len(outbox) \in Nat /\ DOMAIN outbox = 1..Len(outbox)
  BY <1>0, TableTypes DEF ReconcileProjectedFinality, chain, bounds, Tables
<1>2. CASE UNCHANGED <<outbox, request, pc>>
  BY <1>1, <1>2, RequestStep
<1>3. CASE /\ outbox' = [o \in DOMAIN outbox |->
                           IF o \in Changed
                           THEN [outbox[o] EXCEPT !.state = event[o], !.due = TRUE]
                           ELSE outbox[o]]
           /\ request' = [r \in Request |->
                  IF \E o \in Changed : ConfirmsItems(o) /\ r \in Members(o)
                  THEN [request[r] EXCEPT !.state = "published"] ELSE request[r]]
           /\ Goto(w, "freeze")
  <2>1. ASSUME NEW o \in DOMAIN outbox
        PROVE  /\ outbox'[o] \in OutboxRow /\ outbox'[o].items = outbox[o].items
               /\ outbox'[o].attempts = outbox[o].attempts
               /\ o \in Changed => outbox'[o].state = event[o]
               /\ o \notin Changed => outbox'[o] = outbox[o]
    <3>1. outbox[o] \in OutboxRow
      BY <1>0, TableTypes
    <3>2. CASE o \in Changed
      <4>1. outbox'[o] = [outbox[o] EXCEPT !.state = event[o], !.due = TRUE]
        BY <1>3, <3>2
      <4>2. event[o] \in OutboxState
        BY <1>0, <1>1, <3>2 DEF Changed, Feed!State, OutboxState, Claimable
      <4> QED BY <3>1, <3>2, <4>1, <4>2 DEF OutboxRow
    <3>3. CASE o \notin Changed
      <4>1. outbox'[o] = outbox[o]
        BY <1>3, <3>3
      <4> QED BY <3>1, <3>3, <4>1
    <3> QED BY <3>2, <3>3
  <2>2. outbox' \in Seq(OutboxRow) /\ DOMAIN outbox' = DOMAIN outbox
    <3>1. outbox' \in [1..Len(outbox) -> OutboxRow]
      BY <1>1, <1>3, <2>1
    <3> QED BY <1>1, <3>1, FunctionIsSeq
  <2>3. \A o \in Changed : o \in DOMAIN outbox /\ outbox[o].state # "irreversible"
    BY DEF Changed
  <2>4. ASSUME NEW r \in Request
        PROVE  /\ request'[r] \in RequestRow
               /\ (\E o \in Changed : ConfirmsItems(o) /\ r \in Members(o))
                    => request'[r].state = "published"
               /\ ~(\E o \in Changed : ConfirmsItems(o) /\ r \in Members(o))
                    => request'[r] = request[r]
    <3>1. request[r] \in RequestRow
      BY <1>1
    <3> QED BY <1>3, <3>1 DEF RequestRow
  <2>5. request' \in [Request -> RequestRow]
    BY <1>3, <2>4
  <2>6. \A o \in DOMAIN outbox : Members(o)' = Members(o) /\ Members(o) \subseteq Request
    BY <1>0, <2>1, TableTypes DEF Members, ToSet
  <2>7. \A a : Claimed(a) => Claimed(a)'
    <3>1. \A o \in DOMAIN outbox : outbox'[o].attempts \in Nat
                                   /\ outbox[o].attempts <= outbox'[o].attempts
      BY <1>0, <2>1, TableTypes
    <3> QED BY <1>0, <2>2, <3>1, ClaimsStay
  <2>8. Tables'
    BY <1>0, <1>1, <2>2, <2>5, <2>7 DEF Tables
  <2>9. pc' = [pc EXCEPT ![w] = "freeze"]
    BY <1>3 DEF Goto
  <2>10. WorkersHoldAttempts' /\ AttemptsAreFenced'
    <3>1. "freeze" \in Label /\ "freeze" \notin Holding /\ pc[w] \notin Holding
      BY <1>1 DEF Label, Holding
    <3> QED BY <1>0, <1>1, <2>7, <2>9, <3>1, WorkerMoves
  <2>11. RequestsHavePlaces'
    <3>1. \A o \in DOMAIN outbox' : outbox'[o].items # <<>> /\ Fits(outbox'[o].items)
      BY <1>0, <2>1, <2>2 DEF RequestsHavePlaces
    <3>2. \A o, p \in DOMAIN outbox' :
            \A i \in DOMAIN outbox'[o].items, j \in DOMAIN outbox'[p].items :
              outbox'[o].items[i] = outbox'[p].items[j] => o = p /\ i = j
      BY <1>0, <2>1, <2>2 DEF RequestsHavePlaces
    <3>3. ASSUME NEW r \in Request
          PROVE  request'[r].state \in Frozen <=> \E o \in DOMAIN outbox' : r \in Members(o)'
      <4>1. request[r].state \in Frozen <=> \E o \in DOMAIN outbox : r \in Members(o)
        BY <1>0 DEF RequestsHavePlaces
      <4>2. request'[r].state \in Frozen <=> request[r].state \in Frozen
        <5>1. CASE \E o \in Changed : ConfirmsItems(o) /\ r \in Members(o)
          BY <2>3, <2>4, <4>1, <5>1 DEF Frozen
        <5>2. CASE ~\E o \in Changed : ConfirmsItems(o) /\ r \in Members(o)
          BY <2>4, <5>2
        <5> QED BY <5>1, <5>2
      <4> QED BY <2>2, <2>6, <4>1, <4>2
    <3> QED BY <3>1, <3>2, <3>3 DEF RequestsHavePlaces
  <2>12. PublishedIsIrreversible'
    <3>1. ASSUME NEW o \in DOMAIN outbox
          PROVE  outbox'[o].state = "irreversible" => event'[o] = "irreversible"
      BY <1>0, <1>1, <2>1 DEF PublishedIsIrreversible
    <3>2. ASSUME NEW o \in DOMAIN outbox, NEW r \in Members(o)
          PROVE  request'[r].state = "published" <=> outbox'[o].state = "irreversible"
      <4>1. r \in Request
        BY <2>6
      <4>2. request[r].state = "published" <=> outbox[o].state = "irreversible"
        BY <1>0 DEF PublishedIsIrreversible
      <4>3. \A p \in DOMAIN outbox : r \in Members(p) => p = o
        BY <1>0 DEF RequestsHavePlaces, Members, ToSet
      <4>4. (\E p \in Changed : ConfirmsItems(p) /\ r \in Members(p))
              <=> o \in Changed /\ event[o] = "irreversible"
        BY <2>3, <4>3 DEF ConfirmsItems
      <4>5. CASE o \in Changed
        BY <2>1, <2>3, <2>4, <4>1, <4>2, <4>4, <4>5
      <4>6. CASE o \notin Changed
        BY <2>1, <2>4, <4>1, <4>2, <4>4, <4>6
      <4> QED BY <4>5, <4>6
    <3> QED BY <2>2, <2>6, <3>1, <3>2 DEF PublishedIsIrreversible
  <2>13. SentIsUnderWay' /\ UnclaimedIsUnderWay'
    <3>1. \A o \in DOMAIN outbox' : outbox'[o].state = "broadcast" =>
            o \in DOMAIN outbox /\ outbox[o].state = "broadcast"
      BY <1>0, <1>1, <2>1, <2>2 DEF Feed!State
    <3>2. \A v \in Worker : pc'[v] = "sent" => pc[v] = "sent" /\ job'[v] = job[v]
      BY <1>0, <1>1, <2>9 DEF WorkersHoldAttempts
    <3> QED BY <1>1, <3>1, <3>2, UnderWayStays DEF Known
  <2> QED BY <2>8, <2>10, <2>11, <2>12, <2>13 DEF PublisherInv
<1> QED BY <1>2, <1>3 DEF ReconcileProjectedFinality

-----------------------------------------------------------------------------
(* The theorems.                                                           *)

(* The empty tables satisfy the invariant.                                  *)
LEMMA PublisherInit == Init => PublisherInv
<1> SUFFICES ASSUME Init PROVE PublisherInv
  OBVIOUS
<1>1. /\ request = [r \in Request |-> [state |-> "absent", due |-> TRUE, tries |-> 0]]
      /\ outbox = <<>> /\ event = [o \in Slot |-> "absent"] /\ pool = [o \in Slot |-> 0]
      /\ journal = {} /\ pc = [w \in Worker |-> "idle"] /\ job = [w \in Worker |-> NoJob]
      /\ expiries = 0
  BY DEF Init, Feed!Init
<1>2. outbox \in Seq(OutboxRow) /\ DOMAIN outbox = {}
  BY <1>1, EmptySeq
<1>3. Tables
  BY <1>1, <1>2 DEF Tables, RequestRow, Feed!State
<1>4. WorkersHoldAttempts /\ AttemptsAreFenced
  BY <1>1 DEF WorkersHoldAttempts, AttemptsAreFenced, Label, Holding
<1>5. RequestsHavePlaces
  BY <1>1, <1>2 DEF RequestsHavePlaces, Frozen
<1>6. PublishedIsIrreversible /\ UnclaimedIsUnderWay
  BY <1>2 DEF PublishedIsIrreversible, UnclaimedIsUnderWay
<1>7. SentIsUnderWay
  BY <1>1 DEF SentIsUnderWay
<1> QED BY <1>3, <1>4, <1>5, <1>6, <1>7 DEF PublisherInv

(* Every step keeps the invariant.                                          *)
LEMMA PublisherStep == PublisherInv /\ [Next]_vars => PublisherInv'
<1> SUFFICES ASSUME PublisherInv, [Next]_vars PROVE PublisherInv'
  OBVIOUS
<1>0. request \in [Request -> RequestRow]
  BY Parts DEF Tables
<1>1. ASSUME NEW w \in Worker, Cycle(w) PROVE PublisherInv'
  BY <1>1, ReconcileKeeps, FreezeKeeps, ClaimKeeps, RecordKeeps, BroadcastKeeps,
     MarkBroadcastKeeps, MarkRetryableKeeps DEF Cycle
<1>2. ASSUME NEW w \in Worker, RefuseToPlan(w) \/ Interrupt(w) PROVE PublisherInv'
  BY <1>2, FreezeKeeps, InterruptKeeps
<1>3. ASSUME NEW r \in Request, CommitResult(r) \/ RequestDue(r) PROVE PublisherInv'
  BY <1>3, CommitResultKeeps
<1>4. CASE GrowOld
  BY <1>0, <1>4, RequestStep DEF GrowOld, chain, workers, bounds
<1>5. ASSUME NEW o \in Slot, OutboxDue(o) PROVE PublisherInv'
  BY <1>5, OutboxDueKeeps
<1>6. ASSUME NEW o \in Slot, Include(o) \/ Fork(o) \/ BecomeIrreversible(o) \/ Expire(o)
      PROVE  PublisherInv'
  BY <1>6, ChainKeeps
<1>7. CASE UNCHANGED vars
  BY <1>0, <1>7, RequestStep DEF vars, chain, workers, bounds
<1> QED BY <1>1, <1>2, <1>3, <1>4, <1>5, <1>6, <1>7 DEF Next

(* The tables, the attempts the workers hold and the places of the requests  *)
(* always agree.                                                           *)
THEOREM PublisherInvariant == Spec => []PublisherInv
BY PublisherInit, PublisherStep, PTL DEF Spec

(* The tables hold values of their kind and the journal only claimed         *)
(* attempts.                                                               *)
THEOREM PublisherTypeSafe == Spec => []TypeOK
<1>1. PublisherInv => TypeOK
  <2>1. SUFFICES ASSUME PublisherInv PROVE TypeOK
    OBVIOUS
  <2>2. Tables
    BY <2>1, Parts
  <2> QED BY <2>2 DEF Tables, TypeOK, RequestRow, OutboxRow, OutboxState, Claimed
<1> QED BY <1>1, PublisherInvariant, PTL

(* A round belongs to one batch, once, however many workers freeze, and a    *)
(* batch is within its limits.                                              *)
THEOREM RoundsArePublishedOnce == Spec => []OneBatchPerRequest
<1>1. PublisherInv => OneBatchPerRequest
  BY Parts, OnePlace
<1> QED BY <1>1, PublisherInvariant, PTL

(* A request is published exactly when its batch is irreversible on the      *)
(* chain; no late write of a slow worker takes it back.                      *)
THEOREM PublicationIsFinal == Spec => []PublishedIsIrreversible
<1>1. PublisherInv => PublishedIsIrreversible
  BY Parts
<1> QED BY <1>1, PublisherInvariant, PTL

(* No two workers hold the same attempt, even when a lease runs out.         *)
THEOREM AttemptsStayFenced == Spec => []AttemptsAreFenced
<1>1. PublisherInv => AttemptsAreFenced
  BY Parts
<1> QED BY <1>1, PublisherInvariant, PTL

(* A row in broadcast, which no worker claims again, has a transaction in    *)
(* the pool or an event, unless a transaction expired.                       *)
THEOREM BroadcastIsUnderWay == Spec => []UnclaimedIsUnderWay
<1>1. PublisherInv => UnclaimedIsUnderWay
  BY Parts
<1> QED BY <1>1, PublisherInvariant, PTL
=============================================================================

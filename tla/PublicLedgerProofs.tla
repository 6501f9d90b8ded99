------------------------- MODULE PublicLedgerProofs -------------------------
(* Proofs about PublicLedger for any rounds, collectibles and events, any   *)
(* order and repetition of operations on the chain and any cut of it into   *)
(* the finalizing transactions that commit.                                 *)
EXTENDS OfficialSignerProofs, FiniteSetTheorems, WellFoundedInduction

-----------------------------------------------------------------------------
(* Induction over the operations of one transaction.  The library's         *)
(* induction theorems quantify over operators; that every set of natural    *)
(* numbers has a least element does not.                                    *)

(* A set of natural numbers that is not empty has a least element.          *)
LEMMA LeastNumber ==
    ASSUME NEW S \in SUBSET Nat, S # {}
    PROVE  \E m \in S : \A k \in S : m <= k
<1> DEFINE Below == OpToRel(<, Nat)
<1>1. IsWellFoundedOn(Below, Nat)
  BY NatLessThanWellFounded
<1>2. \A x, y \in Nat : <<y, x>> \in Below <=> y < x
  BY DEF OpToRel
<1>3. \E x \in S : \A y \in S : ~(<<y, x>> \in Below)
  <2> HIDE DEF Below
  <2> QED BY <1>1, WFMin
<1>4. PICK x \in S : \A y \in S : ~(<<y, x>> \in Below)
  BY <1>3, Zenon
<1>5. ASSUME NEW y \in S PROVE x <= y
  <2>1. x \in Nat /\ y \in Nat
    OBVIOUS
  <2>2. ~(<<y, x>> \in Below)
    BY <1>4, Zenon
  <2>3. ~(y < x)
    BY <1>2, <2>1, <2>2, Zenon
  <2> QED BY <2>1, <2>3
<1> QED BY <1>5

(* A set that holds the first number of an interval, and each one whose     *)
(* predecessor it holds, holds the interval.                                *)
LEMMA IntervalInduction ==
    ASSUME NEW m \in Nat, NEW n \in Nat, m <= n, NEW S, m \in S,
           \A i \in (m + 1)..n : i - 1 \in S => i \in S
    PROVE  \A i \in m..n : i \in S
<1> SUFFICES ASSUME NEW b \in m..n, b \notin S PROVE FALSE
  OBVIOUS
<1> DEFINE B == {i \in m..n : i \notin S}
<1>1. B \in SUBSET Nat /\ B # {}
  OBVIOUS
<1>2. PICK l \in B : \A k \in B : l <= k
  BY <1>1, LeastNumber
<1>3. l # m /\ l \in (m + 1)..n /\ l - 1 \in m..n
  BY <1>2
<1>4. l - 1 \in S
  BY <1>2, <1>3
<1> QED BY <1>2, <1>3, <1>4

(* The tables one transaction may leave after each of its operations.       *)
IsSweep(f, n) ==
    f = [i \in final..n |->
           IF i = final THEN {tables}
           ELSE UNION {MaterializeOperation(t, i) : t \in f[i - 1]}]

(* There are such tables: the recursion of MaterializeIrreversibleEvents    *)
(* defines a function.                                                      *)
LEMMA SweepExists ==
    ASSUME final \in Nat, NEW n \in Nat, final <= n
    PROVE  \E f : IsSweep(f, n)
<1> DEFINE S == {k \in final..n : \E f : IsSweep(f, k)}
           Value(f, i) == IF i = final THEN {tables}
                          ELSE UNION {MaterializeOperation(t, i) : t \in f[i - 1]}
<1>1. final \in S
  <2> DEFINE g == [i \in final..final |-> {tables}]
  <2>1. ASSUME NEW i \in final..final PROVE g[i] = Value(g, i)
    <3>1. i = final
      OBVIOUS
    <3> QED BY <3>1
  <2>2. g = [i \in final..final |-> g[i]]
    OBVIOUS
  <2>3. final \in final..n
    OBVIOUS
  <2> HIDE DEF g
  <2>4. IsSweep(g, final)
    BY <2>1, <2>2, Zenon DEF IsSweep
  <2> QED BY <2>3, <2>4, Zenon
<1>2. ASSUME NEW k \in (final + 1)..n, k - 1 \in S PROVE k \in S
  <2>1. PICK f : IsSweep(f, k - 1)
    BY <1>2
  <2> DEFINE g == [i \in final..k |->
                     IF i = k THEN UNION {MaterializeOperation(t, k) : t \in f[k - 1]}
                     ELSE f[i]]
  <2>2. ASSUME NEW i \in final..k PROVE g[i] = Value(g, i)
    <3>1. CASE i = k
      <4>1. g[i - 1] = f[k - 1] /\ i # final
        BY <3>1
      <4> QED BY <3>1, <4>1
    <3>2. CASE i # k
      <4>1. i \in final..(k - 1) /\ g[i] = f[i]
        BY <3>2
      <4>2. i # final => g[i - 1] = f[i - 1]
        BY <3>2
      <4>3. f[i] = Value(f, i)
        BY <2>1, <4>1, Zenon DEF IsSweep
      <4> QED BY <4>1, <4>2, <4>3
    <3> QED BY <3>1, <3>2
  <2>3. g = [i \in final..k |-> g[i]]
    OBVIOUS
  <2>4. k \in final..n
    OBVIOUS
  <2> HIDE DEF g
  <2>5. IsSweep(g, k)
    BY <2>2, <2>3, Zenon DEF IsSweep
  <2> QED BY <2>4, <2>5, Zenon
<1>3. n \in S
  <2> HIDE DEF S
  <2> QED BY <1>1, <1>2, IntervalInduction
<1> QED BY <1>3

(* What every operation of a transaction takes from one stage to the next   *)
(* holds of the tables the transaction leaves.                              *)
LEMMA SweepInduction ==
    ASSUME final \in Nat, NEW n \in Nat, final <= n, NEW G, tables \in G[final],
           \A i \in (final + 1)..n : \A t \in G[i - 1] : MaterializeOperation(t, i) \subseteq G[i]
    PROVE  MaterializeIrreversibleEvents(n) \subseteq G[n]
<1> DEFINE after == CHOOSE f : IsSweep(f, n)
<1>1. IsSweep(after, n)
  BY SweepExists
<1>2. MaterializeIrreversibleEvents(n) = after[n]
  BY DEF MaterializeIrreversibleEvents, IsSweep
<1> HIDE DEF after
<1>3. ASSUME NEW i \in final..n
      PROVE  after[i] = IF i = final THEN {tables}
                        ELSE UNION {MaterializeOperation(t, i) : t \in after[i - 1]}
  BY <1>1, Zenon DEF IsSweep
<1> DEFINE S == {i \in final..n : after[i] \subseteq G[i]}
<1>4. final \in S
  <2>1. final \in final..n
    OBVIOUS
  <2>2. after[final] = {tables}
    BY <1>3, <2>1
  <2> QED BY <2>1, <2>2
<1>5. ASSUME NEW i \in (final + 1)..n, i - 1 \in S PROVE i \in S
  <2>1. i \in final..n /\ i # final
    OBVIOUS
  <2>2. after[i] = UNION {MaterializeOperation(t, i) : t \in after[i - 1]}
    BY <1>3, <2>1
  <2>3. after[i - 1] \subseteq G[i - 1]
    BY <1>5
  <2>4. ASSUME NEW u \in after[i] PROVE u \in G[i]
    <3>1. PICK t \in after[i - 1] : u \in MaterializeOperation(t, i)
      BY <2>2
    <3> QED BY <2>3, <3>1
  <2> QED BY <2>1, <2>4
<1>6. n \in S
  <2> HIDE DEF S
  <2> QED BY <1>4, <1>5, IntervalInduction
<1> QED BY <1>2, <1>6

-----------------------------------------------------------------------------
(* The inductive invariant.                                                 *)

(* What the chain can carry: operations of the issuer's transactions and    *)
(* those of others.                                                         *)
Operations ==
    {[event |-> tx.event, signer |-> tx.account, form |-> "posting", at |-> n, tx |-> tx] :
       tx \in Transaction, n \in Nat}
    \cup {[event |-> op.event, signer |-> op.signer, form |-> op.form, at |-> n, tx |-> op.tx] :
       op \in limit.others, n \in Nat}

Revisions == UNION {s.rows : s \in Scenarios}
MatchResultChange ==
    [event: Event, round: Round, supersedes: Event, type: {"corrected", "invalidated"}, at: Nat]
Payment == {Content[e].payment : e \in {x \in Event : Content[x].type = "issued"}}
CollectibleInstance ==
    [issued: Event, revoked: Event \cup {Nothing}, state: {"finalized", "revoked"},
     payment: Payment]
Tables ==
    [result: [Round -> MatchResult \cup {Nothing}], change: SUBSET MatchResultChange,
     event: [Event -> Nat \cup {Nothing}],
     instance: [Collectible -> CollectibleInstance \cup {Nothing}]]

LedgerTypes ==
    /\ chain \in Seq(Operations) /\ reached \in 0..Len(chain) /\ final \in 0..reached
    /\ clock \in 0..limit.clock /\ known \subseteq limit.rows

(* The operation match_event keeps for an event.                            *)
First(e, k) == k \in DOMAIN chain /\ chain[k].event = e /\ Accepted(k) /\ Bound(k)

ChangesOf(t, r) == {c \in t.change : c.round = r}
EventsOf(t, r) == {t.result[r].initial} \cup {c.event : c \in ChangesOf(t, r)}

(* The changes of a result are one line from its initial event to the       *)
(* current one, all of it among the first n operations.                     *)
Lineage(t, r, n) ==
    /\ \A e \in EventsOf(t, r) : \E k \in 1..n : First(e, k)
    /\ Cardinality(EventsOf(t, r)) = Cardinality(ChangesOf(t, r)) + 1
    /\ \A c \in ChangesOf(t, r) :
         c.supersedes \in EventsOf(t, r) /\ FirstAt(c.supersedes) < FirstAt(c.event)
    /\ \A c, d \in ChangesOf(t, r) :
         c.supersedes = d.supersedes \/ c.event = d.event => c = d
    /\ {e \in EventsOf(t, r) : \A c \in ChangesOf(t, r) : c.supersedes # e} =
         {t.result[r].current}
    /\ IF ChangesOf(t, r) = {} THEN t.result[r].state = "current"
       ELSE \E c \in ChangesOf(t, r) :
              c.event = t.result[r].current /\ c.type = t.result[r].state

ResultsFit(t, n) ==
    /\ IsFiniteSet(t.change)
    /\ \A c \in t.change : t.result[c.round] # Nothing
    /\ \A r \in Round : t.result[r] # Nothing => Lineage(t, r, n)

(* A stored event is stored with an accepted operation of it among the      *)
(* first n.                                                                 *)
EventFits(t, e, n) ==
    t.event[e] # Nothing =>
      t.event[e] \in 1..n /\ chain[t.event[e]].event = e /\ Accepted(t.event[e])

InstanceFits(t, c) ==
    LET it == t.instance[c] IN
    /\ Content[it.issued].collectible = c /\ Content[it.issued].type = "issued"
    /\ t.event[it.issued] # Nothing
    /\ it.state = "revoked" <=> it.revoked # Nothing
    /\ it.revoked # Nothing =>
         /\ Content[it.revoked].issued = it.issued
         /\ t.event[it.revoked] # Nothing
         /\ t.event[it.issued] < t.event[it.revoked]

CollectiblesFit(t, n) ==
    /\ \A e \in Event : EventFits(t, e, n)
    /\ \A c \in Collectible : t.instance[c] # Nothing => InstanceFits(t, c)
    /\ \A c, d \in Collectible :
         /\ t.instance[c] # Nothing /\ t.instance[d] # Nothing
         /\ c # d /\ t.instance[c].payment = t.instance[d].payment
         => t.instance[c].payment = Nothing

(* Tables that the first n operations of the chain can have left.           *)
Fits(t, n) == t \in Tables /\ ResultsFit(t, n) /\ CollectiblesFit(t, n)

(* A result has one change of each transaction, and no transaction ends     *)
(* beyond the first n operations.                                           *)
OneChangeEach(t, n) ==
    /\ \A c \in t.change : c.at <= n
    /\ \A c, d \in t.change : c.round = d.round /\ c.at = d.at => c = d

LedgerInv ==
    SigningInv /\ LedgerTypes /\ Fits(tables, final) /\ OneChangeEach(tables, final)

-----------------------------------------------------------------------------
(* Facts about the chain.                                                   *)

(* An operation on the chain carries an event.                              *)
LEMMA OperationsCarryEvents ==
    ASSUME chain \in Seq(Operations), limit \in Scenarios, NEW k \in DOMAIN chain
    PROVE  chain[k].event \in Event /\ k \in Nat /\ 1 <= k /\ k <= Len(chain)
<1>1. chain[k] \in Operations
  OBVIOUS
<1>2. \A tx \in Transaction : tx.event \in Event
  BY DEF Transaction
<1>3. \A op \in limit.others : op.event \in Event
  BY LedgerAssumption
<1> QED BY <1>1, <1>2, <1>3 DEF Operations

(* match_event keeps one operation of an event only.                        *)
LEMMA FirstIsUnique ==
    ASSUME chain \in Seq(Operations), NEW e, NEW j, NEW k, First(e, j), First(e, k)
    PROVE  j = k /\ FirstAt(e) = k
<1>1. ASSUME NEW a, NEW b, First(e, a), First(e, b) PROVE a = b
  <2>1. a \in Nat /\ b \in Nat /\ 1 <= a /\ 1 <= b
    BY <1>1 DEF First
  <2>2. CASE a < b
    <3>1. a \in 1..(b - 1)
      BY <2>1, <2>2
    <3> QED BY <1>1, <3>1 DEF First, Bound
  <2>3. CASE b < a
    <3>1. b \in 1..(a - 1)
      BY <2>1, <2>3
    <3> QED BY <1>1, <3>1 DEF First, Bound
  <2> QED BY <2>1, <2>2, <2>3
<1>2. j = k
  BY <1>1
<1>3. FirstAt(e) = k
  <2>1. FirstAt(e) = CHOOSE i \in DOMAIN chain : First(e, i)
    BY DEF FirstAt, First
  <2>2. k \in DOMAIN chain /\ First(e, k)
    BY DEF First
  <2>3. First(e, FirstAt(e))
    BY <2>1, <2>2
  <2> QED BY <1>1, <2>3
<1> QED BY <1>2, <1>3

(* Tables that fit a part of the chain fit a longer one.                    *)
LEMMA FitsLonger ==
    ASSUME NEW t, NEW m \in Nat, NEW n \in Nat, m <= n
    PROVE  /\ ResultsFit(t, m) => ResultsFit(t, n)
           /\ CollectiblesFit(t, m) => CollectiblesFit(t, n)
<1>1. 1..m \subseteq 1..n
  OBVIOUS
<1>2. \A r : Lineage(t, r, m) => Lineage(t, r, n)
  BY <1>1 DEF Lineage
<1>3. \A e : EventFits(t, e, m) => EventFits(t, e, n)
  BY <1>1 DEF EventFits
<1> QED BY <1>2, <1>3 DEF ResultsFit, CollectiblesFit

-----------------------------------------------------------------------------
(* One operation.                                                           *)

(* The context of one materialized operation.                               *)
Operating(t, i) ==
    /\ chain \in Seq(Operations) /\ limit \in Scenarios /\ known \subseteq limit.rows
    /\ i \in DOMAIN chain /\ Fits(t, i - 1) /\ Accepted(i)

(* The tables have their types, and so has the event at hand.               *)
LEMMA OperatingTypes ==
    ASSUME NEW t, NEW i, Operating(t, i)
    PROVE  /\ i \in Nat /\ 1 <= i /\ i - 1 \in Nat /\ chain[i].event \in Event
           /\ t \in Tables /\ ResultsFit(t, i - 1) /\ CollectiblesFit(t, i - 1)
           /\ ResultsFit(t, i) /\ CollectiblesFit(t, i)
           /\ known \subseteq Revisions
<1>1. chain[i].event \in Event /\ i \in Nat /\ 1 <= i
  BY OperationsCarryEvents DEF Operating
<1>2. i - 1 \in Nat /\ i - 1 <= i
  BY <1>1
<1>3. t \in Tables /\ ResultsFit(t, i - 1) /\ CollectiblesFit(t, i - 1)
  BY DEF Operating, Fits
<1>4. ResultsFit(t, i) /\ CollectiblesFit(t, i)
  BY <1>1, <1>2, <1>3, FitsLonger
<1>5. known \subseteq Revisions
  BY DEF Operating, Revisions
<1> QED BY <1>1, <1>2, <1>3, <1>4, <1>5

(* Results rest on two of the tables, collectibles on the two others.       *)
LEMMA ResultsApart ==
    ASSUME NEW t, NEW u, NEW n, ResultsFit(t, n), u.result = t.result, u.change = t.change
    PROVE  ResultsFit(u, n)
<1>1. \A r : ChangesOf(u, r) = ChangesOf(t, r) /\ EventsOf(u, r) = EventsOf(t, r)
  BY DEF ChangesOf, EventsOf
<1>2. \A r : Lineage(t, r, n) => Lineage(u, r, n)
  BY <1>1 DEF Lineage
<1> QED BY <1>2 DEF ResultsFit

(* Collectibles fit as long as their own two tables stay.                   *)
LEMMA CollectiblesApart ==
    ASSUME NEW t, NEW u, NEW n, CollectiblesFit(t, n), u.event = t.event, u.instance = t.instance
    PROVE  CollectiblesFit(u, n)
<1>1. \A e : EventFits(t, e, n) => EventFits(u, e, n)
  BY DEF EventFits
<1>2. \A c : InstanceFits(t, c) => InstanceFits(u, c)
  BY DEF InstanceFits
<1> QED BY <1>1, <1>2 DEF CollectiblesFit

(* A batch inserts results that have no changes yet.                        *)
LEMMA InitialResultsFit ==
    ASSUME NEW t, NEW i, Operating(t, i), Bound(i),
           NEW u \in MaterializeInitialMatchResults(t, chain[i].event)
    PROVE  Fits(u, i)
<1>0. /\ i \in Nat /\ 1 <= i /\ i - 1 \in Nat /\ chain[i].event \in Event
      /\ t \in Tables /\ ResultsFit(t, i) /\ CollectiblesFit(t, i)
      /\ known \subseteq Revisions
  BY OperatingTypes
<1>1. PICK e : e = chain[i].event
  OBVIOUS
<1>2. PICK inserted : inserted = {r \in DOMAIN Content[e].results : r \in known /\ FirstResultOf(t, r)}
  OBVIOUS
<1> DEFINE Row(r) == [initial |-> e, current |-> e, state |-> "current",
                      revision |-> IF Content[e].results[r] \in known
                                   THEN Content[e].results[r] ELSE Nothing]
<1>3. u = [t EXCEPT !.result = [r \in Round |-> IF r \notin inserted THEN t.result[r] ELSE Row(r)]]
  <2>1. FitsColumns(e)
    BY <1>1 DEF MaterializeInitialMatchResults
  <2> QED BY <1>1, <1>2, <2>1 DEF MaterializeInitialMatchResults
<1>4. ASSUME NEW r \in Round PROVE Row(r) \in MatchResult
  <2>1. PICK v : v = IF Content[e].results[r] \in known THEN Content[e].results[r] ELSE Nothing
    OBVIOUS
  <2>2. v \in Revisions \cup {Nothing}
    <3>1. known \subseteq Revisions
      BY <1>0
    <3> QED BY <2>1, <3>1
  <2>3. [initial |-> e, current |-> e, state |-> "current", revision |-> v] \in MatchResult
    BY <1>0, <1>1, <2>2 DEF MatchResult, Revisions
  <2> QED BY <2>1, <2>3, Zenon
<1>5. /\ u.result = [r \in Round |-> IF r \notin inserted THEN t.result[r] ELSE Row(r)]
      /\ u.change = t.change /\ u.event = t.event /\ u.instance = t.instance
  <2> HIDE DEF Row
  <2> QED BY <1>0, <1>3 DEF Tables
<1>6. u \in Tables
  <2> HIDE DEF Row
  <2>1. u.result \in [Round -> MatchResult \cup {Nothing}]
    BY <1>0, <1>4, <1>5 DEF Tables
  <2> QED BY <1>0, <1>3, <1>5, <2>1 DEF Tables
<1>7. CollectiblesFit(u, i)
  BY <1>0, <1>5, CollectiblesApart
<1>8. First(e, i)
  BY <1>1 DEF Operating, First
<1>9. \A r \in inserted : t.result[r] = Nothing
  BY <1>2 DEF FirstResultOf
<1>10. ASSUME NEW r \in Round, r \in inserted PROVE Lineage(u, r, i)
  <2>1. ChangesOf(u, r) = {}
    BY <1>0, <1>5, <1>9, <1>10 DEF ChangesOf, ResultsFit
  <2>2. u.result[r].initial = e /\ u.result[r].current = e /\ u.result[r].state = "current"
    BY <1>5, <1>10
  <2>3. EventsOf(u, r) = {e}
    BY <2>1, <2>2 DEF EventsOf
  <2>4. Cardinality({e}) = 1 /\ Cardinality({}) = 0
    BY FS_Singleton, FS_EmptySet
  <2>5. i \in 1..i
    BY <1>0
  <2> QED BY <1>8, <2>1, <2>2, <2>3, <2>4, <2>5 DEF Lineage
<1>11. ASSUME NEW r \in Round, r \notin inserted, t.result[r] # Nothing PROVE Lineage(u, r, i)
  <2>1. u.result[r] = t.result[r] /\ ChangesOf(u, r) = ChangesOf(t, r)
    BY <1>5, <1>11 DEF ChangesOf
  <2>2. EventsOf(u, r) = EventsOf(t, r)
    BY <2>1 DEF EventsOf
  <2>3. Lineage(t, r, i)
    BY <1>0, <1>11 DEF ResultsFit
  <2> QED BY <2>1, <2>2, <2>3 DEF Lineage
<1>12. ASSUME NEW c \in u.change PROVE u.result[c.round] # Nothing
  <2>1. c.round \in Round /\ t.result[c.round] # Nothing
    BY <1>0, <1>5 DEF Tables, MatchResultChange, ResultsFit
  <2> QED BY <1>5, <1>9, <2>1
<1>13. ResultsFit(u, i)
  <2>1. \A r \in Round : u.result[r] # Nothing => Lineage(u, r, i)
    BY <1>5, <1>10, <1>11
  <2> QED BY <1>0, <1>5, <1>12, <2>1 DEF ResultsFit
<1> QED BY <1>6, <1>7, <1>13 DEF Fits

(* A correction or an invalidation extends the line of its result by an     *)
(* event that is not on it yet.                                             *)
LEMMA ChangeFits ==
    ASSUME NEW t, NEW i, Operating(t, i), Bound(i),
           NEW kind \in {"corrected", "invalidated"}, NEW revision \in Revisions \cup {Nothing},
           Content[chain[i].event].type \in {"corrected", "invalidated"}, reached \in Nat,
           ExtendsCurrent(t, Content[chain[i].event]),
           NEW u \in Changed(t, chain[i].event, kind, revision)
    PROVE  Fits(u, i)
<1>0. /\ i \in Nat /\ 1 <= i /\ i - 1 \in Nat /\ chain[i].event \in Event
      /\ t \in Tables /\ ResultsFit(t, i - 1) /\ ResultsFit(t, i) /\ CollectiblesFit(t, i)
  BY OperatingTypes
<1>1. PICK e : e = chain[i].event
  OBVIOUS
<1>2. PICK r : r = Content[e].round
  OBVIOUS
<1>3. PICK old : old = t.result[r]
  OBVIOUS
<1>4. r \in Round /\ e \in Event
  BY <1>0, <1>1, <1>2, LedgerAssumption
<1>5. old # Nothing /\ old \in MatchResult /\ Content[e].supersedes = old.current
  BY <1>0, <1>1, <1>2, <1>3, <1>4 DEF ExtendsCurrent, Tables
<1>6. old.initial \in Event /\ old.current \in Event
  BY <1>5 DEF MatchResult
<1>7. PICK d : d = [event |-> e, round |-> r, supersedes |-> old.current, type |-> kind,
                    at |-> reached]
  OBVIOUS
<1>8. PICK new : new = [old EXCEPT !.current = e, !.state = kind, !.revision = revision]
  OBVIOUS
<1>9. /\ new \in MatchResult /\ new # Nothing
      /\ new.initial = old.initial /\ new.current = e /\ new.state = kind
  BY <1>4, <1>5, <1>8, LedgerAssumption DEF MatchResult, Revisions
<1>10. d \in MatchResultChange
  BY <1>4, <1>6, <1>7 DEF MatchResultChange
<1>11. u = [t EXCEPT !.change = @ \cup {d}, !.result[r] = new]
  BY <1>0, <1>1, <1>2, <1>3, <1>5, <1>7, <1>8 DEF Changed
<1>12. /\ u.result = [t.result EXCEPT ![r] = new] /\ u.change = t.change \cup {d}
       /\ u.event = t.event /\ u.instance = t.instance
  BY <1>0, <1>11 DEF Tables
<1>13. u \in Tables
  BY <1>0, <1>4, <1>9, <1>10, <1>11 DEF Tables
<1>14. CollectiblesFit(u, i)
  BY <1>0, <1>12, CollectiblesApart
<1>15. /\ Lineage(t, r, i - 1) /\ t.result \in [Round -> MatchResult \cup {Nothing}]
       /\ IsFiniteSet(t.change)
  BY <1>0, <1>3, <1>4, <1>5 DEF ResultsFit, Tables
<1>16. PICK changes : changes = ChangesOf(t, r)
  OBVIOUS
<1>17. PICK events : events = EventsOf(t, r)
  OBVIOUS
<1>18. ChangesOf(u, r) = changes \cup {d}
  BY <1>7, <1>12, <1>16 DEF ChangesOf
<1>19. u.result[r] = new
  BY <1>4, <1>12, <1>15
<1>20. EventsOf(u, r) = events \cup {e}
  <2>1. events = {old.initial} \cup {c.event : c \in changes}
    BY <1>3, <1>16, <1>17 DEF EventsOf
  <2>2. EventsOf(u, r) = {new.initial} \cup {c.event : c \in changes \cup {d}}
    BY <1>18, <1>19 DEF EventsOf
  <2>3. d.event = e
    BY <1>7
  <2> QED BY <1>9, <2>1, <2>2, <2>3
<1>21. First(e, i) /\ i \in 1..i
  BY <1>0, <1>1 DEF Operating, First
<1>22. ASSUME NEW x \in events
       PROVE  \E k \in 1..i : First(x, k) /\ FirstAt(x) = k /\ k < i
  <2>1. PICK k \in 1..(i - 1) : First(x, k)
    BY <1>15, <1>17 DEF Lineage
  <2>2. FirstAt(x) = k
    BY <2>1, FirstIsUnique DEF Operating
  <2> QED BY <1>0, <2>1, <2>2
<1>23. FirstAt(e) = i
  BY <1>21, FirstIsUnique DEF Operating
<1>24. e \notin events
  BY <1>22, <1>23
<1>25. ASSUME NEW c \in changes
       PROVE  c.event \in events /\ c.supersedes \in events
  BY <1>15, <1>16, <1>17 DEF Lineage, EventsOf
<1>26. d \notin changes
  BY <1>7, <1>24, <1>25
<1>27. {x \in events : \A c \in changes : c.supersedes # x} = {old.current}
  BY <1>3, <1>15, <1>16, <1>17 DEF Lineage
<1>28. old.current \in events /\ \A c \in changes : c.supersedes # old.current
  BY <1>27
<1>29. Lineage(u, r, i)
  <2>1. \A x \in EventsOf(u, r) : \E k \in 1..i : First(x, k)
    BY <1>20, <1>21, <1>22
  <2>2. Cardinality(EventsOf(u, r)) = Cardinality(ChangesOf(u, r)) + 1
    <3>1. IsFiniteSet(changes)
      BY <1>15, <1>16, FS_Subset DEF ChangesOf
    <3>2. IsFiniteSet(events)
      <4>1. IsFiniteSet({c.event : c \in changes})
        <5> DEFINE image == [c \in changes |-> c.event]
        <5>1. image \in Surjection(changes, {c.event : c \in changes})
          BY DEF Surjection
        <5> QED BY <3>1, <5>1, FS_Surjection
      <4>2. events = {c.event : c \in changes} \cup {old.initial}
        BY <1>3, <1>16, <1>17 DEF EventsOf
      <4> QED BY <4>1, <4>2, FS_AddElement
    <3>3. Cardinality(events) = Cardinality(changes) + 1
      BY <1>15, <1>16, <1>17 DEF Lineage
    <3>4. /\ Cardinality(events \cup {e}) = Cardinality(events) + 1
          /\ Cardinality(changes \cup {d}) = Cardinality(changes) + 1
      BY <1>24, <1>26, <3>1, <3>2, FS_AddElement
    <3> QED BY <1>18, <1>20, <3>3, <3>4
  <2>3. ASSUME NEW c \in ChangesOf(u, r)
        PROVE  c.supersedes \in EventsOf(u, r) /\ FirstAt(c.supersedes) < FirstAt(c.event)
    <3>1. CASE c \in changes
      BY <1>15, <1>16, <1>17, <1>20, <3>1 DEF Lineage
    <3>2. CASE c = d
      BY <1>7, <1>20, <1>22, <1>23, <1>28, <3>2
    <3> QED BY <1>18, <3>1, <3>2
  <2>4. ASSUME NEW b \in ChangesOf(u, r), NEW c \in ChangesOf(u, r),
               b.supersedes = c.supersedes \/ b.event = c.event
        PROVE  b = c
    <3>1. CASE b \in changes /\ c \in changes
      BY <1>15, <1>16, <2>4, <3>1 DEF Lineage
    <3>2. ASSUME NEW x \in changes PROVE x.supersedes # d.supersedes /\ x.event # d.event
      BY <1>7, <1>24, <1>25, <1>28
    <3> QED BY <1>18, <2>4, <3>1, <3>2
  <2>5. {x \in EventsOf(u, r) : \A c \in ChangesOf(u, r) : c.supersedes # x} = {e}
    <3>1. ASSUME NEW x \in events PROVE \E c \in changes \cup {d} : c.supersedes = x
      BY <1>7, <1>27
    <3>2. ASSUME NEW c \in changes \cup {d} PROVE c.supersedes # e
      BY <1>7, <1>24, <1>25, <1>28
    <3> QED BY <1>18, <1>20, <3>1, <3>2
  <2>6. d \in ChangesOf(u, r) /\ d.event = e /\ d.type = kind
    BY <1>7, <1>18
  <2> QED BY <1>9, <1>19, <2>1, <2>2, <2>3, <2>4, <2>5, <2>6 DEF Lineage
<1>30. ASSUME NEW q \in Round, q # r, t.result[q] # Nothing PROVE Lineage(u, q, i)
  <2>1. u.result[q] = t.result[q] /\ ChangesOf(u, q) = ChangesOf(t, q)
    BY <1>7, <1>12, <1>15, <1>30 DEF ChangesOf
  <2>2. EventsOf(u, q) = EventsOf(t, q)
    BY <2>1 DEF EventsOf
  <2>3. Lineage(t, q, i)
    BY <1>0, <1>30 DEF ResultsFit
  <2> QED BY <2>1, <2>2, <2>3 DEF Lineage
<1>31. ASSUME NEW c \in u.change PROVE u.result[c.round] # Nothing
  <2>1. CASE c \in t.change
    <3>1. c.round \in Round /\ t.result[c.round] # Nothing
      BY <1>0, <2>1 DEF Tables, MatchResultChange, ResultsFit
    <3> QED BY <1>9, <1>12, <1>15, <3>1
  <2>2. CASE c = d
    BY <1>7, <1>9, <1>19, <2>2
  <2> QED BY <1>12, <2>1, <2>2
<1>32. ResultsFit(u, i)
  <2>1. IsFiniteSet(u.change)
    BY <1>12, <1>15, FS_AddElement
  <2>2. \A q \in Round : u.result[q] # Nothing => Lineage(u, q, i)
    BY <1>12, <1>15, <1>29, <1>30
  <2> QED BY <1>31, <2>1, <2>2 DEF ResultsFit
<1> QED BY <1>13, <1>14, <1>32 DEF Fits

(* An operation stores the first row of its event.                          *)
StoresEvent(t, u, i) ==
    /\ t.event[chain[i].event] = Nothing
    /\ u.event = [t.event EXCEPT ![chain[i].event] = i]

(* The events then fit one more operation, the new one being the latest.    *)
EventsExtended(t, u, i) ==
    /\ u.event \in [Event -> Nat \cup {Nothing}]
    /\ \A e \in Event : EventFits(u, e, i)
    /\ u.event[chain[i].event] = i /\ i # Nothing
    /\ \A e \in Event : t.event[e] # Nothing =>
         u.event[e] = t.event[e] /\ t.event[e] \in Nat /\ t.event[e] < i

(* An event row that is written is the first of its event.                  *)
LEMMA EventRowFits ==
    ASSUME NEW t, NEW i, NEW u, Operating(t, i), StoresEvent(t, u, i)
    PROVE  EventsExtended(t, u, i)
<1> USE DEF StoresEvent
<1> DEFINE o == chain[i].event
<1>1. /\ i \in Nat /\ 1 <= i /\ i - 1 \in Nat /\ chain[i].event \in Event
      /\ t \in Tables /\ CollectiblesFit(t, i - 1)
  BY OperatingTypes
<1>2. t.event \in [Event -> Nat \cup {Nothing}]
  BY <1>1 DEF Tables
<1>3. Accepted(i) /\ i # Nothing
  BY <1>1, LedgerAssumption DEF Operating
<1>4. u.event[o] = i
  BY <1>1, <1>2
<1>5. ASSUME NEW e \in Event, t.event[e] # Nothing
      PROVE  /\ u.event[e] = t.event[e] /\ t.event[e] \in 1..(i - 1)
             /\ chain[t.event[e]].event = e /\ Accepted(t.event[e])
  BY <1>1, <1>2, <1>5 DEF CollectiblesFit, EventFits
<1>6. ASSUME NEW e \in Event PROVE EventFits(u, e, i)
  <2>1. CASE e = chain[i].event
    BY <1>1, <1>3, <1>4, <2>1 DEF EventFits
  <2>2. CASE e # chain[i].event
    <3>1. u.event[e] = t.event[e]
      BY <1>2, <2>2
    <3>2. t.event[e] # Nothing => t.event[e] \in 1..i
      BY <1>1, <1>5
    <3> QED BY <1>5, <3>1, <3>2 DEF EventFits
  <2> QED BY <2>1, <2>2
<1> QED BY <1>1, <1>2, <1>3, <1>4, <1>5, <1>6 DEF EventsExtended

(* Instances that are not touched still fit.                                *)
LEMMA InstanceStays ==
    ASSUME NEW t, NEW i, Operating(t, i), NEW u, NEW c \in Collectible,
           t.instance[c] # Nothing, u.instance[c] = t.instance[c],
           \A e \in Event : t.event[e] # Nothing => u.event[e] = t.event[e]
    PROVE  InstanceFits(u, c)
<1>1. t \in Tables /\ InstanceFits(t, c)
  BY OperatingTypes DEF CollectiblesFit
<1>2. PICK it : it = t.instance[c]
  OBVIOUS
<1>3. it.issued \in Event /\ it.revoked \in Event \cup {Nothing}
  BY <1>1, <1>2 DEF Tables, CollectibleInstance
<1>4. /\ t.event[it.issued] # Nothing /\ u.event[it.issued] = t.event[it.issued]
      /\ it.revoked # Nothing => /\ t.event[it.revoked] # Nothing
                                 /\ u.event[it.revoked] = t.event[it.revoked]
  BY <1>1, <1>2, <1>3 DEF InstanceFits
<1> QED BY <1>1, <1>2, <1>4 DEF InstanceFits

(* The signer of an issuance belongs to the issuers the validator allows.   *)
LEMMA IssuerIsAllowed ==
    ASSUME NEW k, Accepted(k), Content[chain[k].event].type = "issued"
    PROVE  chain[k].signer \in CollectibleIssuers
<1>1. IsSignerAllowed(chain[k])
  BY DEF Accepted, Validate
<1> QED BY <1>1 DEF IsSignerAllowed

(* An issuance makes a new instance whose payment nobody used.              *)
LEMMA IssueFits ==
    ASSUME NEW t, NEW i, Operating(t, i), Content[chain[i].event].type = "issued",
           t.event[chain[i].event] = Nothing, NEW u \in Issued(t, i)
    PROVE  Fits(u, i)
<1>0. /\ i \in Nat /\ 1 <= i /\ chain[i].event \in Event /\ t \in Tables
      /\ ResultsFit(t, i) /\ CollectiblesFit(t, i)
  BY OperatingTypes
<1>1. PICK e : e = chain[i].event
  OBVIOUS
<1>2. PICK k : k = Content[e].collectible
  OBVIOUS
<1>3. k \in Collectible /\ e \in Event /\ Content[e].type = "issued" /\ Content[e].payment \in Payment
  BY <1>0, <1>1, <1>2, LedgerAssumption DEF Payment
<1>4. /\ t.event \in [Event -> Nat \cup {Nothing}]
      /\ t.instance \in [Collectible -> CollectibleInstance \cup {Nothing}]
  BY <1>0 DEF Tables
<1>5. CASE t.instance[k] # Nothing
  <2>1. u = [t EXCEPT !.event[e] = i]
    BY <1>1, <1>2, <1>5 DEF Issued
  <2>2. /\ u.event = [t.event EXCEPT ![e] = i] /\ u.instance = t.instance
        /\ u.result = t.result /\ u.change = t.change
    BY <1>0, <2>1 DEF Tables
  <2>3. /\ u.event \in [Event -> Nat \cup {Nothing}]
        /\ \A x \in Event : EventFits(u, x, i)
        /\ \A x \in Event : t.event[x] # Nothing => u.event[x] = t.event[x]
    <3>1. StoresEvent(t, u, i)
      BY <1>1, <2>2 DEF StoresEvent
    <3>2. EventsExtended(t, u, i)
      BY <3>1, EventRowFits
    <3> QED BY <1>1, <3>2 DEF EventsExtended
  <2>4. u \in Tables
    BY <1>0, <2>1, <2>2, <2>3 DEF Tables
  <2>5. \A c \in Collectible : u.instance[c] # Nothing => InstanceFits(u, c)
    BY <2>2, <2>3, InstanceStays
  <2>6. CollectiblesFit(u, i)
    BY <1>0, <2>2, <2>3, <2>5 DEF CollectiblesFit
  <2>7. ResultsFit(u, i)
    BY <1>0, <2>2, ResultsApart
  <2> QED BY <2>4, <2>6, <2>7 DEF Fits
<1>6. CASE t.instance[k] = Nothing
  <2>0. PICK new : new = [issued |-> e, revoked |-> Nothing, state |-> "finalized",
                          payment |-> Content[e].payment]
    OBVIOUS
  <2>1. u = [t EXCEPT !.event[e] = i, !.instance[k] = new] /\ ~PaymentTaken(t, Content[e].payment)
    BY <1>1, <1>2, <1>6, <2>0 DEF Issued
  <2>2. /\ u.event = [t.event EXCEPT ![e] = i] /\ u.instance = [t.instance EXCEPT ![k] = new]
        /\ u.result = t.result /\ u.change = t.change
    BY <1>0, <2>1 DEF Tables
  <2>3. /\ u.event \in [Event -> Nat \cup {Nothing}]
        /\ \A x \in Event : EventFits(u, x, i)
        /\ u.event[e] = i /\ i # Nothing
        /\ \A x \in Event : t.event[x] # Nothing => u.event[x] = t.event[x]
    <3>1. StoresEvent(t, u, i)
      BY <1>1, <2>2 DEF StoresEvent
    <3>2. EventsExtended(t, u, i)
      BY <3>1, EventRowFits
    <3> QED BY <1>1, <3>2 DEF EventsExtended
  <2>4. new \in CollectibleInstance /\ new.payment = Content[e].payment
    BY <1>3, <2>0 DEF CollectibleInstance
  <2>5. u \in Tables
    BY <1>0, <1>3, <1>4, <2>1, <2>2, <2>3, <2>4 DEF Tables
  <2>6. u.instance[k] = new /\ \A c \in Collectible : c # k => u.instance[c] = t.instance[c]
    BY <1>3, <1>4, <2>2
  <2>7. InstanceFits(u, k)
    <3>1. /\ new.issued = e /\ new.revoked = Nothing /\ new.state = "finalized"
      BY <2>0
    <3> QED BY <1>2, <1>3, <2>3, <2>6, <3>1 DEF InstanceFits
  <2>8. \A c \in Collectible : u.instance[c] # Nothing => InstanceFits(u, c)
    BY <2>3, <2>6, <2>7, InstanceStays
  <2>9. ASSUME NEW c \in Collectible, NEW d \in Collectible, c # d,
               u.instance[c] # Nothing, u.instance[d] # Nothing,
               u.instance[c].payment = u.instance[d].payment
        PROVE  u.instance[c].payment = Nothing
    <3>1. CASE c # k /\ d # k
      BY <1>0, <2>6, <2>9, <3>1 DEF CollectiblesFit
    <3>2. CASE c = k \/ d = k
      BY <2>1, <2>4, <2>6, <2>9, <3>2 DEF PaymentTaken
    <3> QED BY <3>1, <3>2
  <2>10. CollectiblesFit(u, i)
    BY <2>3, <2>8, <2>9 DEF CollectiblesFit
  <2>11. ResultsFit(u, i)
    BY <1>0, <2>2, ResultsApart
  <2> QED BY <2>5, <2>10, <2>11 DEF Fits
<1> QED BY <1>5, <1>6

(* A revocation ends a finalized instance, later than its issuance.         *)
LEMMA RevocationFits ==
    ASSUME NEW t, NEW i, Operating(t, i), Content[chain[i].event].type = "revoked",
           RevokesIssuance(t, Content[chain[i].event]), t.event[chain[i].event] = Nothing,
           NEW u \in MaterializeCollectibleRevocation(t, i)
    PROVE  Fits(u, i)
<1>0. /\ i \in Nat /\ 1 <= i /\ chain[i].event \in Event /\ t \in Tables
      /\ ResultsFit(t, i) /\ CollectiblesFit(t, i)
  BY OperatingTypes
<1>1. PICK e : e = chain[i].event
  OBVIOUS
<1>2. PICK k : k = Content[e].collectible
  OBVIOUS
<1>3. PICK old : old = t.instance[k]
  OBVIOUS
<1>4. k \in Collectible /\ e \in Event
  BY <1>0, <1>1, <1>2, LedgerAssumption
<1>5. /\ t.event \in [Event -> Nat \cup {Nothing}]
      /\ t.instance \in [Collectible -> CollectibleInstance \cup {Nothing}]
  BY <1>0 DEF Tables
<1>6. /\ old # Nothing /\ old \in CollectibleInstance /\ old.issued = Content[e].issued
      /\ InstanceFits(t, k) /\ old.issued \in Event /\ e # Nothing
  <2>1. old # Nothing /\ old.issued = Content[e].issued
    BY <1>1, <1>2, <1>3 DEF RevokesIssuance
  <2>2. old \in CollectibleInstance
    BY <1>3, <1>4, <1>5, <2>1
  <2> QED BY <1>0, <1>3, <1>4, <2>1, <2>2, LedgerAssumption
          DEF CollectiblesFit, CollectibleInstance
<1>7. PICK new : new = [old EXCEPT !.state = "revoked", !.revoked = e]
  OBVIOUS
<1>8. /\ new \in CollectibleInstance /\ new.issued = old.issued /\ new.payment = old.payment
      /\ new.revoked = e /\ new.state = "revoked"
  BY <1>4, <1>6, <1>7 DEF CollectibleInstance
<1>9. u = [t EXCEPT !.event[e] = i, !.instance[k] = new]
  <2>1. FitsColumns(e)
    BY <1>1 DEF MaterializeCollectibleRevocation
  <2> QED BY <1>0, <1>1, <1>2, <1>3, <1>7, <2>1 DEF MaterializeCollectibleRevocation
<1>10. /\ u.event = [t.event EXCEPT ![e] = i] /\ u.instance = [t.instance EXCEPT ![k] = new]
       /\ u.result = t.result /\ u.change = t.change
  BY <1>0, <1>9 DEF Tables
<1>11. /\ u.event \in [Event -> Nat \cup {Nothing}]
       /\ \A x \in Event : EventFits(u, x, i)
       /\ u.event[e] = i /\ i # Nothing
       /\ \A x \in Event : t.event[x] # Nothing =>
            u.event[x] = t.event[x] /\ t.event[x] \in Nat /\ t.event[x] < i
  <2>1. StoresEvent(t, u, i)
    BY <1>1, <1>10 DEF StoresEvent
  <2>2. EventsExtended(t, u, i)
    BY <2>1, EventRowFits
  <2> QED BY <1>1, <2>2 DEF EventsExtended
<1>12. u \in Tables
  BY <1>0, <1>4, <1>5, <1>8, <1>9, <1>10, <1>11 DEF Tables
<1>13. u.instance[k] = new /\ \A c \in Collectible : c # k => u.instance[c] = t.instance[c]
  BY <1>4, <1>5, <1>10
<1>14. InstanceFits(u, k)
  <2>1. /\ Content[old.issued].collectible = k /\ Content[old.issued].type = "issued"
        /\ t.event[old.issued] # Nothing
    BY <1>3, <1>6 DEF InstanceFits
  <2>2. u.event[old.issued] = t.event[old.issued] /\ u.event[old.issued] < u.event[e]
    BY <1>6, <1>11, <2>1
  <2> QED BY <1>6, <1>8, <1>11, <1>13, <2>1, <2>2 DEF InstanceFits
<1>15. \A c \in Collectible : u.instance[c] # Nothing => InstanceFits(u, c)
  BY <1>11, <1>13, <1>14, InstanceStays
<1>16. \A c \in Collectible : u.instance[c] # Nothing =>
         t.instance[c] # Nothing /\ u.instance[c].payment = t.instance[c].payment
  BY <1>3, <1>6, <1>8, <1>13
<1>17. CollectiblesFit(u, i)
  <2>1. ASSUME NEW c \in Collectible, NEW d \in Collectible, c # d,
               u.instance[c] # Nothing, u.instance[d] # Nothing,
               u.instance[c].payment = u.instance[d].payment
        PROVE  u.instance[c].payment = Nothing
    BY <1>0, <1>16, <2>1 DEF CollectiblesFit
  <2> QED BY <1>11, <1>15, <2>1 DEF CollectiblesFit
<1>18. ResultsFit(u, i)
  BY <1>0, <1>10, ResultsApart
<1> QED BY <1>12, <1>17, <1>18 DEF Fits

(* Whatever an operation is, it takes tables that fit to tables that fit.   *)
LEMMA OperationFits ==
    ASSUME chain \in Seq(Operations), limit \in Scenarios, known \subseteq limit.rows,
           reached \in Nat,
           NEW i \in DOMAIN chain, NEW t, Fits(t, i - 1), NEW u \in MaterializeOperation(t, i)
    PROVE  Fits(u, i)
<1>1. chain[i].event \in Event /\ i \in Nat /\ i - 1 \in Nat /\ i - 1 <= i
  BY OperationsCarryEvents
<1>2. Fits(t, i)
  BY <1>1, FitsLonger DEF Fits
<1>3. CASE u = t
  BY <1>2, <1>3
<1>4. CASE ~Accepted(i)
  BY <1>3, <1>4 DEF MaterializeOperation
<1>5. CASE Accepted(i) /\ u # t
  <2>1. Operating(t, i)
    BY <1>5 DEF Operating
  <2>2. PICK e : e = chain[i].event
    OBVIOUS
  <2>3. PICK type : type = Content[e].type
    OBVIOUS
  <2>4. /\ t \in Tables /\ known \subseteq Revisions
        /\ type \in {"issued", "revoked", "batch", "corrected", "invalidated"}
        /\ type \in {"corrected", "invalidated"} => Content[e].round \in Round
    BY <1>1, <2>1, <2>2, <2>3, OperatingTypes, LedgerAssumption
  <2>5. CASE type = "issued"
    <3>1. u \in MaterializeCollectibleIssue(t, i)
      BY <1>5, <2>2, <2>3, <2>5 DEF MaterializeOperation
    <3>2. t.event[chain[i].event] = Nothing /\ u \in Issued(t, i)
      BY <1>5, <3>1 DEF MaterializeCollectibleIssue
    <3> QED BY <2>1, <2>2, <2>3, <2>5, <3>2, IssueFits
  <2>6. CASE type = "revoked"
    <3>1. u \in MaterializeCollectibleRevocation(t, i)
      BY <1>5, <2>2, <2>3, <2>6 DEF MaterializeOperation
    <3>2. RevokesIssuance(t, Content[chain[i].event]) /\ t.event[chain[i].event] = Nothing
      BY <1>5, <3>1 DEF MaterializeCollectibleRevocation
    <3> QED BY <2>1, <2>2, <2>3, <2>6, <3>1, <3>2, RevocationFits
  <2>7. CASE type = "batch"
    <3>1. Bound(i) /\ u \in MaterializeInitialMatchResults(t, chain[i].event)
      BY <1>5, <2>2, <2>3, <2>7 DEF MaterializeOperation
    <3> QED BY <2>1, <3>1, InitialResultsFit
  <2>8. CASE type = "corrected"
    <3>0. LookupPrepares /\ FitsColumns(e)
      BY <1>5, <2>2, <2>3, <2>8 DEF MaterializeOperation, MaterializeMatchCorrection
    <3>1. Bound(i) /\ u \in MaterializeMatchCorrection(t, e)
      BY <1>5, <2>2, <2>3, <2>8 DEF MaterializeOperation
    <3>2. /\ ExtendsCurrent(t, Content[e]) /\ Content[e].revision \in known
          /\ u \in Changed(t, e, "corrected", Content[e].revision)
      BY <1>5, <3>0, <3>1 DEF MaterializeMatchCorrection
    <3>3. PICK v \in Revisions \cup {Nothing} : v = Content[e].revision
      BY <2>4, <3>2
    <3> QED BY <2>1, <2>2, <2>3, <2>8, <3>1, <3>2, <3>3, ChangeFits
  <2>9. CASE type = "invalidated"
    <3>1. Bound(i) /\ u \in MaterializeMatchInvalidation(t, e)
      BY <1>5, <2>2, <2>3, <2>9 DEF MaterializeOperation
    <3>2. /\ ExtendsCurrent(t, Content[e])
          /\ u \in Changed(t, e, "invalidated", t.result[Content[e].round].revision)
      BY <1>5, <3>1 DEF MaterializeMatchInvalidation
    <3>3. t.result[Content[e].round] \in MatchResult
      BY <2>4, <2>9, <3>2 DEF ExtendsCurrent, Tables
    <3>4. PICK v \in Revisions \cup {Nothing} : v = t.result[Content[e].round].revision
      BY <3>3 DEF MatchResult, Revisions
    <3> QED BY <2>1, <2>2, <2>3, <2>9, <3>1, <3>2, <3>4, ChangeFits
  <2> QED BY <2>4, <2>5, <2>6, <2>7, <2>8, <2>9
<1> QED BY <1>3, <1>4, <1>5

-----------------------------------------------------------------------------
(* The steps.                                                               *)

(* The chain only grows, and what fitted it still does.                     *)
ChainGrows ==
    /\ chain \in Seq(Operations) /\ Len(chain') \in Nat /\ DOMAIN chain' = 1..Len(chain')
    /\ Len(chain) <= Len(chain') /\ \A k \in DOMAIN chain : chain'[k] = chain[k]

(* Tables that fit a chain fit it when it has grown.                        *)
LEMMA FitsGrown ==
    ASSUME ChainGrows, NEW t, NEW n \in 0..Len(chain), Fits(t, n)
    PROVE  Fits(t, n)'
<1>1. /\ Len(chain) \in Nat /\ DOMAIN chain = 1..Len(chain) /\ DOMAIN chain \subseteq DOMAIN chain'
      /\ 1..n \subseteq DOMAIN chain
  BY DEF ChainGrows
<1>2. ASSUME NEW k \in DOMAIN chain
      PROVE  /\ Accepted(k)' <=> Accepted(k)
             /\ BatchOf(k)' = BatchOf(k) /\ chain'[k].event = chain[k].event
  BY DEF Accepted, BatchOf, ChainGrows
<1>3. ASSUME NEW k \in DOMAIN chain PROVE Bound(k)' <=> Bound(k)
  <2>1. 1..(k - 1) \subseteq DOMAIN chain
    BY <1>1
  <2> QED BY <1>2, <2>1 DEF Bound
<1>4. ASSUME NEW e, NEW k \in 1..n, First(e, k)
      PROVE  First(e, k)' /\ FirstAt(e)' = FirstAt(e)
  <2>1. k \in DOMAIN chain /\ k \in DOMAIN chain' /\ k \in Nat /\ 1 <= k
    BY <1>1
  <2>2. First(e, k)'
    BY <1>2, <1>3, <1>4, <2>1 DEF First
  <2>3. ASSUME NEW j, First(e, j)' PROVE j = k
    <3>1. j \in DOMAIN chain' /\ j \in Nat /\ 1 <= j /\ (chain[j].event)' = e
          /\ Accepted(j)' /\ Bound(j)'
      BY <2>3 DEF First, ChainGrows
    <3>2. CASE j < k
      <4>1. j \in 1..(k - 1)
        BY <2>1, <3>1, <3>2
      <4> QED BY <2>2, <3>1, <4>1 DEF First, Bound
    <3>3. CASE k < j
      <4>1. k \in 1..(j - 1)
        BY <2>1, <3>1, <3>3
      <4> QED BY <2>2, <3>1, <4>1 DEF First, Bound
    <3> QED BY <2>1, <3>1, <3>2, <3>3
  <2>4. FirstAt(e)' = k
    <3>1. FirstAt(e)' = CHOOSE i \in DOMAIN chain' : First(e, i)'
      BY DEF FirstAt, First
    <3>2. PICK f : f = CHOOSE i \in DOMAIN chain' : First(e, i)'
      OBVIOUS
    <3>3. First(e, f)'
      BY <2>1, <2>2, <3>2
    <3> QED BY <2>3, <3>1, <3>2, <3>3
  <2>5. FirstAt(e) = k
    BY <1>4, FirstIsUnique DEF ChainGrows
  <2> QED BY <2>2, <2>4, <2>5
<1>5. ASSUME NEW r, Lineage(t, r, n) PROVE Lineage(t, r, n)'
  <2>1. ChangesOf(t, r)' = ChangesOf(t, r) /\ EventsOf(t, r)' = EventsOf(t, r)
    BY DEF ChangesOf, EventsOf
  <2>2. \A e \in EventsOf(t, r) : (\E k \in 1..n : First(e, k)') /\ FirstAt(e)' = FirstAt(e)
    BY <1>4, <1>5 DEF Lineage
  <2>3. \A c \in ChangesOf(t, r) : c.event \in EventsOf(t, r) /\ c.supersedes \in EventsOf(t, r)
    BY <1>5 DEF Lineage, EventsOf
  <2> QED BY <1>5, <2>1, <2>2, <2>3 DEF Lineage
<1>6. ASSUME NEW e, EventFits(t, e, n) PROVE EventFits(t, e, n)'
  BY <1>1, <1>2, <1>6 DEF EventFits
<1>7. ResultsFit(t, n)'
  BY <1>5 DEF Fits, ResultsFit
<1>8. CollectiblesFit(t, n)'
  BY <1>6 DEF Fits, CollectiblesFit, InstanceFits
<1> QED BY <1>7, <1>8 DEF Fits, Tables

(* An operation adds no change, or one of the transaction that is running.  *)
LEMMA OperationAddsChanges ==
    ASSUME NEW i, chain[i].event \in Event,
           NEW t \in Tables, NEW u \in MaterializeOperation(t, i), NEW c \in u.change
    PROVE  c \in t.change \/ c.at = reached
<1>1. PICK e : e = chain[i].event
  OBVIOUS
<1>2. ASSUME NEW kind, NEW revision, u \in Changed(t, e, kind, revision)
      PROVE  c \in t.change \/ c.at = reached
  <2>1. PICK d : d = [event |-> e, round |-> Content[e].round,
                      supersedes |-> Content[e].supersedes, type |-> kind, at |-> reached]
    OBVIOUS
  <2>2. u.change = t.change \cup {d}
    BY <1>2, <2>1 DEF Changed, Tables
  <2> QED BY <2>1, <2>2
<1>3. u \in MaterializeInitialMatchResults(t, e) => u.change = t.change
  BY DEF MaterializeInitialMatchResults, Tables
<1>4. u \in Issued(t, i) => u.change = t.change
  BY DEF Issued, Tables
<1>5. u \in MaterializeCollectibleIssue(t, i) => u.change = t.change
  BY <1>4 DEF MaterializeCollectibleIssue
<1>6. u \in MaterializeCollectibleRevocation(t, i) => u.change = t.change
  BY DEF MaterializeCollectibleRevocation, Tables
<1>7. u \in MaterializeMatchCorrection(t, e) => c \in t.change \/ c.at = reached
  BY <1>2 DEF MaterializeMatchCorrection
<1>8. u \in MaterializeMatchInvalidation(t, e) => c \in t.change \/ c.at = reached
  BY <1>2 DEF MaterializeMatchInvalidation
<1>9. \/ u \in {t} \/ u \in MaterializeCollectibleIssue(t, i)
      \/ u \in MaterializeCollectibleRevocation(t, i)
      \/ u \in MaterializeInitialMatchResults(t, e)
      \/ u \in MaterializeMatchCorrection(t, e) \/ u \in MaterializeMatchInvalidation(t, e)
  <2>1. PICK type : type = Content[e].type
    OBVIOUS
  <2>2. type \in {"issued", "revoked", "batch", "corrected", "invalidated"}
    BY <1>1, <2>1, LedgerAssumption
  <2> QED BY <1>1, <2>1, <2>2 DEF MaterializeOperation
<1> QED BY <1>3, <1>5, <1>6, <1>7, <1>8, <1>9

(* What a transaction left, all of it under way or there before.            *)
Underway(t, i) == Fits(t, i) /\ \A c \in t.change : c \in tables.change \/ c.at = reached

(* Whatever part of the chain one transaction finalizes.                    *)
LEMMA FinalizeKeeps ==
    ASSUME LedgerInv, FinalizeThrough
    PROVE  LedgerTypes' /\ Fits(tables, final)' /\ OneChangeEach(tables, final)'
<1>0. PICK n : n = reached
  OBVIOUS
<1>1. /\ chain \in Seq(Operations) /\ limit \in Scenarios /\ known \subseteq limit.rows
      /\ final \in Nat /\ n \in Nat /\ final + 1 <= n /\ n <= Len(chain)
      /\ Fits(tables, final) /\ OneChangeEach(tables, final)
  BY <1>0 DEF LedgerInv, LedgerTypes, SigningInv, SigningTypes, FinalizeThrough
<1> DEFINE G == [i \in Nat |-> {t \in Tables : Underway(t, i)}]
<1>2. tables \in G[final]
  BY <1>1 DEF Fits, Underway
<1>3. ASSUME NEW i \in (final + 1)..n, NEW t \in G[i - 1], NEW u \in MaterializeOperation(t, i)
      PROVE  u \in G[i]
  <2>1. i \in DOMAIN chain /\ i \in Nat /\ i - 1 \in Nat
    BY <1>1
  <2>2. Fits(t, i - 1) /\ \A c \in t.change : c \in tables.change \/ c.at = reached
    BY <2>1 DEF Underway
  <2>3. Fits(u, i)
    BY <1>0, <1>1, <2>1, <2>2, OperationFits
  <2>4. \A c \in u.change : c \in tables.change \/ c.at = reached
    <3>1. chain[i].event \in Event
      BY <1>1, <2>1, OperationsCarryEvents
    <3> QED BY <2>2, <3>1, OperationAddsChanges DEF Fits
  <2> QED BY <2>1, <2>3, <2>4 DEF Fits, Underway
<1>4. MaterializeIrreversibleEvents(n) \subseteq G[n]
  <2> HIDE DEF G
  <2>1. final <= n
    BY <1>1
  <2>2. \A i \in (final + 1)..n : \A t \in G[i - 1] : MaterializeOperation(t, i) \subseteq G[i]
    BY <1>3
  <2> QED BY <1>1, <1>2, <2>1, <2>2, SweepInduction
<1>5. PICK u \in MaterializeIrreversibleEvents(n) : ChangesAreHeads(u) /\ tables' = u
  BY <1>0 DEF FinalizeThrough
<1>6. Fits(u, n) /\ \A c \in u.change : c \in tables.change \/ c.at = n
  BY <1>0, <1>1, <1>4, <1>5 DEF Underway
<1>7. /\ UNCHANGED <<limit, clock, chain, known, reached>> /\ final' = n /\ tables' = u
  BY <1>0, <1>5 DEF FinalizeThrough, signingVars
<1>8. Fits(tables, final)'
  <2>1. ChainGrows /\ n \in 0..Len(chain)
    BY <1>1, <1>7 DEF ChainGrows
  <2>2. Fits(u, n)'
    BY <1>6, <2>1, FitsGrown
  <2> QED BY <1>7, <2>2
<1>9. LedgerTypes'
  BY <1>0, <1>1, <1>7 DEF LedgerInv, LedgerTypes, Operations
<1>10. OneChangeEach(u, n)
  <2>1. ASSUME NEW c \in tables.change PROVE c.at \in Nat /\ c.at <= final /\ c.at # n
    <3>1. c.at \in Nat
      BY <1>1 DEF Fits, Tables, MatchResultChange
    <3> QED BY <1>1, <3>1 DEF OneChangeEach
  <2>2. ASSUME NEW c \in u.change, NEW d \in u.change, c.round = d.round, c.at = d.at
        PROVE  c = d
    <3>1. CASE c \in tables.change /\ d \in tables.change
      BY <1>1, <2>2, <3>1 DEF OneChangeEach
    <3>2. CASE c \notin tables.change /\ d \notin tables.change
      <4>1. u.result[c.round].current = c.event /\ u.result[d.round].current = d.event
        BY <1>5, <3>2 DEF ChangesAreHeads
      <4>2. c.event = d.event
        BY <2>2, <4>1
      <4>3. c.round \in Round /\ u.result[c.round] # Nothing
        BY <1>6 DEF Fits, ResultsFit, Tables, MatchResultChange
      <4>4. Lineage(u, c.round, n)
        BY <1>6, <4>3 DEF Fits, ResultsFit
      <4>5. c \in ChangesOf(u, c.round) /\ d \in ChangesOf(u, c.round)
        BY <2>2 DEF ChangesOf
      <4> QED BY <4>2, <4>4, <4>5 DEF Lineage
    <3> QED BY <1>6, <2>1, <2>2, <3>1, <3>2
  <2>3. \A c \in u.change : c.at <= n
    BY <1>1, <1>6, <2>1
  <2> QED BY <2>2, <2>3 DEF OneChangeEach
<1>11. OneChangeEach(tables, final)'
  BY <1>7, <1>10 DEF OneChangeEach
<1> QED BY <1>8, <1>9, <1>11

(* What a node took is a transaction of the issuer.                         *)
LEMMA SubmittedTypes ==
    ASSUME SigningInv, NEW tx \in submitted
    PROVE  tx \in Transaction
<1>1. PICK i \in DOMAIN signatures : signatures[i].tx = tx
  BY DEF SigningInv, SubmittedIsVouched, Vouched
<1>2. signatures[i] \in Signature
  BY DEF SigningInv, SigningTypes
<1> QED BY <1>1, <1>2 DEF Signature

(* The tables stay as they are under a chain that grows or stays.           *)
LEMMA TablesStay ==
    ASSUME LedgerInv, ChainGrows, UNCHANGED <<final, tables>>
    PROVE  Fits(tables, final)' /\ OneChangeEach(tables, final)'
<1>1. PICK t : t = tables
  OBVIOUS
<1>2. PICK n : n = final
  OBVIOUS
<1>3. n \in 0..Len(chain) /\ Fits(t, n)
  BY <1>1, <1>2 DEF LedgerInv, LedgerTypes
<1>4. Fits(t, n)'
  BY <1>3, FitsGrown
<1>5. OneChangeEach(tables, final)'
  BY DEF LedgerInv, OneChangeEach
<1> QED BY <1>1, <1>2, <1>4, <1>5

(* An operation is included.                                                *)
LEMMA InclusionKeeps ==
    ASSUME LedgerInv, NEW op \in Operations, chain' = Append(chain, op),
           UNCHANGED <<limit, clock, ledgerVars>>
    PROVE  LedgerTypes' /\ Fits(tables, final)' /\ OneChangeEach(tables, final)'
<1>1. chain \in Seq(Operations) /\ UNCHANGED <<known, reached, final, tables>> /\ Operations' = Operations
  BY DEF LedgerInv, LedgerTypes, ledgerVars, Operations
<1>2. /\ chain' \in Seq(Operations) /\ Len(chain') = Len(chain) + 1
      /\ \A k \in DOMAIN chain : chain'[k] = chain[k]
  BY <1>1
<1>3. ChainGrows
  BY <1>1, <1>2 DEF ChainGrows
<1>4. Fits(tables, final)' /\ OneChangeEach(tables, final)'
  BY <1>1, <1>3, TablesStay
<1>5. LedgerTypes'
  BY <1>1, <1>2 DEF LedgerInv, LedgerTypes
<1> QED BY <1>4, <1>5

(* Time passes, a row is written, more of the chain is reached, or nothing  *)
(* happens to the ledger at all.                                            *)
LEMMA QuietKeeps ==
    ASSUME LedgerInv, UNCHANGED <<limit, chain, final, tables>>,
           reached' \in reached..Len(chain),
           clock' \in 0..limit.clock, known' \subseteq limit.rows
    PROVE  LedgerTypes' /\ Fits(tables, final)' /\ OneChangeEach(tables, final)'
<1>1. ChainGrows
  BY DEF LedgerInv, LedgerTypes, ChainGrows
<1>2. Fits(tables, final)' /\ OneChangeEach(tables, final)'
  BY <1>1, TablesStay
<1>3. LedgerTypes'
  BY DEF LedgerInv, LedgerTypes, Operations
<1> QED BY <1>2, <1>3

(* The steps of the issuer, the signer and the chain.                       *)
LEMMA SigningStepKeeps ==
    ASSUME LedgerInv, SigningNext, UNCHANGED ledgerVars
    PROVE  LedgerTypes' /\ Fits(tables, final)' /\ OneChangeEach(tables, final)'
<1>1. /\ UNCHANGED <<known, reached, final, tables>> /\ reached' \in reached..Len(chain) /\ known \subseteq limit.rows
      /\ clock \in 0..limit.clock /\ clock \in Nat /\ limit.clock \in Nat
  BY SignerAssumption DEF ledgerVars, LedgerInv, LedgerTypes, SigningInv, SigningTypes
<1>2. CASE UNCHANGED <<limit, chain, clock>>
  BY <1>1, <1>2, QuietKeeps
<1>3. ASSUME NEW w \in Worker, Publish(w) PROVE UNCHANGED <<limit, chain, clock>>
  BY <1>3 DEF Publish, PrepareOfficialEvent, RecordPrepared, SendSignerRequest,
              SignerUnavailable, BroadcastTransaction, BroadcastFails, MarkBroadcast,
              MarkBroadcastFails, MarkFailed, AttemptLost
<1>4. ASSUME NEW h \in Handler, SignerStep(h) PROVE UNCHANGED <<limit, chain, clock>>
  BY <1>4 DEF SignerStep, Sign, SignDigest, SignDigestFails, CompleteReservation,
              CompleteFails, SignerLost
<1>5. CASE Tick
  <2>1. clock' \in 0..limit.clock /\ UNCHANGED <<limit, chain>>
    BY <1>1, <1>5 DEF Tick
  <2> QED BY <1>1, <2>1, QuietKeeps
<1>6. ASSUME NEW tx \in submitted, Include(tx) 
      PROVE  LedgerTypes' /\ Fits(tables, final)' /\ OneChangeEach(tables, final)'
  <2>1. PICK op : op = [event |-> tx.event, signer |-> tx.account, form |-> "posting",
                        at |-> clock, tx |-> tx]
    OBVIOUS
  <2>2. tx \in Transaction
    BY SubmittedTypes DEF LedgerInv
  <2>3. op \in Operations
    BY <1>1, <2>1, <2>2 DEF Operations
  <2>4. chain' = Append(chain, op) /\ UNCHANGED <<limit, clock>>
    BY <1>6, <2>1 DEF Include
  <2> QED BY <2>3, <2>4, InclusionKeeps
<1> QED BY <1>2, <1>3, <1>4, <1>5, <1>6 DEF SigningNext

(* The projection starts empty.                                             *)
LEMMA LedgerInitial == Init => LedgerInv
<1> SUFFICES ASSUME Init PROVE LedgerInv
  OBVIOUS
<1>1. /\ chain = <<>> /\ final = 0 /\ reached = 0 /\ clock = 0 /\ known = {} /\ limit.clock \in Nat
      /\ tables = EmptyTables
  BY SignerAssumption DEF Init, SigningInit
<1>2. LedgerTypes
  BY <1>1 DEF LedgerTypes
<1>3. /\ tables.result = [r \in Round |-> Nothing] /\ tables.change = {}
      /\ tables.event = [e \in Event |-> Nothing]
      /\ tables.instance = [c \in Collectible |-> Nothing]
  BY <1>1 DEF EmptyTables
<1>4. tables \in Tables
  BY <1>1 DEF Tables, EmptyTables
<1>5. ResultsFit(tables, final)
  BY <1>3, FS_EmptySet DEF ResultsFit
<1>6. CollectiblesFit(tables, final)
  BY <1>3 DEF CollectiblesFit, EventFits
<1>7. OneChangeEach(tables, final)
  BY <1>3 DEF OneChangeEach
<1> QED BY <1>2, <1>4, <1>5, <1>6, <1>7, SigningInitial DEF LedgerInv, Fits

(* Every step keeps the invariant.                                          *)
LEMMA LedgerStep == LedgerInv /\ [Next]_allVars => LedgerInv'
<1> SUFFICES ASSUME LedgerInv, [Next]_allVars PROVE LedgerInv'
  OBVIOUS
<1>0. SigningInv'
  BY SigningStep DEF LedgerInv
<1>1. /\ clock \in 0..limit.clock /\ clock \in Nat /\ known \subseteq limit.rows
      /\ reached \in reached..Len(chain)
  BY DEF LedgerInv, LedgerTypes, SigningInv, SigningTypes
<1>2. CASE SigningNext /\ UNCHANGED ledgerVars
  BY <1>0, <1>2, SigningStepKeeps DEF LedgerInv
<1>3. ASSUME NEW op \in limit.others, PublishedElsewhere(op) PROVE LedgerInv'
  <2>1. PICK o : o = [event |-> op.event, signer |-> op.signer, form |-> op.form,
                      at |-> clock, tx |-> op.tx]
    OBVIOUS
  <2>2. o \in Operations
    BY <1>1, <2>1 DEF Operations
  <2>3. chain' = Append(chain, o) /\ UNCHANGED <<limit, clock, ledgerVars>>
    BY <1>3, <2>1 DEF PublishedElsewhere
  <2> QED BY <1>0, <2>2, <2>3, InclusionKeeps DEF LedgerInv
<1>4. ASSUME NEW row \in limit.rows, RowWritten(row) PROVE LedgerInv'
  <2>1. /\ UNCHANGED <<limit, chain, final, tables>> /\ reached' \in reached..Len(chain)
        /\ clock' \in 0..limit.clock /\ known' \subseteq limit.rows
    BY <1>1, <1>4 DEF RowWritten, signingVars
  <2> QED BY <1>0, <2>1, QuietKeeps DEF LedgerInv
<1>5. CASE FinalizeThrough
  BY <1>0, <1>5, FinalizeKeeps DEF LedgerInv
<1>7. ASSUME NEW n \in DOMAIN chain, Reach(n) PROVE LedgerInv'
  <2>1. /\ UNCHANGED <<limit, chain, final, tables>> /\ reached' \in reached..Len(chain)
        /\ clock' \in 0..limit.clock /\ known' \subseteq limit.rows
    BY <1>1, <1>7 DEF Reach, signingVars, LedgerInv, LedgerTypes
  <2> QED BY <1>0, <2>1, QuietKeeps DEF LedgerInv
<1>6. CASE UNCHANGED allVars
  <2>1. /\ UNCHANGED <<limit, chain, final, tables>> /\ reached' \in reached..Len(chain)
        /\ clock' \in 0..limit.clock /\ known' \subseteq limit.rows
    BY <1>1, <1>6 DEF allVars, ledgerVars, signingVars
  <2> QED BY <1>0, <2>1, QuietKeeps DEF LedgerInv
<1> QED BY <1>2, <1>3, <1>4, <1>5, <1>6, <1>7 DEF Next

-----------------------------------------------------------------------------
(* The theorems.                                                            *)

(* The inductive invariant holds in every reachable state: whatever part of *)
(* the chain each finalizing transaction takes, the tables fit what is      *)
(* final of it.                                                             *)
THEOREM LedgerInvariant == Spec => []LedgerInv
<1>1. Init => LedgerInv
  BY LedgerInitial
<1>2. LedgerInv /\ [Next]_allVars => LedgerInv'
  BY LedgerStep
<1> QED BY <1>1, <1>2, PTL DEF Spec

(* The journal, the attempts, the signer's handlers and the projected rows  *)
(* keep the shape of their types.                                           *)
THEOREM LedgerTypeSafe == Spec => []TypeOK
<1>1. LedgerInv => TypeOK
  <2> SUFFICES ASSUME LedgerInv PROVE TypeOK
    OBVIOUS
  <2>1. SigningInv /\ LedgerTypes /\ tables \in Tables /\ CollectiblesFit(tables, final)
    BY DEF LedgerInv, Fits
  <2>2. clock \in 0..limit.clock /\ final \in 0..reached /\ reached \in 0..Len(chain)
    BY <2>1 DEF LedgerTypes
  <2>3. \A k \in Key : journal[k] = Nothing \/
          journal[k].state \in {"awaiting_signature", "broadcast", "failed"}
    BY <2>1 DEF SigningInv, SigningTypes, TransactionIntent
  <2>4. ASSUME NEW w \in Worker PROVE (pc[w] = "idle") <=> (job[w] = NoJob)
    <3>1. NoJob \notin Job
      BY LedgerAssumption DEF NoJob, Job
    <3>2. AttemptIsJournaled(w)
      BY <2>1 DEF SigningInv
    <3> QED BY <3>1, <3>2 DEF AttemptIsJournaled
  <2>5. \A h \in Handler : handler[h] # Nothing =>
          reservation[handler[h].req.key].binding = Binding(handler[h].req)
    BY <2>1 DEF SigningInv, HandlersHoldReservations
  <2>6. \A r \in Round : tables.result[r] = Nothing \/
          tables.result[r].state \in {"current", "corrected", "invalidated"}
    BY <2>1 DEF Tables, MatchResult
  <2>7. \A e \in Event : tables.event[e] = Nothing \/ tables.event[e] \in 1..final
    BY <2>1 DEF CollectiblesFit, EventFits
  <2> QED BY <2>2, <2>3, <2>4, <2>5, <2>6, <2>7 DEF TypeOK
<1> QED BY <1>1, LedgerInvariant, PTL

(* materializeMatchCorrection and materializeMatchInvalidation leave one    *)
(* line of changes from the initial event of a result to the current one,   *)
(* each later on Hive than what it supersedes, in whatever order the events *)
(* arrive; the deferred trigger leaves one change of it to a transaction.   *)
THEOREM CurrentIsHead == Spec => []CurrentIsChainHead
<1>1. LedgerInv => CurrentIsChainHead
  <2> SUFFICES ASSUME LedgerInv, NEW r \in Round, tables.result[r] # Nothing
               PROVE  LET result == tables.result[r]
                          changes == {c \in tables.change : c.round = r}
                          events == {result.initial} \cup {c.event : c \in changes} IN
                      /\ Cardinality(events) = Cardinality(changes) + 1
                      /\ \A c \in changes : c.supersedes \in events
                                            /\ FirstAt(c.supersedes) < FirstAt(c.event)
                      /\ \A c, d \in changes :
                           c.supersedes = d.supersedes \/ c.at = d.at => c = d
                      /\ {e \in events : \A c \in changes : c.supersedes # e} = {result.current}
                      /\ result.state = IF changes = {} THEN "current"
                                        ELSE (CHOOSE c \in changes : c.event = result.current).type
    BY DEF CurrentIsChainHead
  <2>1. Lineage(tables, r, final)
    BY DEF LedgerInv, Fits, ResultsFit
  <2>3. \A c, d \in ChangesOf(tables, r) : c.at = d.at => c = d
    BY DEF LedgerInv, OneChangeEach, ChangesOf
  <2>2. ASSUME ChangesOf(tables, r) # {}
        PROVE  tables.result[r].state =
                 (CHOOSE c \in ChangesOf(tables, r) : c.event = tables.result[r].current).type
    <3>1. PICK c \in ChangesOf(tables, r) :
            c.event = tables.result[r].current /\ c.type = tables.result[r].state
      BY <2>1, <2>2 DEF Lineage
    <3>2. \A d \in ChangesOf(tables, r) : d.event = c.event => d = c
      BY <2>1 DEF Lineage
    <3>3. (CHOOSE d \in ChangesOf(tables, r) : d.event = tables.result[r].current) = c
      BY <3>1, <3>2
    <3> QED BY <3>1, <3>3
  <2> QED BY <2>1, <2>2, <2>3 DEF Lineage, ChangesOf, EventsOf
<1> QED BY <1>1, LedgerInvariant, PTL

(* materializeCollectibleIssue and materializeCollectibleRevocation keep    *)
(* ownership on the irreversible chain: issued by an allowed issuer for     *)
(* that collectible, revoked later by an event that names that issuance,    *)
(* and no payment used twice, however often an event is included.           *)
THEOREM CollectiblesAlwaysFollow == Spec => []CollectiblesFollowTheChain
<1>1. LedgerInv => CollectiblesFollowTheChain
  <2> SUFFICES ASSUME LedgerInv PROVE CollectiblesFollowTheChain
    OBVIOUS
  <2>1. tables \in Tables /\ CollectiblesFit(tables, final) /\ final \in Nat
    BY DEF LedgerInv, Fits, LedgerTypes
  <2>2. ASSUME NEW c \in Collectible, tables.instance[c] # Nothing
        PROVE  /\ InstanceFits(tables, c)
               /\ tables.instance[c].issued \in Event
               /\ tables.instance[c].revoked \in Event \cup {Nothing}
    BY <2>1, <2>2 DEF CollectiblesFit, Tables, CollectibleInstance
  <2>3. ASSUME NEW e \in Event, tables.event[e] # Nothing
        PROVE  /\ Published(e, tables.event[e])
               /\ Content[e].type = "issued" =>
                    chain[tables.event[e]].signer \in CollectibleIssuers
    <3>1. PICK k : k = tables.event[e]
      OBVIOUS
    <3>2. k \in 1..final /\ chain[k].event = e /\ Accepted(k)
      BY <2>1, <2>3, <3>1 DEF CollectiblesFit, EventFits
    <3>3. Content[e].type = "issued" => chain[k].signer \in CollectibleIssuers
      BY <3>2, IssuerIsAllowed
    <3> QED BY <2>1, <3>1, <3>2, <3>3 DEF Published
  <2>4. ASSUME NEW c \in Collectible, NEW d \in Collectible, c # d,
               tables.instance[c] # Nothing, tables.instance[d] # Nothing
        PROVE  /\ tables.instance[c].issued # tables.instance[d].issued
               /\ tables.instance[c].payment = tables.instance[d].payment =>
                    tables.instance[c].payment = Nothing
    <3>1. InstanceFits(tables, c) /\ InstanceFits(tables, d)
      BY <2>2, <2>4
    <3>2. tables.instance[c].issued # tables.instance[d].issued
      BY <2>4, <3>1 DEF InstanceFits
    <3> QED BY <2>1, <2>4, <3>2 DEF CollectiblesFit
  <2>5. ASSUME NEW c \in Collectible, tables.instance[c] # Nothing
        PROVE  LET it == tables.instance[c] IN
               /\ Content[it.issued].collectible = c
               /\ Published(it.issued, tables.event[it.issued])
               /\ chain[tables.event[it.issued]].signer \in CollectibleIssuers
               /\ (it.state = "revoked") <=> (it.revoked # Nothing)
               /\ it.revoked # Nothing =>
                    /\ Content[it.revoked].issued = it.issued
                    /\ Published(it.revoked, tables.event[it.revoked])
                    /\ tables.event[it.issued] < tables.event[it.revoked]
    <3>1. PICK it : it = tables.instance[c]
      OBVIOUS
    <3>2. /\ Content[it.issued].collectible = c /\ Content[it.issued].type = "issued"
          /\ tables.event[it.issued] # Nothing
          /\ (it.state = "revoked") <=> (it.revoked # Nothing)
          /\ it.revoked # Nothing => /\ Content[it.revoked].issued = it.issued
                                     /\ tables.event[it.revoked] # Nothing
                                     /\ tables.event[it.issued] < tables.event[it.revoked]
          /\ it.issued \in Event /\ it.revoked \in Event \cup {Nothing}
      BY <2>2, <2>5, <3>1 DEF InstanceFits
    <3>3. /\ Published(it.issued, tables.event[it.issued])
          /\ chain[tables.event[it.issued]].signer \in CollectibleIssuers
          /\ it.revoked # Nothing => Published(it.revoked, tables.event[it.revoked])
      BY <2>3, <3>2
    <3> QED BY <3>1, <3>2, <3>3
  <2> QED BY <2>4, <2>5 DEF CollectiblesFollowTheChain
<1> QED BY <1>1, LedgerInvariant, PTL
=============================================================================

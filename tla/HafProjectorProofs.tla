-------------------------- MODULE HafProjectorProofs -------------------------
(***************************************************************************)
(* Proofs about HafProjector for any tree of blocks, any history of forks   *)
(* and stale answers, any batch size and reorganisation depth and any       *)
(* number of interrupted cycles.                                           *)
(***************************************************************************)
EXTENDS HafProjector, FiniteSetTheorems, SequenceTheorems, TLAPS

-----------------------------------------------------------------------------
(* The inductive invariant.                                                *)

MaybeBlock == Block \cup {NoBlock}
Run == [awaits: SUBSET {"head", "lib"}, n: Nat, id: MaybeBlock, irr: Nat, head: Nat,
        lib: MaybeBlock, before: Seq(Block), ops: Seq(Block), after: Seq(Block), height: Nat]

(* The cycle works on the cursor it has read; its head is one the source    *)
(* has reached and its LIB one the network still holds.                     *)
CycleIsAnchored ==
    /\ run \in Run
    /\ pc # "idle" => run.n = cursor.processed /\ run.irr = cursor.irreversible
    /\ run.head <= Height(tip)
    /\ OnChain(run.lib, lib)
    /\ pc = "agree" => OnChain(run.lib, tip) /\ Finalizable > run.irr

OnTip(s) == \A i \in 1..Len(s) : s[i] = Path[tip][run.n + i]

(* What comes from the first snapshot of the range or from the chain now.    *)
FromEither(s) == \A i \in 1..Len(s) : s[i] = run.before[i] \/ s[i] = Path[tip][run.n + i]

(* The bracket: until the source changes its fork, everything fetched is on *)
(* its chain.  After one change the operations are those of what was read    *)
(* before them, or each page is that or on the same chain as what is read    *)
(* after them.                                                             *)
FetchIsBracketed ==
    /\ pc = "query" => run.before = <<>> /\ run.ops = <<>> /\ run.after = <<>>
    /\ Fetching => /\ run.n < Target /\ Len(run.before) <= Target - run.n
                   /\ Len(run.ops) <= Target - run.n
                   /\ forked = 0 => OnTip(run.before) /\ OnTip(run.ops)
    /\ pc = "before" => run.ops = <<>>
    /\ pc \in {"before", "ops"} => run.after = <<>>
    /\ pc \in {"ops", "after"} => Len(run.before) = Target - run.n
    /\ pc = "ops" /\ forked = 1 => FromEither(run.ops)
    /\ pc = "after" => /\ Len(run.ops) = Target - run.n /\ Len(run.after) <= Target - run.n
                       /\ forked = 0 => run.ops = run.before
                       /\ forked = 1 => \/ run.ops = run.before
                                        \/ FromEither(run.ops) /\ OnTip(run.after)
    /\ pc = "apply" => /\ Len(run.ops) = Len(run.after)
                       /\ forked = 2 \/ run.ops = run.after

ProjectorInv ==
    /\ TypeOK
    /\ CycleIsAnchored /\ FetchIsBracketed
    /\ CurrentIsOneChain /\ FinalIsIrreversible /\ EventsFollowTheChain

-----------------------------------------------------------------------------
(* Facts about chains.                                                     *)

(* A block is the last of its path.                                         *)
LEMMA BlockPath ==
    ASSUME NEW b \in Block
    PROVE  /\ Height(b) \in Nat /\ Height(b) >= 1 /\ Height(b) = Len(Path[b])
           /\ Path[b] \in Seq(Block) /\ Path[b][Height(b)] = b
           /\ b # NoBlock
<1>1. Path[b] \in Seq(Block) /\ Len(Path[b]) >= 1 /\ Path[b][Len(Path[b])] = b /\ b # NoBlock
  BY ProjectorAssumption
<1>2. Len(Path[b]) \in Nat
  BY <1>1, LenProperties
<1> QED BY <1>1, <1>2 DEF Height

(* The path of a block on a path is the part up to it.                      *)
LEMMA PathOfElement ==
    ASSUME NEW b \in Block, NEW n \in 1..Height(b), NEW c, c = Path[b][n]
    PROVE  /\ c \in Block /\ Height(c) = n
           /\ \A m \in 1..n : Path[c][m] = Path[b][m]
<1>1. /\ Height(b) \in Nat /\ Height(b) = Len(Path[b]) /\ Path[b] \in Seq(Block)
  BY BlockPath
<1>2. c \in Block
  BY <1>1, ElementOfSeq
<1>3. Path[c] = SubSeq(Path[b], 1, n)
  BY <1>1, ProjectorAssumption
<1>4. Len(SubSeq(Path[b], 1, n)) = n
  BY <1>1, SubSeqProperties
<1>5. \A m \in 1..n : SubSeq(Path[b], 1, n)[m] = Path[b][m]
  BY <1>1, SubSeqProperties
<1>6. Height(c) = n
  BY <1>2, <1>3, <1>4, BlockPath
<1> QED BY <1>2, <1>3, <1>5, <1>6

(* OnChain, for a block: the head passes through it, on the same path.      *)
LEMMA OnChainOfBlock ==
    ASSUME NEW b \in Block, NEW c \in MaybeBlock, OnChain(b, c)
    PROVE  /\ c \in Block /\ Height(b) \in 1..Height(c) /\ Path[c][Height(b)] = b
           /\ \A m \in 1..Height(b) : Path[b][m] = Path[c][m]
<1>1. Height(b) \in Nat /\ Height(b) >= 1 /\ b # NoBlock
  BY BlockPath
<1>2. Height(b) <= Height(c) /\ Path[c][Height(b)] = b
  BY <1>1 DEF OnChain
<1>3. c \in Block
  BY <1>1, <1>2 DEF MaybeBlock, Height
<1>4. Height(c) \in Nat
  BY <1>3, BlockPath
<1>5. Height(b) \in 1..Height(c)
  BY <1>1, <1>2, <1>4
<1> QED BY <1>2, <1>3, <1>5, PathOfElement

(* An ancestor of an ancestor is an ancestor.                               *)
LEMMA OnChainTransitive ==
    ASSUME NEW a \in MaybeBlock, NEW b \in MaybeBlock, NEW c \in MaybeBlock,
           OnChain(a, b), OnChain(b, c)
    PROVE  OnChain(a, c)
<1>1. CASE a = NoBlock
  BY <1>1 DEF OnChain
<1>2. CASE a \in Block
  <2>1. b \in Block /\ Height(a) \in 1..Height(b) /\ Path[b][Height(a)] = a
    BY <1>2, OnChainOfBlock
  <2>2. /\ c \in Block /\ Height(b) \in 1..Height(c)
        /\ \A m \in 1..Height(b) : Path[b][m] = Path[c][m]
    BY <2>1, OnChainOfBlock
  <2>3. Height(a) \in Nat /\ Height(b) \in Nat /\ Height(c) \in Nat
    BY <1>2, <2>1, <2>2, BlockPath
  <2>4. Height(a) <= Height(c)
    BY <2>1, <2>2, <2>3
  <2>5. Path[c][Height(a)] = a
    BY <2>1, <2>2
  <2> QED BY <2>4, <2>5 DEF OnChain
<1> QED BY <1>1, <1>2 DEF MaybeBlock

(* A block on a path is on the chain of its end.                            *)
LEMMA ElementOnChain ==
    ASSUME NEW b \in Block, NEW n \in 1..Height(b), NEW c, c = Path[b][n]
    PROVE  OnChain(c, b)
<1>1. c \in Block /\ Height(c) = n
  BY PathOfElement
<1>2. Height(b) \in Nat
  BY BlockPath
<1> QED BY <1>1, <1>2 DEF OnChain

-----------------------------------------------------------------------------
(* Facts about the projected chain.                                         *)

(* Current blocks are those of one path, up to the cursor.                  *)
Projects(b, n) == b \in Block /\ Height(b) = n /\ Current = {Path[b][i] : i \in 1..n}

(* A projection of n blocks up to b has at each height the block on the     *)
(* path to b.                                                               *)
LEMMA CurrentAtHeight ==
    ASSUME NEW b, NEW n \in Nat, Projects(b, n), NEW m \in Nat
    PROVE  CurrentAt(m) = IF m \in 1..n THEN Path[b][m] ELSE NoBlock
<1>1. b \in Block /\ Height(b) = n /\ Current = {Path[b][i] : i \in 1..n}
  BY DEF Projects
<1>2. \A i \in 1..n : Path[b][i] \in Block /\ Height(Path[b][i]) = i
  BY <1>1, PathOfElement
<1>3. CASE m \in 1..n
  <2>1. Path[b][m] \in Current /\ Height(Path[b][m]) = m
    BY <1>1, <1>2, <1>3
  <2>2. \A c \in Current : Height(c) = m => c = Path[b][m]
    BY <1>1, <1>2
  <2> QED BY <1>3, <2>1, <2>2 DEF CurrentAt
<1>4. CASE m \notin 1..n
  <2>1. ~\E c \in Current : Height(c) = m
    BY <1>1, <1>2, <1>4
  <2> QED BY <1>4, <2>1 DEF CurrentAt
<1> QED BY <1>3, <1>4

(* An empty projection has no current block anywhere.                       *)
LEMMA CurrentAtNowhere == Current = {} => \A m : CurrentAt(m) = NoBlock
BY DEF CurrentAt

-----------------------------------------------------------------------------
(* The transactions of the store.                                          *)

(* What the store promises, apart from the cycle that writes it.            *)
StoreTypes ==
    /\ checkpoint \in [Block -> {"absent", "included", "irreversible", "reverted"}]
    /\ recorded \in [Block -> MaybeBlock]
    /\ cursor \in [processed: Nat, irreversible: Nat]
    /\ event \in [Event -> [state: {"absent", "included", "irreversible", "reverted"},
                            op: MaybeBlock]]
    /\ materialized \in [Event -> Nat]
    /\ cursor.irreversible <= cursor.processed /\ blurred \subseteq Block

StoreInv == StoreTypes /\ CurrentIsOneChain /\ FinalIsIrreversible /\ EventsFollowTheChain

Carriers(e) == {b \in Current : EventOf[recorded[b]] = e}
Follows(e) ==
    /\ materialized[e] = IF event[e].state = "irreversible" THEN 1 ELSE 0
    /\ Carriers(e) = {} => event[e].state \in {"absent", "reverted"}
    /\ Carriers(e) # {} => /\ event[e].op \in Carriers(e)
                           /\ \A b \in Carriers(e) : Height(event[e].op) <= Height(b)
                           /\ event[e].state = checkpoint[event[e].op]

(* The property, one event at a time.                                       *)
LEMMA EventsFollow == EventsFollowTheChain <=> \A e \in Event : Follows(e)
BY DEF EventsFollowTheChain, Follows, Carriers

(* The two shapes of the projection, and what a current block is.           *)
LEMMA OneChain ==
    ASSUME StoreInv
    PROVE  /\ \/ cursor.processed = 0 /\ Current = {}
              \/ \E b : Projects(b, cursor.processed)
           /\ cursor.processed \in Nat /\ cursor.irreversible \in Nat
           /\ \A b \in Current : /\ b \in Block /\ Height(b) \in 1..cursor.processed
                                 /\ checkpoint[b] = "irreversible" <=>
                                      Height(b) <= cursor.irreversible
                                 /\ HasItsOperations(b)
<1>1. cursor.processed \in Nat /\ cursor.irreversible \in Nat
  BY DEF StoreInv, StoreTypes
<1>2. \/ cursor.processed = 0 /\ Current = {}
      \/ \E b : Projects(b, cursor.processed)
  BY DEF StoreInv, CurrentIsOneChain, Projects
<1>3. \A b \in Current : Height(b) \in 1..cursor.processed
  <2>1. CASE Current = {}
    BY <2>1
  <2>2. ASSUME NEW b, Projects(b, cursor.processed)
        PROVE  \A c \in Current : Height(c) \in 1..cursor.processed
    BY <2>2, PathOfElement DEF Projects
  <2> QED BY <1>2, <2>1, <2>2
<1>4. Current \subseteq Block
  BY DEF Current
<1> QED BY <1>1, <1>2, <1>3, <1>4 DEF StoreInv, CurrentIsOneChain

(* applyBlock: the block extends the chain by one.                          *)
LEMMA ApplyKeeps ==
    ASSUME StoreInv, NEW b \in Block, NEW o \in Block, FollowsCursor(b), CanInsert(b),
           ValidOperations(o, b), o = b \/ forked = 2, applyBlock(b, o), UNCHANGED lib
    PROVE  /\ StoreInv' /\ cursor'.processed = Height(b)
           /\ cursor'.irreversible = cursor.irreversible
<1> DEFINE n == cursor.processed
<1>0. /\ checkpoint \in [Block -> {"absent", "included", "irreversible", "reverted"}]
      /\ recorded \in [Block -> MaybeBlock] /\ cursor \in [processed: Nat, irreversible: Nat]
      /\ event \in [Event -> [state: {"absent", "included", "irreversible", "reverted"},
                              op: MaybeBlock]]
      /\ materialized \in [Event -> Nat] /\ cursor.irreversible <= n
  BY DEF StoreInv, StoreTypes
<1>1. /\ n \in Nat /\ cursor.irreversible \in Nat /\ Height(b) = n + 1
      /\ \A c \in Current : /\ c \in Block /\ Height(c) \in 1..n /\ HasItsOperations(c)
                            /\ checkpoint[c] = "irreversible" <=> Height(c) <= cursor.irreversible
  BY OneChain DEF FollowsCursor
<1>2. checkpoint[b] = "absent" /\ b \notin Current
  BY DEF CanInsert, Current, IsCurrent
<1>3. /\ checkpoint' \in [Block -> {"absent", "included", "irreversible", "reverted"}]
      /\ checkpoint'[b] = "included" /\ \A c \in Block : c # b => checkpoint'[c] = checkpoint[c]
  BY <1>0 DEF applyBlock
<1>4. /\ recorded' \in [Block -> MaybeBlock]
      /\ recorded'[b] = o /\ \A c \in Block : c # b => recorded'[c] = recorded[c]
  BY <1>0 DEF applyBlock, MaybeBlock
<1>5. /\ cursor' \in [processed: Nat, irreversible: Nat] /\ cursor'.processed = n + 1
      /\ cursor'.irreversible = cursor.irreversible
  BY <1>0, <1>1 DEF applyBlock
<1>5a. /\ blurred' \subseteq Block /\ blurred \subseteq blurred'
       /\ o = b \/ b \in blurred'
  BY DEF applyBlock, StoreInv, StoreTypes
<1>6. Current' = Current \cup {b}
  BY <1>3 DEF Current, IsCurrent
<1>7. CurrentIsOneChain'
  <2>1. Current' = {Path[b][i] : i \in 1..(n + 1)}
    <3>1. Path[b][n + 1] = b
      BY <1>1, BlockPath
    <3>2. CASE n = 0
      <4>1. Current = {}
        BY <1>1, <3>2
      <4>2. 1..(n + 1) = {n + 1}
        BY <3>2
      <4> QED BY <1>6, <3>1, <4>1, <4>2
    <3>3. ASSUME n # 0, NEW c, Projects(c, n) PROVE Current' = {Path[b][i] : i \in 1..(n + 1)}
      <4>1. n \in 1..n /\ n \in 1..Height(b)
        BY <1>1, <3>3
      <4>2. Path[c][n] = c /\ c # NoBlock
        BY <3>3, BlockPath DEF Projects
      <4>3. CurrentAt(n) = c
        BY <1>1, <3>3, <4>1, <4>2, CurrentAtHeight
      <4>4. c = ParentOf(b)
        BY <4>2, <4>3 DEF FollowsCursor
      <4>5. c = Path[b][n]
        BY <1>1, <3>3, <4>4 DEF ParentOf
      <4>6. \A i \in 1..n : Path[c][i] = Path[b][i]
        BY <4>1, <4>5, PathOfElement
      <4>7. 1..(n + 1) = (1..n) \cup {n + 1}
        BY <1>1
      <4>8. Current = {Path[c][i] : i \in 1..n}
        BY <3>3 DEF Projects
      <4> QED BY <1>6, <3>1, <4>6, <4>7, <4>8
    <3>4. n = 0 \/ \E c : Projects(c, n)
      BY OneChain
    <3> QED BY <3>2, <3>3, <3>4
  <2>2. \A c \in Current' : /\ checkpoint'[c] = "irreversible" <=>
                                 Height(c) <= cursor'.irreversible
                            /\ HasItsOperations(c)'
    <3>1. ~(Height(b) <= cursor.irreversible)
      BY <1>0, <1>1
    <3>2. \A c \in Current : c # b
      BY <1>2
    <3>3. HasItsOperations(b)'
      BY <1>4, <1>5a DEF HasItsOperations, ValidOperations
    <3>4. \A c \in Current : HasItsOperations(c)'
      BY <1>1, <1>4, <1>5a, <3>2 DEF HasItsOperations, ValidOperations
    <3>5. \A c \in Current' : checkpoint'[c] = "irreversible" <=>
                                 Height(c) <= cursor'.irreversible
      BY <1>1, <1>3, <1>5, <1>6, <3>1, <3>2
    <3> QED BY <1>6, <3>3, <3>4, <3>5
  <2> QED BY <1>1, <1>5, <2>1, <2>2 DEF CurrentIsOneChain
<1>8. FinalIsIrreversible'
  <2>1. \A c \in Block : OnChain(c, lib)' <=> OnChain(c, lib)
    BY DEF OnChain
  <2> QED BY <1>3, <2>1 DEF StoreInv, FinalIsIrreversible
<1>9. event' \in [Event -> [state: {"absent", "included", "irreversible", "reverted"},
                            op: MaybeBlock]]
  BY <1>0 DEF applyBlock, BoundEvents, MaybeBlock
<1>10. ASSUME NEW e \in Event PROVE Follows(e)'
  <2>0. Follows(e) /\ materialized'[e] = materialized[e]
    BY EventsFollow DEF StoreInv, applyBlock
  <2>1. event'[e] = IF e = EventOf[o] /\ Bindable(e) THEN [state |-> "included", op |-> b]
                    ELSE event[e]
    BY DEF applyBlock, BoundEvents
  <2>2. Carriers(e)' = IF EventOf[o] = e THEN Carriers(e) \cup {b} ELSE Carriers(e)
    BY <1>2, <1>4, <1>6 DEF Carriers, Current
  <2>3. \A c \in Carriers(e) : c \in Block /\ c # b /\ Height(c) <= Height(b)
                               /\ checkpoint'[c] = checkpoint[c]
    BY <1>1, <1>2, <1>3 DEF Carriers
  <2>4. CASE EventOf[o] # e
    <3>1. event'[e] = event[e] /\ Carriers(e)' = Carriers(e)
      BY <2>1, <2>2, <2>4
    <3> QED BY <2>0, <2>3, <3>1 DEF Follows
  <2>5. CASE EventOf[o] = e /\ Carriers(e) = {}
    <3>1. Bindable(e) /\ event[e].state # "irreversible"
      BY <2>0, <2>5 DEF Follows, Bindable
    <3>2. event'[e].state = "included" /\ event'[e].op = b
      BY <2>1, <2>5, <3>1
    <3>3. Carriers(e)' = {b}
      BY <2>2, <2>5
    <3>4. Height(b) <= Height(b)
      BY <1>1
    <3> QED BY <1>3, <2>0, <3>1, <3>2, <3>3, <3>4 DEF Follows
  <2>6. CASE EventOf[o] = e /\ Carriers(e) # {}
    <3>1. /\ event[e].op \in Carriers(e) /\ event[e].state = checkpoint[event[e].op]
          /\ \A c \in Carriers(e) : Height(event[e].op) <= Height(c)
      BY <2>0, <2>6 DEF Follows
    <3>2. event[e].state \in {"included", "irreversible"}
      BY <3>1 DEF Carriers, Current, IsCurrent
    <3>3. event'[e] = event[e]
      BY <2>1, <3>2 DEF Bindable
    <3>4. Carriers(e)' = Carriers(e) \cup {b}
      BY <2>2, <2>6
    <3> QED BY <2>0, <2>3, <3>1, <3>3, <3>4 DEF Follows
  <2> QED BY <2>4, <2>5, <2>6
<1>11. EventsFollowTheChain'
  BY <1>10 DEF EventsFollowTheChain, Follows, Carriers
<1>12. StoreTypes'
  <2>1. cursor'.irreversible <= cursor'.processed
    BY <1>0, <1>1, <1>5
  <2>2. materialized' = materialized
    BY DEF applyBlock
  <2> QED BY <1>0, <1>3, <1>4, <1>5, <1>5a, <1>9, <2>1, <2>2 DEF StoreTypes
<1> QED BY <1>1, <1>5, <1>7, <1>8, <1>11, <1>12 DEF StoreInv

(* revertAfter: the chain is cut at a height that is not final yet.          *)
LEMMA RevertKeeps ==
    ASSUME StoreInv, NEW m \in Nat, cursor.irreversible <= m, m <= cursor.processed,
           revertAfter(m), UNCHANGED lib
    PROVE  StoreInv'
<1> DEFINE n == cursor.processed
<1>0. /\ checkpoint \in [Block -> {"absent", "included", "irreversible", "reverted"}]
      /\ recorded \in [Block -> MaybeBlock] /\ cursor \in [processed: Nat, irreversible: Nat]
      /\ event \in [Event -> [state: {"absent", "included", "irreversible", "reverted"},
                              op: MaybeBlock]]
      /\ materialized \in [Event -> Nat] /\ cursor.irreversible <= n
  BY DEF StoreInv, StoreTypes
<1>1. /\ n \in Nat /\ cursor.irreversible \in Nat
      /\ \A c \in Current : /\ c \in Block /\ Height(c) \in 1..n /\ HasItsOperations(c)
                            /\ checkpoint[c] = "irreversible" <=> Height(c) <= cursor.irreversible
  BY OneChain
<1>2. /\ checkpoint' \in [Block -> {"absent", "included", "irreversible", "reverted"}]
      /\ \A c \in Block : checkpoint'[c] = IF c \in Current /\ Height(c) > m THEN "reverted"
                                           ELSE checkpoint[c]
  BY <1>0 DEF revertAfter, RevertedRow, Current
<1>3. recorded' = recorded /\ materialized' = materialized /\ blurred' = blurred
  BY DEF revertAfter
<1>4. /\ cursor' \in [processed: Nat, irreversible: Nat] /\ cursor'.processed = m
      /\ cursor'.irreversible = cursor.irreversible
  BY <1>0 DEF revertAfter, RevertedCursor
<1>5. Current' = {c \in Current : Height(c) <= m}
  BY <1>1, <1>2 DEF Current, IsCurrent
<1>6. CurrentIsOneChain'
  <2>1. CASE m = 0
    <3>1. Current' = {}
      BY <1>1, <1>5, <2>1
    <3> QED BY <1>4, <2>1, <3>1 DEF CurrentIsOneChain
  <2>2. CASE m # 0
    <3>1. PICK b : Projects(b, n)
      BY <1>1, <2>2, OneChain
    <3>2. b \in Block /\ Height(b) = n /\ Current = {Path[b][i] : i \in 1..n}
      BY <3>1 DEF Projects
    <3>3. m \in 1..n /\ m \in 1..Height(b)
      BY <1>1, <2>2, <3>2
    <3>4. PICK c : c = Path[b][m]
      OBVIOUS
    <3>5. c \in Block /\ Height(c) = m /\ \A i \in 1..m : Path[c][i] = Path[b][i]
      BY <3>2, <3>3, <3>4, PathOfElement
    <3>6. \A i \in 1..n : Height(Path[b][i]) = i
      BY <3>2, PathOfElement
    <3>7. Current' = {Path[b][i] : i \in 1..m}
      BY <1>1, <1>5, <3>2, <3>3, <3>6
    <3>8. Current' = {Path[c][i] : i \in 1..m}
      BY <3>5, <3>7
    <3>9. \A a \in Current' : /\ checkpoint'[a] = "irreversible" <=>
                                   Height(a) <= cursor'.irreversible
                              /\ HasItsOperations(a)'
      BY <1>1, <1>2, <1>3, <1>4, <1>5 DEF HasItsOperations, ValidOperations
    <3> QED BY <1>4, <3>5, <3>8, <3>9 DEF CurrentIsOneChain
  <2> QED BY <2>1, <2>2
<1>7. FinalIsIrreversible'
  <2>1. \A c \in Block : OnChain(c, lib)' <=> OnChain(c, lib)
    BY DEF OnChain
  <2> QED BY <1>2, <2>1 DEF StoreInv, FinalIsIrreversible
<1>8. ASSUME NEW e \in Event PROVE Follows(e)'
  <2>1. Follows(e)
    BY EventsFollow DEF StoreInv
  <2>2. event'[e] = IF event[e].state = "included" /\ Height(event[e].op) > m
                    THEN [event[e] EXCEPT !.state = "reverted"] ELSE event[e]
    BY DEF revertAfter, RevertedEvents
  <2>3. Carriers(e)' = {c \in Carriers(e) : Height(c) <= m}
    BY <1>3, <1>5 DEF Carriers
  <2>4. CASE Carriers(e) = {}
    <3>1. event'[e] = event[e] /\ Carriers(e)' = {}
      BY <2>1, <2>2, <2>3, <2>4 DEF Follows
    <3> QED BY <1>3, <2>1, <2>4, <3>1 DEF Follows
  <2>5. CASE Carriers(e) # {} /\ Height(event[e].op) <= m
    <3>1. /\ event[e].op \in Carriers(e) /\ event[e].state = checkpoint[event[e].op]
          /\ \A c \in Carriers(e) : Height(event[e].op) <= Height(c)
      BY <2>1, <2>5 DEF Follows
    <3>2. event[e].op \in Current /\ Height(event[e].op) \in Nat
      BY <1>1, <3>1 DEF Carriers
    <3>3. event'[e] = event[e] /\ event[e].op \in Carriers(e)'
      BY <2>2, <2>3, <2>5, <3>1, <3>2
    <3>4. checkpoint'[event[e].op] = checkpoint[event[e].op]
      BY <1>1, <1>2, <2>5, <3>2
    <3> QED BY <1>3, <2>1, <2>3, <3>1, <3>3, <3>4 DEF Follows
  <2>6. CASE Carriers(e) # {} /\ ~(Height(event[e].op) <= m)
    <3>1. /\ event[e].op \in Carriers(e) /\ event[e].state = checkpoint[event[e].op]
          /\ \A c \in Carriers(e) : Height(event[e].op) <= Height(c)
      BY <2>1, <2>6 DEF Follows
    <3>2. event[e].op \in Current /\ Height(event[e].op) \in Nat
      BY <1>1, <3>1 DEF Carriers
    <3>3. ~(Height(event[e].op) <= cursor.irreversible) /\ Height(event[e].op) > m
      BY <1>1, <2>6, <3>2
    <3>4. event[e].state = "included"
      BY <1>1, <3>1, <3>2, <3>3 DEF Current, IsCurrent
    <3>5. event'[e] = [event[e] EXCEPT !.state = "reverted"]
      BY <2>2, <3>3, <3>4
    <3>6. event'[e].state = "reverted"
      BY <1>0, <3>5
    <3>7. \A c \in Carriers(e) : Height(c) \in Nat
      BY <1>1 DEF Carriers
    <3>8. Carriers(e)' = {}
      BY <2>3, <3>1, <3>2, <3>3, <3>7
    <3>9. materialized'[e] = 0
      BY <1>3, <2>1, <3>4 DEF Follows
    <3> QED BY <3>6, <3>8, <3>9 DEF Follows
  <2> QED BY <2>4, <2>5, <2>6
<1>9. EventsFollowTheChain'
  BY <1>8 DEF EventsFollowTheChain, Follows, Carriers
<1>10. StoreTypes'
  <2>1. event' \in [Event -> [state: {"absent", "included", "irreversible", "reverted"},
                              op: MaybeBlock]]
    BY <1>0 DEF revertAfter, RevertedEvents
  <2> QED BY <1>0, <1>2, <1>3, <1>4, <2>1 DEF StoreInv, StoreTypes
<1> QED BY <1>6, <1>7, <1>9, <1>10 DEF StoreInv

(* What finality promotes is materialized at most once.                     *)
LEMMA OneMaterialization ==
    ASSUME NEW S, NEW b, S \subseteq {b}
    PROVE  Cardinality(S) = IF b \in S THEN 1 ELSE 0
<1>1. S = {} \/ S = {b}
  OBVIOUS
<1> QED BY <1>1, FS_EmptySet, FS_Singleton

(* finalizeThrough: a prefix of the chain that the network holds final.      *)
LEMMA FinalizeKeeps ==
    ASSUME StoreInv, lib \in MaybeBlock, NEW m \in Nat, cursor.irreversible <= m,
           m \in 1..cursor.processed, OnChain(CurrentAt(m), lib),
           finalizeThrough(m), UNCHANGED lib
    PROVE  StoreInv'
<1> DEFINE n == cursor.processed
<1>0. /\ checkpoint \in [Block -> {"absent", "included", "irreversible", "reverted"}]
      /\ recorded \in [Block -> MaybeBlock] /\ cursor \in [processed: Nat, irreversible: Nat]
      /\ event \in [Event -> [state: {"absent", "included", "irreversible", "reverted"},
                              op: MaybeBlock]]
      /\ materialized \in [Event -> Nat] /\ cursor.irreversible <= n
  BY DEF StoreInv, StoreTypes
<1>1. /\ n \in Nat /\ cursor.irreversible \in Nat
      /\ \A c \in Current : /\ c \in Block /\ Height(c) \in 1..n /\ HasItsOperations(c)
                            /\ checkpoint[c] = "irreversible" <=> Height(c) <= cursor.irreversible
  BY OneChain
<1>2. /\ checkpoint' \in [Block -> {"absent", "included", "irreversible", "reverted"}]
      /\ \A c \in Block : checkpoint'[c] = IF checkpoint[c] = "included" /\ Height(c) <= m
                                           THEN "irreversible" ELSE checkpoint[c]
  BY <1>0 DEF finalizeThrough, NewlyFinal
<1>3. recorded' = recorded /\ blurred' = blurred
  BY DEF finalizeThrough
<1>4. /\ cursor' \in [processed: Nat, irreversible: Nat] /\ cursor'.processed = n
      /\ cursor'.irreversible = m
  <2>1. Max2(cursor.irreversible, m) = m
    BY <1>1 DEF Max2
  <2>2. cursor' = [cursor EXCEPT !.irreversible = m]
    BY <2>1 DEF finalizeThrough
  <2> QED BY <1>0, <2>2
<1>5. Current' = Current
  BY <1>2 DEF Current, IsCurrent
<1>6. CurrentIsOneChain'
  <2>1. \A a \in Current : checkpoint'[a] = "irreversible" <=> Height(a) <= m
    BY <1>1, <1>2 DEF Current, IsCurrent
  <2>2. \A a \in Current : HasItsOperations(a)'
    BY <1>1, <1>3 DEF HasItsOperations, ValidOperations
  <2> QED BY <1>1, <1>3, <1>4, <1>5, <2>1, <2>2 DEF StoreInv, CurrentIsOneChain
<1>7. FinalIsIrreversible'
  <2>1. PICK b : Projects(b, n)
    BY <1>1, OneChain
  <2>2. b \in Block /\ Height(b) = n /\ Current = {Path[b][i] : i \in 1..n}
    BY <2>1 DEF Projects
  <2>3. PICK c : c = Path[b][m]
    OBVIOUS
  <2>4. CurrentAt(m) = c
    BY <1>1, <2>1, <2>3, CurrentAtHeight
  <2>5. c \in Block /\ Height(c) = m /\ \A i \in 1..m : Path[c][i] = Path[b][i]
    BY <2>2, <2>3, PathOfElement
  <2>6. ASSUME NEW a \in Current, Height(a) <= m PROVE OnChain(a, lib)
    <3>1. Height(a) \in 1..m /\ Height(a) \in 1..n
      BY <1>1, <2>6
    <3>2. a = Path[b][Height(a)]
      BY <2>2, PathOfElement
    <3>3. a = Path[c][Height(a)]
      BY <2>5, <3>1, <3>2
    <3>4. OnChain(a, c)
      BY <2>5, <3>1, <3>3, ElementOnChain
    <3> QED BY <1>1, <2>4, <2>5, <3>4, OnChainTransitive DEF MaybeBlock
  <2>7. \A a \in Block : OnChain(a, lib)' <=> OnChain(a, lib)
    BY DEF OnChain
  <2> QED BY <1>2, <2>6, <2>7 DEF StoreInv, FinalIsIrreversible, Current, IsCurrent
<1>8. ASSUME NEW e \in Event PROVE Follows(e)'
  <2> DEFINE S == {b \in NewlyFinal(m) : EventOf[recorded[b]] = e /\ IsBinding(b)}
             op == event[e].op
  <2>1. Follows(e)
    BY EventsFollow DEF StoreInv
  <2>2. event'[e] = IF event[e].state = "included" /\ Height(op) <= m
                    THEN [event[e] EXCEPT !.state = "irreversible"] ELSE event[e]
    BY DEF finalizeThrough
  <2>3. Carriers(e)' = Carriers(e)
    BY <1>3, <1>5 DEF Carriers
  <2>4. materialized'[e] = materialized[e] + Cardinality(S)
    BY DEF finalizeThrough, Materializations
  <2>5. S \subseteq {op} /\ S \subseteq Carriers(e)
    BY DEF NewlyFinal, IsBinding, Carriers, Current, IsCurrent
  <2>6. Cardinality(S) = IF op \in S THEN 1 ELSE 0
    BY <2>5, OneMaterialization
  <2>7. CASE Carriers(e) = {}
    <3>1. event[e].state \in {"absent", "reverted"} /\ op \notin S
      BY <2>1, <2>5, <2>7 DEF Follows
    <3>2. event'[e] = event[e] /\ materialized'[e] = 0
      BY <2>1, <2>2, <2>4, <2>6, <3>1 DEF Follows
    <3> QED BY <2>3, <2>7, <3>1, <3>2 DEF Follows
  <2>8. CASE Carriers(e) # {}
    <3>1. /\ op \in Carriers(e) /\ event[e].state = checkpoint[op]
          /\ \A c \in Carriers(e) : Height(op) <= Height(c)
      BY <2>1, <2>8 DEF Follows
    <3>2. op \in Current /\ op \in Block /\ EventOf[recorded[op]] = e
      BY <1>1, <3>1 DEF Carriers
    <3>3. op \in S <=> event[e].state = "included" /\ Height(op) <= m
      BY <3>1, <3>2 DEF NewlyFinal, IsBinding
    <3>4. event'[e].op = op
      BY <1>0, <2>2
    <3>5. event'[e].state = checkpoint'[op]
      BY <1>0, <1>2, <2>2, <3>1, <3>2
    <3>6. materialized'[e] = IF event'[e].state = "irreversible" THEN 1 ELSE 0
      <4>1. CASE event[e].state = "included" /\ Height(op) <= m
        <5>1. event'[e].state = "irreversible"
          BY <1>2, <3>1, <3>2, <3>5, <4>1
        <5>2. materialized[e] = 0 /\ Cardinality(S) = 1
          BY <2>1, <2>6, <3>3, <4>1 DEF Follows
        <5> QED BY <2>4, <5>1, <5>2
      <4>2. CASE ~(event[e].state = "included" /\ Height(op) <= m)
        <5>1. event'[e] = event[e] /\ Cardinality(S) = 0 /\ materialized[e] \in Nat
          BY <1>0, <2>2, <2>6, <3>3, <4>2
        <5> QED BY <2>1, <2>4, <5>1 DEF Follows
      <4> QED BY <4>1, <4>2
    <3> QED BY <2>3, <3>1, <3>4, <3>5, <3>6 DEF Follows
  <2> QED BY <2>7, <2>8
<1>9. EventsFollowTheChain'
  BY <1>8 DEF EventsFollowTheChain, Follows, Carriers
<1>10. StoreTypes'
  <2>1. event' \in [Event -> [state: {"absent", "included", "irreversible", "reverted"},
                              op: MaybeBlock]]
    BY <1>0 DEF finalizeThrough
  <2>2. materialized' \in [Event -> Nat]
    <3>1. materialized' = [e \in Event |-> materialized'[e]]
      BY DEF finalizeThrough
    <3>2. \A e \in Event : materialized'[e] \in Nat
      BY <1>8 DEF Follows
    <3> QED BY <3>1, <3>2
  <2> QED BY <1>0, <1>2, <1>3, <1>4, <2>1, <2>2 DEF StoreInv, StoreTypes
<1> QED BY <1>6, <1>7, <1>9, <1>10 DEF StoreInv

-----------------------------------------------------------------------------
(* The source.                                                             *)

Label == {"idle", "query", "before", "ops", "after", "apply", "reconcile", "final", "agree"}

(* The invariant by its parts.                                              *)
LEMMA Parts ==
    ProjectorInv <=> /\ tip \in Block /\ lib \in MaybeBlock /\ pc \in Label
                     /\ forked \in 0..2 /\ StoreInv
                     /\ CycleIsAnchored /\ FetchIsBracketed
BY DEF ProjectorInv, TypeOK, StoreInv, StoreTypes, MaybeBlock, Label

(* The parts after a step make the invariant.                               *)
LEMMA Assemble ==
    ASSUME tip' \in Block, lib' \in MaybeBlock, pc' \in Label, forked' \in 0..2,
           StoreInv', CycleIsAnchored', FetchIsBracketed'
    PROVE  ProjectorInv'
BY DEF ProjectorInv, TypeOK, StoreInv, StoreTypes, MaybeBlock, Label

(* A step that leaves the store and the LIB alone keeps what is stored.     *)
LEMMA StoreStays ==
    ASSUME StoreInv, UNCHANGED store, UNCHANGED lib
    PROVE  StoreInv'
BY DEF store, StoreInv, StoreTypes, CurrentIsOneChain, FinalIsIrreversible,
       EventsFollowTheChain, Current, IsCurrent, OnChain, HasItsOperations, ValidOperations

(* The types of what a cycle has read.                                      *)
LEMMA RunTypes ==
    ASSUME run \in Run
    PROVE  /\ run.n \in Nat /\ run.irr \in Nat /\ run.head \in Nat /\ run.height \in Nat
           /\ run.id \in MaybeBlock /\ run.lib \in MaybeBlock
           /\ run.before \in Seq(Block) /\ run.ops \in Seq(Block) /\ run.after \in Seq(Block)
           /\ Len(run.before) \in Nat /\ Len(run.ops) \in Nat /\ Len(run.after) \in Nat
           /\ Target \in Nat /\ Target <= run.head
<1>1. /\ run.n \in Nat /\ run.irr \in Nat /\ run.head \in Nat /\ run.height \in Nat
      /\ run.id \in MaybeBlock /\ run.lib \in MaybeBlock
      /\ run.before \in Seq(Block) /\ run.ops \in Seq(Block) /\ run.after \in Seq(Block)
  BY DEF Run
<1>2. Len(run.before) \in Nat /\ Len(run.ops) \in Nat /\ Len(run.after) \in Nat
  BY <1>1, LenProperties
<1>3. Target \in Nat /\ Target <= run.head
  BY <1>1, ProjectorAssumption DEF Target, Min2
<1> QED BY <1>1, <1>2, <1>3

(* The chain moves to another head.                                         *)
LEMMA AdoptHeadKeeps ==
    ASSUME ProjectorInv, NEW b \in Tip, AdoptHead(b)
    PROVE  ProjectorInv'
<1>0. /\ tip \in Block /\ lib \in MaybeBlock /\ pc \in Label /\ forked \in 0..2
      /\ StoreInv /\ CycleIsAnchored /\ FetchIsBracketed
  BY Parts
<1>1. b \in Block /\ tip' = b /\ Height(b) > Height(tip)
  BY ProjectorAssumption DEF AdoptHead
<1>2. UNCHANGED <<lib, store, pc, run>>
  BY DEF AdoptHead, store
<1>3. StoreInv'
  BY <1>0, <1>2, StoreStays
<1>4. /\ run \in Run /\ run.head <= Height(tip) /\ OnChain(run.lib, lib)
      /\ pc = "agree" => OnChain(run.lib, tip) /\ Finalizable > run.irr
  BY <1>0 DEF CycleIsAnchored
<1>5. /\ run.n \in Nat /\ run.head \in Nat /\ run.lib \in MaybeBlock
      /\ Len(run.before) \in Nat /\ Len(run.ops) \in Nat /\ Len(run.after) \in Nat
      /\ Target \in Nat /\ Target <= run.head
  BY <1>4, RunTypes
<1>6. Height(b) \in Nat /\ Height(tip) \in Nat
  BY <1>0, <1>1, BlockPath
<1>7. CycleIsAnchored'
  <2>1. pc = "agree" => OnChain(run.lib, b)
    <3>1. CASE run.lib = NoBlock
      BY <3>1 DEF OnChain
    <3>2. CASE run.lib \in Block
      BY <1>4, <3>2 DEF AdoptHead
    <3> QED BY <1>5, <3>1, <3>2 DEF MaybeBlock
  <2>2. run.head <= Height(b)
    BY <1>1, <1>4, <1>5, <1>6
  <2>3. cursor' = cursor
    BY <1>2 DEF store
  <2> QED BY <1>0, <1>1, <1>2, <1>4, <2>1, <2>2, <2>3
          DEF CycleIsAnchored, OnChain, Finalizable, Height
<1>8. ASSUME OnChain(tip, b), NEW s, Len(s) \in Nat, Len(s) <= Target - run.n, OnTip(s)
      PROVE  OnTip(s)'
  <2>1. \A i \in 1..Height(tip) : Path[tip][i] = Path[b][i]
    BY <1>0, <1>1, <1>8, OnChainOfBlock DEF MaybeBlock
  <2>2. \A i \in 1..Len(s) : run.n + i \in 1..Height(tip)
    BY <1>4, <1>5, <1>6, <1>8
  <2>3. \A i \in 1..Len(s) : s[i] = Path[b][run.n + i]
    BY <1>8, <2>1, <2>2 DEF OnTip
  <2> QED BY <1>1, <1>2, <2>3 DEF OnTip
<1>9. /\ Target' = Target /\ Fetching' = Fetching
      /\ run' = run /\ pc' = pc
      /\ forked' = IF Fetching /\ ~OnChain(tip, b) THEN Min2(forked + 1, 2) ELSE forked
  BY <1>2 DEF AdoptHead, Target, Fetching
<1>10. ASSUME OnChain(tip, b), Len(run.ops) <= Target - run.n, FromEither(run.ops)
       PROVE  FromEither(run.ops)'
  <2>1. \A i \in 1..Height(tip) : Path[tip][i] = Path[b][i]
    BY <1>0, <1>1, <1>10, OnChainOfBlock DEF MaybeBlock
  <2>2. \A i \in 1..Len(run.ops) : run.n + i \in 1..Height(tip)
    BY <1>4, <1>5, <1>6, <1>10
  <2>3. \A i \in 1..Len(run.ops) : \/ run.ops[i] = run.before[i]
                                  \/ run.ops[i] = Path[b][run.n + i]
    BY <1>10, <2>1, <2>2 DEF FromEither
  <2> QED BY <1>1, <1>2, <2>3 DEF FromEither
<1>12. ASSUME ~Fetching PROVE FetchIsBracketed'
  BY <1>0, <1>9, <1>12 DEF FetchIsBracketed, Fetching
<1>13. ASSUME Fetching PROVE FetchIsBracketed'
  <2>1. /\ run.n < Target /\ Len(run.before) <= Target - run.n
        /\ Len(run.ops) <= Target - run.n
        /\ forked = 0 => OnTip(run.before) /\ OnTip(run.ops)
    BY <1>0, <1>13 DEF FetchIsBracketed
  <2>2. CASE OnChain(tip, b)
    <3>1. forked' = forked
      BY <1>9, <2>2
    <3>2. PICK s, t, u : s = run.before /\ t = run.ops /\ u = run.after
      OBVIOUS
    <3>3. forked = 0 => OnTip(s)' /\ OnTip(t)'
      BY <1>5, <1>8, <2>1, <2>2, <3>2
    <3>4. pc = "after" /\ OnTip(run.after) => OnTip(u)'
      BY <1>0, <1>5, <1>8, <2>2, <3>2 DEF FetchIsBracketed
    <3>5. FromEither(run.ops) => FromEither(run.ops)'
      BY <1>10, <2>1, <2>2
    <3>6. /\ forked = 0 => OnTip(run.before)' /\ OnTip(run.ops)'
          /\ pc = "after" /\ OnTip(run.after) => OnTip(run.after)'
      BY <1>9, <3>2, <3>3, <3>4 DEF OnTip
    <3> QED BY <1>0, <1>9, <3>1, <3>5, <3>6 DEF FetchIsBracketed
  <2>3. CASE ~OnChain(tip, b)
    <3>1. forked' = IF forked = 0 THEN 1 ELSE 2
      BY <1>0, <1>9, <1>13, <2>3 DEF Min2
    <3>2. ASSUME pc = "ops", forked' = 1 PROVE FromEither(run.ops)'
      <4>1. OnTip(run.before) /\ OnTip(run.ops) /\ Len(run.before) = Target - run.n
        BY <1>0, <2>1, <3>1, <3>2 DEF FetchIsBracketed
      <4>2. \A i \in 1..Len(run.ops) : i \in 1..Len(run.before)
        BY <1>5, <2>1, <4>1
      <4>3. \A i \in 1..Len(run.ops) : run.ops[i] = run.before[i]
        BY <4>1, <4>2 DEF OnTip
      <4> QED BY <1>9, <4>3 DEF FromEither
    <3>3. ASSUME pc = "after", forked' = 1 PROVE run.ops = run.before
      BY <1>0, <3>1, <3>3 DEF FetchIsBracketed
    <3>4. forked' # 0
      BY <3>1
    <3> QED BY <1>0, <1>9, <1>13, <3>2, <3>3, <3>4 DEF FetchIsBracketed, Fetching
  <2> QED BY <2>2, <2>3
<1>14. FetchIsBracketed'
  BY <1>12, <1>13
<1>11. forked' \in 0..2
  BY <1>0, <1>9 DEF Min2
<1> QED BY <1>0, <1>1, <1>2, <1>3, <1>7, <1>11, <1>14, Assemble

(* The chain makes a further block irreversible.                            *)
LEMMA AdvanceLibKeeps ==
    ASSUME ProjectorInv, NEW b \in Block, AdvanceLib(b)
    PROVE  ProjectorInv'
<1>0. /\ tip \in Block /\ lib \in MaybeBlock /\ pc \in Label /\ forked \in 0..2
      /\ StoreInv /\ CycleIsAnchored /\ FetchIsBracketed
  BY Parts
<1>1. OnChain(lib, b) /\ lib' = b /\ b \in MaybeBlock
  BY DEF AdvanceLib, MaybeBlock
<1>2. UNCHANGED <<tip, checkpoint, recorded, cursor, event, materialized, blurred, pc, run, forked>>
  BY DEF AdvanceLib, store
<1>3. \A a \in MaybeBlock : OnChain(a, lib) => OnChain(a, b)
  BY <1>0, <1>1, OnChainTransitive
<1>4. FinalIsIrreversible'
  BY <1>0, <1>1, <1>2, <1>3 DEF StoreInv, FinalIsIrreversible, OnChain, Height, MaybeBlock
<1>5. StoreInv'
  BY <1>0, <1>2, <1>4
     DEF StoreInv, StoreTypes, CurrentIsOneChain, EventsFollowTheChain, Current, IsCurrent,
         HasItsOperations, ValidOperations
<1>6. CycleIsAnchored'
  <2>1. run.lib \in MaybeBlock /\ OnChain(run.lib, b)
    BY <1>0, <1>3 DEF CycleIsAnchored, Run
  <2> QED BY <1>0, <1>1, <1>2, <2>1 DEF CycleIsAnchored, OnChain, Finalizable, Height
<1>7. FetchIsBracketed'
  BY <1>0, <1>2 DEF FetchIsBracketed, Fetching, OnTip, FromEither, Target
<1> QED BY <1>0, <1>1, <1>2, <1>5, <1>6, <1>7, Assemble

-----------------------------------------------------------------------------
(* The steps of a cycle.                                                   *)

(* A block is on its own chain.                                             *)
LEMMA ChainReflexive == \A b \in MaybeBlock : OnChain(b, b)
<1>1. \A b \in Block : Height(b) \in Nat /\ Path[b][Height(b)] = b
  BY BlockPath
<1> QED BY <1>1 DEF MaybeBlock, OnChain

(* The store answers with a block up to the cursor and with none above.     *)
LEMMA CurrentAtIsBlock ==
    ASSUME StoreInv
    PROVE  \A m \in Nat : /\ CurrentAt(m) \in MaybeBlock
                          /\ CurrentAt(m) # NoBlock => m \in 1..cursor.processed
<1>1. CASE Current = {}
  BY <1>1, CurrentAtNowhere DEF MaybeBlock
<1>2. ASSUME NEW b, Projects(b, cursor.processed)
      PROVE  \A m \in Nat : /\ CurrentAt(m) \in MaybeBlock
                            /\ CurrentAt(m) # NoBlock => m \in 1..cursor.processed
  <2>1. \A m \in 1..cursor.processed : Path[b][m] \in Block
    BY <1>2, PathOfElement DEF Projects
  <2> QED BY <1>2, <2>1, CurrentAtHeight, OneChain DEF MaybeBlock
<1> QED BY <1>1, <1>2, OneChain

(* A cycle that ends, by any exit, leaves nothing of its own.               *)
LEMMA IdleKeeps ==
    ASSUME ProjectorInv, UNCHANGED <<tip, lib>>, StoreInv', forked' \in 0..2,
           pc' = "idle", run' = Rest
    PROVE  ProjectorInv'
<1>0. tip \in Block /\ lib \in MaybeBlock
  BY Parts
<1>1. Rest \in Run
  BY EmptySeq DEF Rest, Run, MaybeBlock
<1>2. Height(tip)' \in Nat
  BY <1>0, BlockPath DEF Height
<1>3. run'.head = 0 /\ run'.lib = NoBlock
  BY DEF Rest
<1>4. CycleIsAnchored'
  BY <1>1, <1>2, <1>3 DEF CycleIsAnchored, OnChain
<1>5. FetchIsBracketed'
  BY DEF FetchIsBracketed, Fetching
<1> QED BY <1>0, <1>4, <1>5, Assemble DEF Label

(* A step that only changes the cycle's own variables.                      *)
LEMMA CycleKeeps ==
    ASSUME ProjectorInv, UNCHANGED <<source, store>>, pc' \in Label, forked' \in 0..2,
           CycleIsAnchored', FetchIsBracketed'
    PROVE  ProjectorInv'
<1>1. tip \in Block /\ lib \in MaybeBlock /\ StoreInv
  BY Parts
<1>2. tip' = tip /\ lib' = lib /\ StoreInv'
  BY <1>1, StoreStays DEF source
<1> QED BY <1>1, <1>2, Assemble

(* A cycle starts from the cursor.                                          *)
LEMMA GetCursorKeeps ==
    ASSUME ProjectorInv, GetCursor
    PROVE  ProjectorInv'
<1>0. tip \in Block /\ lib \in MaybeBlock /\ StoreInv /\ forked \in 0..2
  BY Parts
<1>1. PICK id : id = CurrentAt(cursor.processed)
  OBVIOUS
<1>2. id \in MaybeBlock /\ cursor.processed \in Nat /\ cursor.irreversible \in Nat
  BY <1>0, <1>1, CurrentAtIsBlock, OneChain
<1>3. run' = [awaits |-> {"head", "lib"}, n |-> cursor.processed, id |-> id,
              irr |-> cursor.irreversible, head |-> 0, lib |-> NoBlock, before |-> <<>>,
              ops |-> <<>>, after |-> <<>>, height |-> 0]
  BY <1>1 DEF GetCursor, Goto, Rest
<1>4. run' \in Run
  BY <1>2, <1>3, EmptySeq DEF Run, MaybeBlock
<1>5. UNCHANGED <<tip, lib, store, forked>> /\ cursor' = cursor /\ pc' = "query"
  BY DEF GetCursor, Goto, source, store
<1>6. CycleIsAnchored'
  <2>1. Height(tip)' \in Nat
    BY <1>0, <1>5, BlockPath DEF Height
  <2> QED BY <1>3, <1>4, <1>5, <2>1 DEF CycleIsAnchored, OnChain
<1>7. FetchIsBracketed'
  BY <1>3, <1>5 DEF FetchIsBracketed, Fetching
<1> QED BY <1>0, <1>5, <1>6, <1>7, CycleKeeps DEF GetCursor, Label

(* Either answer of the Promise.all.                                        *)
LEMMA QueryKeeps ==
    ASSUME ProjectorInv, pc = "query", pc' = "query",
           NEW h \in Nat, h <= Height(tip), NEW l \in MaybeBlock, OnChain(l, lib),
           NEW w \in SUBSET {"head", "lib"},
           run' = [run EXCEPT !.head = h, !.lib = l, !.awaits = w],
           UNCHANGED <<source, store, forked>>
    PROVE  ProjectorInv'
<1>0. /\ forked \in 0..2 /\ CycleIsAnchored /\ FetchIsBracketed
  BY Parts
<1>1. run \in Run
  BY <1>0 DEF CycleIsAnchored
<1>2. run' \in Run /\ run'.head = h /\ run'.lib = l
  BY <1>1 DEF Run
<1>3. /\ run'.n = run.n /\ run'.irr = run.irr /\ run'.before = run.before
      /\ run'.ops = run.ops /\ run'.after = run.after
  BY <1>1 DEF Run
<1>4. tip' = tip /\ lib' = lib /\ cursor' = cursor
  BY DEF source, store
<1>5. CycleIsAnchored'
  BY <1>0, <1>2, <1>3, <1>4 DEF CycleIsAnchored, OnChain, Height
<1>6. FetchIsBracketed'
  BY <1>0, <1>3 DEF FetchIsBracketed, Fetching
<1> QED BY <1>0, <1>5, <1>6, CycleKeeps DEF Label

(* The node names a head no higher than the real one.                       *)
LEMMA HeadIsKeeps ==
    ASSUME ProjectorInv, pc = "query", NEW h \in Nat, h <= Height(tip), HeadIs(h)
    PROVE  ProjectorInv'
<1>1. run \in Run /\ OnChain(run.lib, lib)
  BY Parts DEF CycleIsAnchored
<1>2. PICK w : w = run.awaits \ {"head"}
  OBVIOUS
<1>3. run.lib \in MaybeBlock /\ w \in SUBSET {"head", "lib"}
  BY <1>1, <1>2 DEF Run
<1>4. run' = [run EXCEPT !.head = h, !.lib = run.lib, !.awaits = w]
  BY <1>1, <1>2 DEF HeadIs, Run
<1> QED BY <1>1, <1>3, <1>4, QueryKeeps DEF HeadIs

(* The node answers with its head, a stale head or the last irreversible    *)
(* block.                                                                   *)
LEMMA AnswersKeep ==
    ASSUME ProjectorInv, GetHeadBlockNumber \/ GetStaleHead \/ GetLastIrreversibleBlock
    PROVE  ProjectorInv'
<1>0. tip \in Block /\ lib \in MaybeBlock /\ CycleIsAnchored
  BY Parts
<1>1. Height(tip) \in Nat
  BY <1>0, BlockPath
<1>2. CASE GetHeadBlockNumber
  <2>1. PICK h : h = Height(tip)
    OBVIOUS
  <2>2. pc = "query" /\ HeadIs(h)
    BY <1>2, <2>1 DEF GetHeadBlockNumber
  <2> QED BY <1>1, <2>1, <2>2, HeadIsKeeps
<1>3. CASE GetStaleHead
  <2>1. PICK h \in 1..(Height(tip) - 1) : HeadIs(h)
    BY <1>3 DEF GetStaleHead
  <2>2. pc = "query" /\ h \in Nat /\ h <= Height(tip)
    BY <1>1, <1>3 DEF GetStaleHead
  <2> QED BY <2>1, <2>2, HeadIsKeeps
<1>4. CASE GetLastIrreversibleBlock
  <2>1. run \in Run /\ run.head <= Height(tip)
    BY <1>0 DEF CycleIsAnchored
  <2>2. PICK w : w = run.awaits \ {"lib"}
    OBVIOUS
  <2>3. run.head \in Nat /\ w \in SUBSET {"head", "lib"}
    BY <2>1, <2>2 DEF Run
  <2>4. run' = [run EXCEPT !.head = run.head, !.lib = lib, !.awaits = w]
    BY <1>4, <2>1, <2>2 DEF GetLastIrreversibleBlock, Goto, Run
  <2>5. pc = "query" /\ pc' = "query" /\ UNCHANGED <<source, store, forked>>
    BY <1>4 DEF GetLastIrreversibleBlock, Goto
  <2> QED BY <1>0, <2>1, <2>3, <2>4, <2>5, ChainReflexive, QueryKeeps
<1> QED BY <1>2, <1>3, <1>4

(* To a fork walk, from any place.                                          *)
LEMMA ToReconcile ==
    ASSUME ProjectorInv, pc # "idle", pc' = "reconcile", NEW m \in Nat,
           run' = [run EXCEPT !.height = m], UNCHANGED <<source, store, forked>>
    PROVE  ProjectorInv'
<1>0. forked \in 0..2 /\ CycleIsAnchored
  BY Parts
<1>1. run \in Run
  BY <1>0 DEF CycleIsAnchored
<1>2. /\ run' \in Run /\ run'.n = run.n /\ run'.irr = run.irr /\ run'.head = run.head
      /\ run'.lib = run.lib
  BY <1>1 DEF Run
<1>3. tip' = tip /\ lib' = lib /\ cursor' = cursor
  BY DEF source, store
<1>4. CycleIsAnchored'
  BY <1>0, <1>2, <1>3 DEF CycleIsAnchored, OnChain, Height
<1>5. FetchIsBracketed'
  BY DEF FetchIsBracketed, Fetching
<1> QED BY <1>0, <1>4, <1>5, CycleKeeps DEF Label

(* To finality, from any place.                                             *)
LEMMA ToFinal ==
    ASSUME ProjectorInv, pc # "idle", pc' = "final", UNCHANGED <<source, store, run, forked>>
    PROVE  ProjectorInv'
<1>0. forked \in 0..2 /\ CycleIsAnchored
  BY Parts
<1>1. tip' = tip /\ lib' = lib /\ cursor' = cursor
  BY DEF source, store
<1>2. CycleIsAnchored'
  BY <1>0, <1>1 DEF CycleIsAnchored, OnChain, Height
<1>3. FetchIsBracketed'
  BY DEF FetchIsBracketed, Fetching
<1> QED BY <1>0, <1>2, <1>3, CycleKeeps DEF Label

(* An exit that writes nothing.                                             *)
LEMMA DoneKeeps ==
    ASSUME ProjectorInv, Done, UNCHANGED <<source, store>>
    PROVE  ProjectorInv'
<1>1. StoreInv /\ forked \in 0..2
  BY Parts
<1>2. StoreInv' /\ UNCHANGED <<tip, lib>>
  BY <1>1, StoreStays DEF source
<1> QED BY <1>1, <1>2, IdleKeeps DEF Done

(* The tip of the projection is compared with the chain.                    *)
LEMMA VerifyCurrentTipKeeps ==
    ASSUME ProjectorInv, VerifyCurrentTip
    PROVE  ProjectorInv'
<1>0. /\ tip \in Block /\ forked \in 0..2 /\ CycleIsAnchored /\ FetchIsBracketed
  BY Parts
<1>1. pc = "query" /\ UNCHANGED <<source, store>>
  BY DEF VerifyCurrentTip
<1>2. run \in Run
  BY <1>0 DEF CycleIsAnchored
<1>3. run.n \in Nat /\ Target \in Nat
  BY <1>2, RunTypes
<1>4. CASE Done
  BY <1>1, <1>4, DoneKeeps
<1>5. CASE Goto("reconcile", [run EXCEPT !.height = run.n])
  <2>1. pc' = "reconcile" /\ run' = [run EXCEPT !.height = run.n] /\ UNCHANGED forked
    BY <1>5 DEF Goto
  <2> QED BY <1>1, <1>3, <2>1, ToReconcile
<1>6. CASE Goto("final", run)
  <2>1. pc' = "final" /\ UNCHANGED <<run, forked>>
    BY <1>6 DEF Goto
  <2> QED BY <1>1, <2>1, ToFinal
<1>7. CASE Target > run.n /\ Goto("before", run)
  <2>0. pc' = "before" /\ UNCHANGED <<run, forked>>
    BY <1>7 DEF Goto
  <2>1. tip' = tip /\ lib' = lib /\ cursor' = cursor
    BY <1>1 DEF source, store
  <2>2. CycleIsAnchored'
    BY <1>0, <1>1, <1>7, <2>0, <2>1 DEF CycleIsAnchored, OnChain, Height
  <2>3. run.before = <<>> /\ run.ops = <<>> /\ run.after = <<>>
    BY <1>0, <1>1 DEF FetchIsBracketed
  <2>4. /\ Len(run.before) = 0 /\ OnTip(run.before)' /\ Target' = Target
        /\ Len(run.ops) = 0 /\ OnTip(run.ops)'
    BY <1>7, <2>0, <2>3, EmptySeq DEF OnTip, Target
  <2>5. FetchIsBracketed'
    BY <1>3, <1>7, <2>0, <2>3, <2>4 DEF FetchIsBracketed, Fetching
  <2> QED BY <1>0, <1>1, <2>0, <2>2, <2>5, CycleKeeps DEF Label
<1> QED BY <1>4, <1>5, <1>6, <1>7 DEF VerifyCurrentTip

-----------------------------------------------------------------------------
(* The bracketed fetch.                                                    *)

(* The arithmetic of a range that is not complete.                          *)
LEMMA Room ==
    ASSUME NEW n \in Nat, NEW k \in Nat
    PROVE  /\ n + (k + 1) = n + k + 1
           /\ \A t, h, top \in Nat : k <= t - n /\ k # t - n /\ t <= h /\ h <= top
                                     => k + 1 <= t - n /\ n + k + 1 \in 1..top
OBVIOUS

(* The next block read is on the chain of the source's head.                *)
LEMMA NextBlock ==
    ASSUME ProjectorInv, NEW s \in Seq(Block), Len(s) <= Target - run.n, ~Complete(s),
           NEW next, next = NextOf(s)
    PROVE  /\ next = Path[tip][run.n + Len(s) + 1] /\ next \in Block
           /\ Append(s, next) \in Seq(Block) /\ Len(Append(s, next)) = Len(s) + 1
           /\ Len(s) + 1 <= Target - run.n
           /\ OnTip(s) => OnTip(Append(s, next))
<1>0. tip \in Block /\ run \in Run /\ run.head <= Height(tip)
  BY Parts DEF CycleIsAnchored
<1>1. run.n \in Nat /\ run.head \in Nat /\ Target \in Nat /\ Target <= run.head
  BY <1>0, RunTypes
<1>2. Len(s) \in Nat /\ Height(tip) \in Nat /\ Path[tip] \in Seq(Block)
      /\ Height(tip) = Len(Path[tip])
  BY <1>0, LenProperties, BlockPath
<1>3. Len(s) # Target - run.n
  BY <1>1, <1>2 DEF Complete
<1>4. Len(s) + 1 <= Target - run.n /\ run.n + Len(s) + 1 \in 1..Height(tip)
  BY <1>0, <1>1, <1>2, <1>3, Room
<1>5. next = Path[tip][run.n + Len(s) + 1] /\ next \in Block
  BY <1>2, <1>4, ElementOfSeq DEF NextOf, getBlock
<1>6. /\ Append(s, next) \in Seq(Block) /\ Len(Append(s, next)) = Len(s) + 1
      /\ \A i \in 1..Len(s) : Append(s, next)[i] = s[i]
      /\ Append(s, next)[Len(s) + 1] = next
  BY <1>5, AppendProperties
<1>7. ASSUME OnTip(s) PROVE OnTip(Append(s, next))
  <2>1. ASSUME NEW i \in 1..(Len(s) + 1) PROVE Append(s, next)[i] = Path[tip][run.n + i]
    <3>1. CASE i \in 1..Len(s)
      BY <1>6, <1>7, <3>1 DEF OnTip
    <3>2. CASE i = Len(s) + 1
      <4>1. run.n + i = run.n + Len(s) + 1
        BY <1>1, <1>2, <3>2, Room
      <4>2. Append(s, next)[i] = next
        BY <1>6, <3>2, Zenon
      <4> QED BY <1>5, <4>1, <4>2, Zenon
    <3> QED BY <1>2, <3>1, <3>2
  <2> QED BY <1>6, <2>1 DEF OnTip
<1> QED BY <1>4, <1>5, <1>6, <1>7

(* A step of the fetch keeps what the cycle is anchored to.                 *)
LEMMA FetchAnchors ==
    ASSUME CycleIsAnchored, pc # "idle", pc' \notin {"idle", "agree"},
           run' \in Run, run'.n = run.n, run'.irr = run.irr, run'.head = run.head,
           run'.lib = run.lib, UNCHANGED <<source, store>>
    PROVE  CycleIsAnchored' /\ Target' = Target
<1>1. tip' = tip /\ lib' = lib /\ cursor' = cursor
  BY DEF source, store
<1> QED BY <1>1 DEF CycleIsAnchored, OnChain, Height, Target

(* The headers of a range are read before its operations.                   *)
LEMMA ReadBeforeKeeps ==
    ASSUME ProjectorInv, ReadBefore
    PROVE  ProjectorInv'
<1>0. /\ tip \in Block /\ forked \in 0..2 /\ CycleIsAnchored /\ FetchIsBracketed
      /\ run \in Run
  BY Parts DEF CycleIsAnchored
<1>1. pc = "before" /\ UNCHANGED <<source, store>> /\ tip' = tip
  BY DEF ReadBefore, source
<1>2. /\ run.n < Target /\ Len(run.before) <= Target - run.n
      /\ run.ops = <<>> /\ run.after = <<>> /\ (forked = 0 => OnTip(run.before))
  BY <1>0, <1>1 DEF FetchIsBracketed, Fetching
<1>3. run.n \in Nat /\ Target \in Nat /\ run.before \in Seq(Block) /\ Len(run.before) \in Nat
  BY <1>0, RunTypes
<1>3a. Len(run.ops) = 0
  BY <1>2, EmptySeq
<1>4. CASE Done
  BY <1>1, <1>4, DoneKeeps
<1>5. CASE Complete(run.before) /\ Goto("ops", run)
  <2>1. pc' = "ops" /\ run' = run /\ forked' = forked
    BY <1>5 DEF Goto
  <2>2. CycleIsAnchored' /\ Target' = Target
    BY <1>0, <1>1, <2>1, FetchAnchors
  <2>3. Len(run.before) = Target - run.n
    BY <1>3, <1>5 DEF Complete
  <2>4. /\ forked = 0 => OnTip(run.before)'
        /\ OnTip(run.ops)' /\ FromEither(run.ops)'
    BY <1>1, <1>2, <1>3a, <2>1 DEF OnTip, FromEither
  <2>5. FetchIsBracketed'
    BY <1>2, <1>3, <1>3a, <2>1, <2>2, <2>3, <2>4 DEF FetchIsBracketed, Fetching
  <2> QED BY <1>0, <1>1, <2>1, <2>2, <2>5, CycleKeeps DEF Label
<1>6. CASE ~Complete(run.before)
           /\ Goto("before", [run EXCEPT !.before = Append(@, NextOf(@))])
  <2>1. PICK next, s : next = NextOf(run.before) /\ s = Append(run.before, next)
    OBVIOUS
  <2>2. /\ s \in Seq(Block) /\ Len(s) = Len(run.before) + 1 /\ Len(s) <= Target - run.n
        /\ OnTip(run.before) => OnTip(s)
    BY <1>2, <1>3, <1>6, <2>1, NextBlock
  <2>3. pc' = "before" /\ run' = [run EXCEPT !.before = s] /\ forked' = forked
    BY <1>6, <2>1 DEF Goto
  <2>4. run' \in Run /\ run'.before = s
    BY <1>0, <2>2, <2>3 DEF Run
  <2>5. /\ run'.n = run.n /\ run'.irr = run.irr /\ run'.head = run.head
        /\ run'.lib = run.lib /\ run'.ops = run.ops /\ run'.after = run.after
    BY <1>0, <2>3 DEF Run
  <2>6. CycleIsAnchored' /\ Target' = Target
    BY <1>0, <1>1, <2>3, <2>4, <2>5, FetchAnchors
  <2>7. (forked' = 0 => OnTip(run.before)') /\ OnTip(run.ops)'
    BY <1>1, <1>2, <1>3a, <2>2, <2>3, <2>4, <2>5 DEF OnTip
  <2>8. FetchIsBracketed'
    BY <1>2, <1>3, <1>3a, <2>2, <2>3, <2>4, <2>5, <2>6, <2>7 DEF FetchIsBracketed, Fetching
  <2> QED BY <1>0, <1>1, <2>3, <2>6, <2>8, CycleKeeps DEF Label
<1> QED BY <1>4, <1>5, <1>6 DEF ReadBefore

(* Two fetches of the same range that are both on the source's chain agree. *)
LEMMA SameRange ==
    ASSUME NEW s \in Seq(Block), NEW t \in Seq(Block), Len(s) = Len(t), OnTip(s), OnTip(t)
    PROVE  s = t
<1>1. \A i \in 1..Len(s) : s[i] = t[i]
  BY DEF OnTip
<1> QED BY <1>1, SeqEqual

(* A page from height n + l + 1 to m, after l operations from height n + 1.  *)
LEMMA PageArithmetic ==
    ASSUME NEW n \in Nat, NEW l \in Nat, NEW m \in Nat, NEW t \in Nat, n + l + 1 <= m, m <= t
    PROVE  /\ l + (m - (n + l)) = m - n /\ m - n <= t - n
           /\ \A i \in 1..(m - n) : ~(i <= l) => /\ i - l \in 1..(m - (n + l))
                                                /\ (n + l) + (i - l) = n + i
OBVIOUS

(* A page is appended to the pages before it.                              *)
LEMMA PagesJoin ==
    ASSUME NEW o \in Seq(Block), NEW p \in Seq(Block)
    PROVE  /\ o \o p \in Seq(Block) /\ Len(o \o p) = Len(o) + Len(p)
           /\ \A i \in 1..(Len(o) + Len(p)) :
                (o \o p)[i] = IF i <= Len(o) THEN o[i] ELSE p[i - Len(o)]
BY ConcatProperties

(* The operations of a range are read, page by page.                        *)
LEMMA GetOperationsKeeps ==
    ASSUME ProjectorInv, GetOperations
    PROVE  ProjectorInv'
<1>0. /\ tip \in Block /\ forked \in 0..2 /\ CycleIsAnchored /\ FetchIsBracketed
      /\ run \in Run /\ run.head <= Height(tip)
  BY Parts DEF CycleIsAnchored
<1>1. pc = "ops" /\ UNCHANGED <<source, store>> /\ tip' = tip
  BY DEF GetOperations, source
<1>2. /\ run.n < Target /\ Len(run.before) = Target - run.n
      /\ run.after = <<>> /\ Len(run.ops) <= Target - run.n
      /\ forked = 0 => OnTip(run.before) /\ OnTip(run.ops)
      /\ forked = 1 => FromEither(run.ops)
  BY <1>0, <1>1 DEF FetchIsBracketed, Fetching
<1>3. /\ run.n \in Nat /\ run.head \in Nat /\ Target \in Nat /\ Target <= run.head
      /\ run.before \in Seq(Block) /\ Len(run.before) \in Nat
      /\ run.ops \in Seq(Block) /\ Len(run.ops) \in Nat
  BY <1>0, RunTypes
<1>4. CASE Complete(run.ops) /\ Goto("after", run)
  <2>1. pc' = "after" /\ run' = run /\ forked' = forked
    BY <1>4 DEF Goto
  <2>2. CycleIsAnchored' /\ Target' = Target
    BY <1>0, <1>1, <2>1, FetchAnchors
  <2>3. Len(run.ops) = Target - run.n /\ Len(run.after) = 0
    BY <1>2, <1>3, <1>4, EmptySeq DEF Complete
  <2>4. forked = 0 => run.ops = run.before
    BY <1>2, <1>3, <2>3, SameRange
  <2>5. /\ forked = 0 => OnTip(run.before)' /\ OnTip(run.ops)'
        /\ forked = 1 => FromEither(run.ops)'
        /\ OnTip(run.after)'
    BY <1>1, <1>2, <2>1, <2>3 DEF OnTip, FromEither
  <2>6. FetchIsBracketed'
    BY <1>2, <1>3, <2>1, <2>2, <2>3, <2>4, <2>5 DEF FetchIsBracketed, Fetching
  <2> QED BY <1>0, <1>1, <2>1, <2>2, <2>6, CycleKeeps DEF Label
<1>5. ASSUME NEW m \in run.n + Len(run.ops) + 1..Target,
             Goto("ops", [run EXCEPT !.ops = @ \o SubSeq(Path[tip],
                                                run.n + Len(run.ops) + 1, m)])
      PROVE  ProjectorInv'
  <2>1. PICK k : k = run.n + Len(run.ops)
    OBVIOUS
  <2>2. PICK page : page = SubSeq(Path[tip], k + 1, m)
    OBVIOUS
  <2>3. PICK s : s = run.ops \o page
    OBVIOUS
  <2>4. /\ Path[tip] \in Seq(Block) /\ Len(Path[tip]) = Height(tip) /\ Height(tip) \in Nat
    BY <1>0, BlockPath
  <2>5. /\ k \in Nat /\ m \in Nat /\ k + 1 <= m /\ m <= Target
        /\ k + 1 \in 1..Len(Path[tip]) /\ m \in 1..Len(Path[tip])
    <3>1. k \in Nat /\ k + 1 \in Nat /\ m \in k + 1..Target
      BY <1>3, <1>5, <2>1
    <3>2. m \in Nat /\ k + 1 <= m /\ m <= Target
      BY <1>3, <3>1
    <3> QED BY <1>0, <1>3, <2>4, <3>1, <3>2
  <2>6. /\ page \in Seq(Block) /\ Len(page) = m - k
        /\ \A i \in 1..(m - k) : page[i] = Path[tip][k + i]
    <3>1. /\ page \in Seq(Block) /\ Len(page) = m - (k + 1) + 1
          /\ \A i \in 1..(m - (k + 1) + 1) : page[i] = Path[tip][(k + 1) + i - 1]
      BY <2>2, <2>4, <2>5, SubSeqProperties
    <3>2. m - (k + 1) + 1 = m - k /\ \A i \in 1..(m - k) : (k + 1) + i - 1 = k + i
      BY <2>5
    <3> QED BY <3>1, <3>2
  <2>7. /\ s \in Seq(Block) /\ Len(s) = Len(run.ops) + Len(page)
        /\ \A i \in 1..Len(s) : s[i] = IF i <= Len(run.ops) THEN run.ops[i]
                                       ELSE page[i - Len(run.ops)]
    <3>1. run.ops \in Seq(Block) /\ page \in Seq(Block)
      BY <1>3, <2>6
    <3>2. /\ s \in Seq(Block) /\ Len(s) = Len(run.ops) + Len(page)
          /\ \A i \in 1..(Len(run.ops) + Len(page)) :
               s[i] = IF i <= Len(run.ops) THEN run.ops[i] ELSE page[i - Len(run.ops)]
      BY <2>3, <3>1, PagesJoin
    <3> QED BY <3>2
  <2>8. PICK n, l : n = run.n /\ l = Len(run.ops)
    OBVIOUS
  <2>8a. n \in Nat /\ l \in Nat /\ k = n + l /\ n + l + 1 <= m
    BY <1>3, <2>1, <2>5, <2>8
  <2>8b. Len(s) = m - n /\ m - n <= Target - n
    <3>1. PICK t : t = Target
      OBVIOUS
    <3>2. t \in Nat /\ m \in Nat /\ m <= t
      BY <1>3, <2>5, <3>1
    <3>3. l + (m - (n + l)) = m - n /\ m - n <= t - n
      BY <2>8a, <3>2, PageArithmetic
    <3>4. Len(s) = l + Len(page) /\ Len(page) = m - k
      BY <2>6, <2>7, <2>8
    <3>5. Len(s) = l + (m - (n + l))
      BY <2>8a, <3>4
    <3> QED BY <3>1, <3>3, <3>5
  <2>9. ASSUME NEW i \in 1..Len(s), ~(i <= Len(run.ops))
        PROVE  s[i] = Path[tip][run.n + i]
    <3>1. i - l \in 1..(m - k) /\ k + (i - l) = n + i
      <4>1. i \in 1..(m - n) /\ ~(i <= l)
        BY <2>8, <2>8b, <2>9
      <4>2. m \in Nat /\ m <= m
        BY <2>5
      <4>3. i - l \in 1..(m - (n + l)) /\ (n + l) + (i - l) = n + i
        BY <2>8a, <4>1, <4>2, PageArithmetic
      <4> QED BY <2>8a, <4>3
    <3>2. s[i] = page[i - l]
      BY <2>7, <2>8, <2>9
    <3> QED BY <2>6, <2>8, <3>1, <3>2
  <2>10. \A i \in 1..Len(s) : i <= Len(run.ops) => i \in 1..Len(run.ops) /\ s[i] = run.ops[i]
    BY <1>3, <2>7, <2>8, <2>8a, <2>8b
  <2>11. /\ OnTip(run.ops) => OnTip(s)
         /\ FromEither(run.ops) => FromEither(s)
    BY <2>9, <2>10 DEF OnTip, FromEither
  <2>12. pc' = "ops" /\ run' = [run EXCEPT !.ops = s] /\ forked' = forked
    BY <1>5, <2>1, <2>2, <2>3 DEF Goto
  <2>13. run' \in Run /\ run'.ops = s
    BY <1>0, <2>7, <2>12 DEF Run
  <2>14. /\ run'.n = run.n /\ run'.irr = run.irr /\ run'.head = run.head
         /\ run'.lib = run.lib /\ run'.before = run.before /\ run'.after = run.after
    BY <1>0, <2>12 DEF Run
  <2>15. CycleIsAnchored' /\ Target' = Target
    BY <1>0, <1>1, <2>12, <2>13, <2>14, FetchAnchors
  <2>16. /\ forked = 0 => OnTip(run.before)' /\ OnTip(run.ops)'
         /\ forked = 1 => FromEither(run.ops)'
    BY <1>1, <1>2, <2>11, <2>13, <2>14 DEF OnTip, FromEither
  <2>17. FetchIsBracketed'
    BY <1>2, <1>3, <2>8, <2>8b, <2>12, <2>13, <2>14, <2>15, <2>16 DEF FetchIsBracketed, Fetching
  <2> QED BY <1>0, <1>1, <2>12, <2>15, <2>17, CycleKeeps DEF Label
<1> QED BY <1>4, <1>5 DEF GetOperations

(* The headers of a range are read again and compared.                      *)
LEMMA ReadAfterKeeps ==
    ASSUME ProjectorInv, ReadAfter
    PROVE  ProjectorInv'
<1>0. /\ tip \in Block /\ forked \in 0..2 /\ CycleIsAnchored /\ FetchIsBracketed
      /\ run \in Run
  BY Parts DEF CycleIsAnchored
<1>1. pc = "after" /\ UNCHANGED <<source, store>> /\ tip' = tip
  BY DEF ReadAfter, source
<1>2. /\ run.n < Target /\ Len(run.before) = Target - run.n
      /\ Len(run.ops) = Target - run.n /\ Len(run.after) <= Target - run.n
      /\ forked = 0 => OnTip(run.before) /\ OnTip(run.ops) /\ run.ops = run.before
      /\ forked = 1 => \/ run.ops = run.before
                       \/ FromEither(run.ops) /\ OnTip(run.after)
  BY <1>0, <1>1 DEF FetchIsBracketed, Fetching
<1>3. /\ run.n \in Nat /\ Target \in Nat /\ run.before \in Seq(Block)
      /\ run.ops \in Seq(Block) /\ run.after \in Seq(Block) /\ Len(run.after) \in Nat
  BY <1>0, RunTypes
<1>4. CASE Done
  BY <1>1, <1>4, DoneKeeps
<1>5. CASE Complete(run.after) /\ StableSnapshot(run.before, run.after) /\ Goto("apply", run)
  <2>1. pc' = "apply" /\ run' = run /\ forked' = forked
    BY <1>5 DEF Goto
  <2>2. CycleIsAnchored' /\ Target' = Target
    BY <1>0, <1>1, <2>1, FetchAnchors
  <2>3. Len(run.after) = Target - run.n /\ run.before = run.after
    BY <1>3, <1>5 DEF Complete, StableSnapshot
  <2>4. ASSUME FromEither(run.ops), OnTip(run.after) PROVE run.ops = run.after
    <3>1. Len(run.ops) = Len(run.after)
      BY <1>2, <2>3
    <3>2. \A i \in 1..Len(run.ops) : run.ops[i] = run.after[i]
      BY <2>3, <2>4, <3>1 DEF FromEither, OnTip
    <3> QED BY <1>3, <3>1, <3>2, SeqEqual
  <2>4a. Len(run.ops) = Len(run.after) /\ (forked = 2 \/ run.ops = run.after)
    BY <1>0, <1>2, <2>3, <2>4
  <2>5. FetchIsBracketed'
    BY <2>1, <2>4a DEF FetchIsBracketed, Fetching
  <2> QED BY <1>0, <1>1, <2>1, <2>2, <2>5, CycleKeeps DEF Label
<1>6. CASE ~Complete(run.after)
           /\ Goto("after", [run EXCEPT !.after = Append(@, NextOf(@))])
  <2>1. PICK next, s : next = NextOf(run.after) /\ s = Append(run.after, next)
    OBVIOUS
  <2>2. /\ s \in Seq(Block) /\ Len(s) = Len(run.after) + 1 /\ Len(s) <= Target - run.n
        /\ OnTip(run.after) => OnTip(s)
    BY <1>2, <1>3, <1>6, <2>1, NextBlock
  <2>3. pc' = "after" /\ run' = [run EXCEPT !.after = s] /\ forked' = forked
    BY <1>6, <2>1 DEF Goto
  <2>4. run' \in Run /\ run'.after = s
    BY <1>0, <2>2, <2>3 DEF Run
  <2>5. /\ run'.n = run.n /\ run'.irr = run.irr /\ run'.head = run.head
        /\ run'.lib = run.lib /\ run'.before = run.before /\ run'.ops = run.ops
    BY <1>0, <2>3 DEF Run
  <2>6. CycleIsAnchored' /\ Target' = Target
    BY <1>0, <1>1, <2>3, <2>4, <2>5, FetchAnchors
  <2>7. /\ OnTip(run.before) => OnTip(run.before)'
        /\ OnTip(run.ops) => OnTip(run.ops)'
        /\ OnTip(run.after) => OnTip(run.after)'
        /\ FromEither(run.ops) => FromEither(run.ops)'
    BY <1>1, <2>2, <2>4, <2>5 DEF OnTip, FromEither
  <2>8. FetchIsBracketed'
    BY <1>2, <1>3, <2>2, <2>3, <2>4, <2>5, <2>6, <2>7 DEF FetchIsBracketed, Fetching
  <2> QED BY <1>0, <1>1, <2>3, <2>6, <2>8, CycleKeeps DEF Label
<1> QED BY <1>4, <1>5, <1>6 DEF ReadAfter

-----------------------------------------------------------------------------
(* Transactions of the cycle.                                              *)

(* A block of the range is applied.                                         *)
LEMMA ApplyNextKeeps ==
    ASSUME ProjectorInv, ApplyNext
    PROVE  ProjectorInv'
<1>0. /\ tip \in Block /\ lib \in MaybeBlock /\ forked \in 0..2 /\ CycleIsAnchored
      /\ FetchIsBracketed /\ StoreInv
  BY Parts
<1>1. pc = "apply" /\ tip' = tip /\ lib' = lib /\ UNCHANGED source
  BY DEF ApplyNext, source
<1>2. /\ run \in Run /\ run.after \in Seq(Block) /\ run.ops \in Seq(Block)
      /\ Len(run.ops) = Len(run.after) /\ (forked = 2 \/ run.ops = run.after)
      /\ run.irr = cursor.irreversible /\ run.head <= Height(tip) /\ OnChain(run.lib, lib)
  BY <1>0, <1>1, RunTypes DEF CycleIsAnchored, FetchIsBracketed
<1>3. CASE run.after = <<>>
  <2>1. pc' = "final" /\ UNCHANGED <<store, run, forked>>
    BY <1>3 DEF ApplyNext, Goto
  <2> QED BY <1>1, <2>1, ToFinal
<1>4. CASE run.after # <<>>
  <2>1. PICK b, rest, o, more : /\ b = Head(run.after) /\ rest = Tail(run.after)
                                /\ o = Head(run.ops) /\ more = Tail(run.ops)
    OBVIOUS
  <2>2. run.ops # <<>>
    BY <1>2, <1>4, EmptySeq
  <2>3. /\ b \in Block /\ rest \in Seq(Block) /\ Len(rest) = Len(run.after) - 1
        /\ o \in Block /\ more \in Seq(Block) /\ Len(more) = Len(run.ops) - 1
        /\ forked = 2 \/ (o = b /\ more = rest)
    BY <1>2, <1>4, <2>1, <2>2, HeadTailProperties
  <2>4. Height(b) \in Nat /\ Height(b) - 1 \in Nat
    BY <2>3, BlockPath
  <2>5. CASE Goto("reconcile", [run EXCEPT !.height = Height(b) - 1]) /\ UNCHANGED store
    <3>1. pc' = "reconcile" /\ run' = [run EXCEPT !.height = Height(b) - 1] /\ UNCHANGED forked
      BY <2>5 DEF Goto
    <3> QED BY <1>1, <2>4, <2>5, <3>1, ToReconcile
  <2>6. CASE Done /\ UNCHANGED store
    BY <1>1, <2>6, DoneKeeps
  <2>7. CASE /\ FollowsCursor(b) /\ CanInsert(b) /\ ValidOperations(o, b) /\ applyBlock(b, o)
             /\ Goto("apply", [run EXCEPT !.n = Height(b), !.id = b, !.after = rest,
                                          !.ops = more])
    <3>1. /\ StoreInv' /\ cursor'.processed = Height(b)
          /\ cursor'.irreversible = cursor.irreversible
      BY <1>0, <1>1, <2>3, <2>7, ApplyKeeps
    <3>2. /\ pc' = "apply" /\ forked' = forked
          /\ run' = [run EXCEPT !.n = Height(b), !.id = b, !.after = rest, !.ops = more]
      BY <2>7 DEF Goto
    <3>3. run' \in Run /\ run'.n = Height(b) /\ run'.ops = more /\ run'.after = rest
      BY <1>2, <2>3, <2>4, <3>2 DEF Run, MaybeBlock
    <3>4. run'.irr = run.irr /\ run'.head = run.head /\ run'.lib = run.lib
      BY <1>2, <3>2 DEF Run
    <3>5. CycleIsAnchored'
      BY <1>1, <1>2, <3>1, <3>2, <3>3, <3>4 DEF CycleIsAnchored, OnChain, Height
    <3>6. FetchIsBracketed'
      BY <1>2, <2>3, <3>2, <3>3 DEF FetchIsBracketed, Fetching
    <3> QED BY <1>0, <1>1, <3>1, <3>2, <3>5, <3>6, Assemble DEF Label
  <2> QED BY <1>4, <2>1, <2>5, <2>6, <2>7 DEF ApplyNext
<1> QED BY <1>3, <1>4

(* The common ancestor is looked for, block by block, and the rest          *)
(* reverted.                                                                *)
LEMMA ReconcileForkKeeps ==
    ASSUME ProjectorInv, ReconcileFork
    PROVE  ProjectorInv'
<1>0. forked \in 0..2 /\ CycleIsAnchored /\ StoreInv
  BY Parts
<1>1. pc = "reconcile" /\ UNCHANGED source /\ UNCHANGED <<tip, lib>>
  BY DEF ReconcileFork, source
<1>2. PICK m : m = run.height
  OBVIOUS
<1>3. /\ m \in Nat /\ run.n \in Nat /\ run.irr \in Nat
      /\ run.n = cursor.processed /\ run.irr = cursor.irreversible
  BY <1>0, <1>1, <1>2, RunTypes DEF CycleIsAnchored
<1>4. CASE Done /\ UNCHANGED store
  BY <1>1, <1>4, DoneKeeps
<1>5. CASE m > LowestHeight /\ Goto("reconcile", [run EXCEPT !.height = m - 1])
           /\ UNCHANGED store
  <2>1. m - 1 \in Nat
    BY <1>3, <1>5, ProjectorAssumption DEF LowestHeight, Max2
  <2>2. pc' = "reconcile" /\ run' = [run EXCEPT !.height = m - 1] /\ UNCHANGED forked
    BY <1>5 DEF Goto
  <2> QED BY <1>1, <1>5, <2>1, <2>2, ToReconcile
<1>6. CASE /\ \/ m = 0 /\ run.irr = 0
              \/ CurrentAt(m) # NoBlock /\ m >= run.irr
           /\ revertAfter(m) /\ Done
  <2>1. m <= cursor.processed /\ cursor.irreversible <= m
    <3>1. CASE m = 0 /\ run.irr = 0
      BY <1>3, <3>1
    <3>2. CASE CurrentAt(m) # NoBlock /\ m >= run.irr
      <4>1. m \in 1..cursor.processed
        BY <1>0, <1>3, <3>2, CurrentAtIsBlock
      <4> QED BY <1>3, <3>2, <4>1
    <3> QED BY <1>6, <3>1, <3>2
  <2>2. StoreInv'
    BY <1>0, <1>1, <1>3, <1>6, <2>1, RevertKeeps
  <2> QED BY <1>0, <1>1, <1>6, <2>2, IdleKeeps DEF Done
<1> QED BY <1>2, <1>4, <1>5, <1>6 DEF ReconcileFork

(* A cycle with something to finalize goes on to compare it.                *)
LEMMA CheckLibKeeps ==
    ASSUME ProjectorInv, CheckLib
    PROVE  ProjectorInv'
<1>0. tip \in Block /\ forked \in 0..2 /\ CycleIsAnchored
  BY Parts
<1>1. pc = "final" /\ UNCHANGED <<source, store>>
  BY DEF CheckLib
<1>2. CASE Done
  BY <1>1, <1>2, DoneKeeps
<1>3. CASE Finalizable > run.irr /\ SourceHasLib /\ Goto("agree", run)
  <2>1. pc' = "agree" /\ run' = run /\ forked' = forked
    BY <1>3 DEF Goto
  <2>2. tip' = tip /\ lib' = lib /\ cursor' = cursor
    BY <1>1 DEF source, store
  <2>3. run.lib \in MaybeBlock /\ run.head \in Nat /\ run.head <= Height(tip)
    BY <1>0, RunTypes DEF CycleIsAnchored
  <2>4. OnChain(run.lib, tip)
    <3>1. CASE run.lib = NoBlock
      BY <3>1 DEF OnChain
    <3>2. CASE run.lib \in Block
      <4>1. Height(run.lib) \in Nat /\ Height(tip) \in Nat
        BY <1>0, <3>2, BlockPath
      <4>2. Height(run.lib) <= Height(tip) /\ Path[tip][Height(run.lib)] = run.lib
        BY <1>3, <2>3, <4>1 DEF SourceHasLib, getBlock
      <4> QED BY <4>2 DEF OnChain
    <3> QED BY <2>3, <3>1, <3>2 DEF MaybeBlock
  <2>5. CycleIsAnchored'
    BY <1>0, <1>1, <1>3, <2>1, <2>2, <2>4 DEF CycleIsAnchored, OnChain, Height, Finalizable
  <2>6. FetchIsBracketed'
    BY <2>1 DEF FetchIsBracketed, Fetching
  <2> QED BY <1>0, <1>1, <2>1, <2>5, <2>6, CycleKeeps DEF Label
<1> QED BY <1>2, <1>3 DEF CheckLib

(* The checkpoint at the finalizable height is the reported LIB or lies      *)
(* below it on the source's chain, which passes through that LIB.           *)
LEMMA FinalizeStepKeeps ==
    ASSUME ProjectorInv, Finalize
    PROVE  ProjectorInv'
<1>0. tip \in Block /\ lib \in MaybeBlock /\ forked \in 0..2 /\ CycleIsAnchored /\ StoreInv
  BY Parts
<1>1. pc = "agree" /\ UNCHANGED source /\ UNCHANGED <<tip, lib>> /\ Done
  BY DEF Finalize, source
<1>2. CASE UNCHANGED store
  BY <1>1, <1>2, DoneKeeps
<1>3. PICK m : m = Finalizable
  OBVIOUS
<1>4. CASE /\ CurrentAt(m) # NoBlock
           /\ CurrentAt(m) = IF m = Height(run.lib) THEN run.lib ELSE getBlock(m)
           /\ finalizeThrough(m)
  <2>1. /\ run.n = cursor.processed /\ run.irr = cursor.irreversible
        /\ OnChain(run.lib, lib) /\ OnChain(run.lib, tip) /\ m > run.irr
        /\ run.n \in Nat /\ run.irr \in Nat /\ run.lib \in MaybeBlock
    BY <1>0, <1>1, <1>3, RunTypes DEF CycleIsAnchored
  <2>2. Height(run.lib) \in Nat
    BY <2>1, BlockPath DEF MaybeBlock, Height
  <2>3. m \in Nat /\ m <= Height(run.lib) /\ m >= 1 /\ cursor.irreversible <= m
    BY <1>3, <2>1, <2>2 DEF Finalizable, Min2
  <2>4. m \in 1..cursor.processed
    BY <1>0, <1>4, <2>3, CurrentAtIsBlock
  <2>5. run.lib \in Block
    BY <2>1, <2>3 DEF MaybeBlock, Height
  <2>6. PICK c : c = CurrentAt(m)
    OBVIOUS
  <2>7. OnChain(c, run.lib) /\ c \in MaybeBlock
    <3>1. CASE m = Height(run.lib)
      BY <1>4, <2>1, <2>6, <3>1, ChainReflexive
    <3>2. CASE m # Height(run.lib)
      <4>1. c = Path[tip][m]
        BY <1>4, <2>6, <3>2 DEF getBlock
      <4>2. m \in 1..Height(run.lib)
        BY <2>2, <2>3
      <4>3. Path[run.lib][m] = Path[tip][m]
        BY <1>0, <2>1, <2>5, <4>2, OnChainOfBlock DEF MaybeBlock
      <4>4. c = Path[run.lib][m]
        BY <4>1, <4>3
      <4> QED BY <2>5, <4>2, <4>4, ElementOnChain, PathOfElement DEF MaybeBlock
    <3> QED BY <3>1, <3>2
  <2>8. OnChain(CurrentAt(m), lib)
    BY <1>0, <2>1, <2>6, <2>7, OnChainTransitive
  <2>9. StoreInv'
    BY <1>0, <1>1, <1>4, <2>3, <2>4, <2>8, FinalizeKeeps
  <2> QED BY <1>0, <1>1, <2>9, IdleKeeps DEF Done
<1> QED BY <1>2, <1>3, <1>4 DEF Finalize

-----------------------------------------------------------------------------
(* The theorems.                                                           *)

(* The empty projection satisfies the invariant.                            *)
LEMMA ProjectorInit == Init => ProjectorInv
<1> SUFFICES ASSUME Init PROVE ProjectorInv
  OBVIOUS
<1>1. /\ tip \in Block /\ lib = NoBlock /\ pc = "idle" /\ run = Rest /\ forked = 0
      /\ blurred = {}
      /\ cursor = [processed |-> 0, irreversible |-> 0]
  BY ProjectorAssumption DEF Init
<1>2. /\ checkpoint = [b \in Block |-> "absent"] /\ recorded = [b \in Block |-> NoBlock]
      /\ event = [e \in Event |-> [state |-> "absent", op |-> NoBlock]]
      /\ materialized = [e \in Event |-> 0]
  BY DEF Init
<1>3. Current = {}
  BY <1>2 DEF Current, IsCurrent
<1>4. StoreTypes
  BY <1>1, <1>2 DEF StoreTypes, MaybeBlock
<1>5. CurrentIsOneChain /\ FinalIsIrreversible
  BY <1>1, <1>2, <1>3 DEF CurrentIsOneChain, FinalIsIrreversible
<1>6. \A e \in Event : Follows(e)
  BY <1>2, <1>3 DEF Follows, Carriers
<1>7. EventsFollowTheChain
  BY <1>6, EventsFollow
<1>8. CycleIsAnchored
  <2>1. Rest \in Run
    BY EmptySeq DEF Rest, Run, MaybeBlock
  <2>2. Height(tip) \in Nat
    BY <1>1, BlockPath
  <2>3. run.head = 0 /\ run.lib = NoBlock
    BY <1>1 DEF Rest
  <2> QED BY <1>1, <2>1, <2>2, <2>3 DEF CycleIsAnchored, OnChain
<1>9. FetchIsBracketed
  BY <1>1 DEF FetchIsBracketed, Fetching
<1>10. StoreInv
  BY <1>4, <1>5, <1>7 DEF StoreInv
<1> QED BY <1>1, <1>8, <1>9, <1>10, Parts DEF MaybeBlock, Label

(* Every step of the chain and of the cycle keeps the invariant.            *)
LEMMA ProjectorStep == ProjectorInv /\ [Next]_vars => ProjectorInv'
<1> SUFFICES ASSUME ProjectorInv, [Next]_vars PROVE ProjectorInv'
  OBVIOUS
<1>1. ASSUME NEW b \in Tip, AdoptHead(b) PROVE ProjectorInv'
  BY <1>1, AdoptHeadKeeps
<1>2. ASSUME NEW b \in Block, AdvanceLib(b) PROVE ProjectorInv'
  BY <1>2, AdvanceLibKeeps
<1>3. CASE GetCursor
  BY <1>3, GetCursorKeeps
<1>4. CASE GetHeadBlockNumber \/ GetStaleHead \/ GetLastIrreversibleBlock
  BY <1>4, AnswersKeep
<1>5. CASE VerifyCurrentTip
  BY <1>5, VerifyCurrentTipKeeps
<1>6. CASE ReadBefore
  BY <1>6, ReadBeforeKeeps
<1>7. CASE GetOperations
  BY <1>7, GetOperationsKeeps
<1>8. CASE ReadAfter
  BY <1>8, ReadAfterKeeps
<1>9. CASE ApplyNext
  BY <1>9, ApplyNextKeeps
<1>10. CASE ReconcileFork
  BY <1>10, ReconcileForkKeeps
<1>11. CASE CheckLib
  BY <1>11, CheckLibKeeps
<1>12. CASE Finalize
  BY <1>12, FinalizeStepKeeps
<1>13. CASE Interrupt
  <2>1. StoreInv /\ forked \in 0..2
    BY Parts
  <2>2. StoreInv' /\ UNCHANGED <<tip, lib>>
    BY <1>13, <2>1, StoreStays DEF Interrupt, source
  <2> QED BY <1>13, <2>1, <2>2, IdleKeeps DEF Interrupt
<1>14. CASE UNCHANGED vars
  <2>1. /\ UNCHANGED <<tip, lib, checkpoint, recorded, cursor, event, materialized, blurred>>
        /\ UNCHANGED <<pc, run, forked>>
    BY <1>14 DEF vars, source, store
  <2>2. StoreInv /\ CycleIsAnchored /\ FetchIsBracketed
        /\ tip \in Block /\ lib \in MaybeBlock /\ pc \in Label /\ forked \in 0..2
    BY Parts
  <2>3. StoreInv'
    BY <2>1, <2>2, StoreStays DEF store
  <2>4. CycleIsAnchored'
    BY <2>1, <2>2 DEF CycleIsAnchored, OnChain, Height, Finalizable
  <2>5. FetchIsBracketed'
    BY <2>1, <2>2 DEF FetchIsBracketed, Fetching, OnTip, FromEither, Target
  <2> QED BY <2>1, <2>2, <2>3, <2>4, <2>5, Assemble
<1> QED BY <1>1, <1>2, <1>3, <1>4, <1>5, <1>6, <1>7, <1>8, <1>9, <1>10, <1>11, <1>12,
           <1>13, <1>14 DEF Next, Cycle

(* The worker and its tables are always in a state of this kind: the cycle   *)
(* is anchored to the cursor it has read and its fetch is bracketed.         *)
THEOREM ProjectorInvariant == Spec => []ProjectorInv
BY ProjectorInit, ProjectorStep, PTL DEF Spec

(* The rows have values of their kind and the irreversible cursor is never   *)
(* past the processed one.                                                  *)
THEOREM ProjectorTypeSafe == Spec => []TypeOK
<1>1. ProjectorInv => TypeOK
  BY DEF ProjectorInv
<1> QED BY <1>1, ProjectorInvariant, PTL

(* The non-reverted checkpoints are one chain without holes that ends at     *)
(* the cursor, whatever forks happen between any two requests and however    *)
(* often.  Each has its own operations unless its fetch met a fork that came *)
(* and went, and even then operations that carry its own time.              *)
THEOREM ProjectionIsOneChain == Spec => []CurrentIsOneChain
<1>1. ProjectorInv => CurrentIsOneChain
  BY DEF ProjectorInv
<1> QED BY <1>1, ProjectorInvariant, PTL

(* finalizeThrough promotes only what the network holds irreversible, even   *)
(* when HAfAH and the node that reports the LIB are on different forks.      *)
THEOREM PromotionIsIrreversible == Spec => []FinalIsIrreversible
<1>1. ProjectorInv => FinalIsIrreversible
  BY DEF ProjectorInv
<1> QED BY <1>1, ProjectorInvariant, PTL

(* Every match event is bound to the first current block that carries it,    *)
(* shares its finality and is materialized exactly once.                    *)
THEOREM EventsFollowAlways == Spec => []EventsFollowTheChain
<1>1. ProjectorInv => EventsFollowTheChain
  BY DEF ProjectorInv
<1> QED BY <1>1, ProjectorInvariant, PTL

-----------------------------------------------------------------------------
(* The refinement of MatchEventFeed.                                        *)

(* The only writers of match_event are the three transactions.              *)
LEMMA EventWriters ==
    ASSUME [Next]_vars
    PROVE  \/ event' = event
           \/ \E b, ops : applyBlock(b, ops)
           \/ \E n : revertAfter(n)
           \/ \E n : finalizeThrough(n)
<1>1. CASE ApplyNext
  BY <1>1 DEF ApplyNext, store
<1>2. CASE ReconcileFork
  BY <1>2 DEF ReconcileFork, store
<1>3. CASE Finalize
  BY <1>3 DEF Finalize, store
<1>4. ASSUME NEW b, AdoptHead(b) \/ AdvanceLib(b) PROVE event' = event
  BY <1>4 DEF AdoptHead, AdvanceLib, store
<1>5. CASE GetCursor \/ GetHeadBlockNumber \/ GetLastIrreversibleBlock \/ GetStaleHead
  BY <1>5 DEF GetCursor, GetHeadBlockNumber, GetLastIrreversibleBlock, GetStaleHead, HeadIs, store
<1>6. CASE VerifyCurrentTip \/ ReadBefore \/ GetOperations \/ ReadAfter \/ CheckLib
  BY <1>6 DEF VerifyCurrentTip, ReadBefore, GetOperations, ReadAfter, CheckLib, store
<1>7. CASE Interrupt \/ UNCHANGED vars
  BY <1>7 DEF Interrupt, vars, store
<1> QED BY <1>1, <1>2, <1>3, <1>4, <1>5, <1>6, <1>7 DEF Next, Cycle

(* The projector is a writer of match_event that its readers can rely on:    *)
(* whatever happens to the source and to the worker, an event moves only     *)
(* along the transitions of MatchEventFeed.                                 *)
THEOREM ImplementsEventFeed == Spec => EventLifecycle
<1> DEFINE EventRow == [state: {"absent", "included", "irreversible", "reverted"}, op: MaybeBlock]
           Before == [e \in Event |-> event[e].state]
<1>1. Init => Feed!Init
  BY DEF Init, Feed!Init
<1>2. ASSUME ProjectorInv, [Next]_vars
      PROVE  Feed!Next \/ Before' = Before
  <2>1. event \in [Event -> EventRow]
    BY <1>2, Parts DEF StoreInv, StoreTypes
  <2>2. event' \in [Event -> EventRow]
    <3>1. ProjectorInv'
      BY <1>2, ProjectorStep
    <3> QED BY <3>1 DEF ProjectorInv, TypeOK, MaybeBlock
  <2>3. ASSUME \A e \in Event : event'[e].state # event[e].state =>
                                  <<event[e].state, event'[e].state>> \in Feed!Moves
        PROVE  Feed!Next
    <3>1. Before' \in [Event -> Feed!State]
      BY <2>2 DEF Feed!State
    <3>2. \A e \in Event : Before[e] = event[e].state /\ Before'[e] = event'[e].state
      OBVIOUS
    <3> QED BY <2>3, <3>1, <3>2 DEF Feed!Next
  <2>4. CASE event' = event
    BY <2>4
  <2>5. ASSUME NEW b, NEW ops, applyBlock(b, ops) PROVE Feed!Next
    <3>1. ASSUME NEW e \in Event, event'[e].state # event[e].state
          PROVE  <<event[e].state, event'[e].state>> \in Feed!Moves
      <4>1. /\ event'[e] = [state |-> "included", op |-> b]
            /\ event[e].state \in {"absent", "reverted"}
        BY <2>5, <3>1 DEF applyBlock, BoundEvents, Bindable
      <4>2. event'[e].state = "included"
        BY <4>1
      <4> QED BY <4>1, <4>2 DEF Feed!Moves
    <3> QED BY <2>3, <3>1
  <2>6. ASSUME NEW n, revertAfter(n) PROVE Feed!Next
    <3>1. ASSUME NEW e \in Event, event'[e].state # event[e].state
          PROVE  <<event[e].state, event'[e].state>> \in Feed!Moves
      <4>1. /\ event'[e] = [event[e] EXCEPT !.state = "reverted"]
            /\ event[e].state = "included"
        BY <2>6, <3>1 DEF revertAfter, RevertedEvents
      <4>2. event'[e].state = "reverted"
        BY <2>1, <4>1
      <4> QED BY <4>1, <4>2 DEF Feed!Moves
    <3> QED BY <2>3, <3>1
  <2>7. ASSUME NEW n, finalizeThrough(n) PROVE Feed!Next
    <3>1. ASSUME NEW e \in Event, event'[e].state # event[e].state
          PROVE  <<event[e].state, event'[e].state>> \in Feed!Moves
      <4>1. /\ event'[e] = [event[e] EXCEPT !.state = "irreversible"]
            /\ event[e].state = "included"
        BY <2>7, <3>1 DEF finalizeThrough
      <4>2. event'[e].state = "irreversible"
        BY <2>1, <4>1
      <4> QED BY <4>1, <4>2 DEF Feed!Moves
    <3> QED BY <2>3, <3>1
  <2> QED BY <1>2, <2>4, <2>5, <2>6, <2>7, EventWriters
<1>3. ProjectorInv /\ [Next]_vars => [Feed!Next]_Before
  BY <1>2
<1> QED BY <1>1, <1>3, ProjectorInvariant, PTL DEF Spec, EventLifecycle, Feed!Spec
=============================================================================

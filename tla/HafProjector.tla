---------------------------- MODULE HafProjector ----------------------------
(***************************************************************************)
(* The fork-aware projector: workers/haf-projector, the cycle of            *)
(* sync/haf-projector.ts over the tables of store/postgres-projection-     *)
(* store.ts.                                                               *)
(*                                                                         *)
(* A cycle is a sequence of awaited reads of HAfAH and the Hive RPC, any of *)
(* which may see another fork than the one before, and of transactions,    *)
(* each atomic.  The process may fail or die between any two of them; the  *)
(* next cycle starts from the durable cursor.                              *)
(*                                                                         *)
(* Blocks stand for their IDs, with the chain that leads to each; an        *)
(* operation of interest is the logical match event it carries, at most one *)
(* a block.                                                                *)
(***************************************************************************)
EXTENDS Integers, FiniteSets, Sequences

CONSTANTS
    Block, NoBlock,
    Path,              \* the chain from height 1 up to each block
    Tip,               \* the blocks the source ever serves as its head
    Timestamp,         \* of each block
    Event, NoEvent,
    EventOf,           \* the event an operation of each block carries
    TransactionOf,     \* the transaction of that operation
    MaxBlocksPerRun, MaxReorgDepth,
    MaxFailures        \* bound on interrupted cycles and stale answers

ASSUME ProjectorAssumption ==
    /\ NoBlock \notin Block /\ NoEvent \notin Event
    /\ EventOf \in [Block -> Event \cup {NoEvent}]
    /\ Timestamp \in [Block -> Nat] /\ TransactionOf \in [Block -> Nat]
    /\ Tip \subseteq Block
    /\ Path \in [Block -> Seq(Block)]
    /\ \A b \in Block : /\ Len(Path[b]) >= 1 /\ Path[b][Len(Path[b])] = b
                        /\ \A n \in 1..Len(Path[b]) :
                             Path[Path[b][n]] = SubSeq(Path[b], 1, n)
    /\ MaxBlocksPerRun \in Nat \ {0} /\ MaxReorgDepth \in Nat /\ MaxFailures \in Nat

VARIABLES
    tip,           \* head of the chain HAfAH serves
    lib,           \* last irreversible block of the network, by Hive RPC
    checkpoint,    \* state of the block_checkpoint row of each block ID
    recorded,      \* the block whose operations that checkpoint was given
    cursor,        \* sync_cursor
    event,         \* match_event: state and the block of the bound operation
    materialized,  \* how often each event was materialized
    blurred,       \* blocks of fetches in which the fork changed twice or more
    pc, run,       \* the cycle in progress and its local variables
    forked,        \* fork changes since the range fetch began, counted to two
    failures

source == <<tip, lib>>
store == <<checkpoint, recorded, cursor, event, materialized, blurred>>
vars == <<source, store, pc, run, forked, failures>>

Feed == INSTANCE MatchEventFeed WITH state <- [e \in Event |-> event[e].state]

-----------------------------------------------------------------------------
Height(b) == IF b = NoBlock THEN 0 ELSE Len(Path[b])
ParentOf(b) == IF Height(b) <= 1 THEN NoBlock ELSE Path[b][Height(b) - 1]
OnChain(b, head) ==
    IF b = NoBlock THEN TRUE
    ELSE Height(b) <= Height(head) /\ Path[head][Height(b)] = b

Min2(m, n) == IF m <= n THEN m ELSE n
Max2(m, n) == IF m >= n THEN m ELSE n

IsCurrent(b) == checkpoint[b] \in {"included", "irreversible"}
Current == {b \in Block : IsCurrent(b)}
(* getCurrentCheckpoint: uq_block_checkpoint_current_height leaves one.     *)
CurrentAt(n) ==
    IF \E b \in Current : Height(b) = n
    THEN CHOOSE b \in Current : Height(b) = n ELSE NoBlock

getBlock(n) == Path[tip][n]

Rest == [awaits |-> {}, n |-> 0, id |-> NoBlock, irr |-> 0, head |-> 0, lib |-> NoBlock,
         before |-> <<>>, ops |-> <<>>, after |-> <<>>, height |-> 0]

Init ==
    /\ tip \in {b \in Tip : Height(b) = 1} /\ lib = NoBlock
    /\ checkpoint = [b \in Block |-> "absent"]
    /\ recorded = [b \in Block |-> NoBlock]
    /\ cursor = [processed |-> 0, irreversible |-> 0]
    /\ event = [e \in Event |-> [state |-> "absent", op |-> NoBlock]]
    /\ materialized = [e \in Event |-> 0]
    /\ pc = "idle" /\ run = Rest /\ forked = 0 /\ blurred = {}
    /\ failures = 0

-----------------------------------------------------------------------------
(* The source.  A node moves only to a longer chain and never undoes a      *)
(* block the network holds irreversible once it has it; the RPC node that   *)
(* reports the LIB may be ahead of HAfAH, which may even try another fork   *)
(* first, but what is irreversible is on the chain that wins.  The fork may  *)
(* change at any time, and change back, also while a range of blocks and its *)
(* operations are fetched by one request after the other.                  *)

Longest == {b \in Tip : \A c \in Tip : Height(c) <= Height(b)}
Fetching == pc \in {"before", "ops", "after"}

AdoptHead(b) ==
    /\ Height(b) > Height(tip)
    /\ \A a \in Block : OnChain(a, lib) /\ OnChain(a, tip) => OnChain(a, b)
    /\ tip' = b
    /\ forked' = IF Fetching /\ ~OnChain(tip, b) THEN Min2(forked + 1, 2) ELSE forked
    /\ UNCHANGED <<lib, store, pc, run, failures>>

AdvanceLib(b) ==
    /\ OnChain(lib, b) /\ Height(b) > Height(lib)
    /\ \A c \in Longest : OnChain(b, c)
    /\ lib' = b
    /\ UNCHANGED <<tip, store, pc, run, forked, failures>>

-----------------------------------------------------------------------------
(* Transactions of the projection store.                                    *)

(* applyBlock.  The inserts meet three unique indexes: one non-reverted row  *)
(* per height, one row per block ID whatever its state, and one non-reverted *)
(* operation per transaction.                                              *)
FollowsCursor(b) ==
    /\ Height(b) = cursor.processed + 1
    /\ CurrentAt(cursor.processed) \in {NoBlock, ParentOf(b)}
CanInsert(b) == checkpoint[b] = "absent" /\ CurrentAt(Height(b)) = NoBlock
Carries(o) == EventOf[o] # NoEvent
SameTransaction(o, p) == Carries(o) /\ Carries(p) /\ TransactionOf[o] = TransactionOf[p]
CanInsertOperation(o) == \A c \in Current : ~SameTransaction(o, recorded[c])

(* upsertIncludedMatchEvent: a reverted binding is replaced, a live one     *)
(* stays with the operation it is bound to.                                *)
MutantRebindLive(e) == TRUE
Bindable(e) == event[e].state \in {"absent", "reverted"}
BoundEvents(b, e) ==
    [x \in Event |-> IF x = e /\ Bindable(x) THEN [state |-> "included", op |-> b]
                     ELSE event[x]]

applyBlock(b, ops) ==
    /\ checkpoint' = [checkpoint EXCEPT ![b] = "included"]
    /\ recorded' = [recorded EXCEPT ![b] = ops]
    /\ cursor' = [cursor EXCEPT !.processed = Height(b)]
    /\ event' = BoundEvents(b, EventOf[ops])
    /\ blurred' = IF forked = 2 THEN blurred \cup {b} ELSE blurred
    /\ UNCHANGED materialized

RevertedEvents(n) ==
    [e \in Event |-> IF event[e].state = "included" /\ Height(event[e].op) > n
                     THEN [event[e] EXCEPT !.state = "reverted"] ELSE event[e]]

RevertedRow(b, n) == IsCurrent(b) /\ Height(b) > n

MutantBelowAncestor(n) == [cursor EXCEPT !.processed = n - 1]
RevertedCursor(n) == [cursor EXCEPT !.processed = n]

(* revertAfter; the caller has checked n against the irreversible cursor and *)
(* the transaction checks again.                                           *)
revertAfter(n) ==
    /\ checkpoint' = [b \in Block |-> IF RevertedRow(b, n)
                                      THEN "reverted" ELSE checkpoint[b]]
    /\ cursor' = RevertedCursor(n)
    /\ event' = RevertedEvents(n)
    /\ UNCHANGED <<recorded, materialized, blurred>>

(* finalizeThrough, materializeIrreversibleEvents included: an operation     *)
(* that becomes irreversible is materialized when its event is bound to it. *)
NewlyFinal(n) == {b \in Block : checkpoint[b] = "included" /\ Height(b) <= n}
MutantEveryOperation(b) == TRUE
IsBinding(b) == event[EventOf[recorded[b]]].op = b
Materializations(e, n) ==
    Cardinality({b \in NewlyFinal(n) : EventOf[recorded[b]] = e /\ IsBinding(b)})
finalizeThrough(n) ==
    /\ checkpoint' = [b \in Block |-> IF b \in NewlyFinal(n) THEN "irreversible"
                                      ELSE checkpoint[b]]
    /\ cursor' = [cursor EXCEPT !.irreversible = Max2(@, n)]
    /\ event' = [e \in Event |->
                   IF event[e].state = "included" /\ Height(event[e].op) <= n
                   THEN [event[e] EXCEPT !.state = "irreversible"] ELSE event[e]]
    /\ materialized' = [e \in Event |-> materialized[e] + Materializations(e, n)]
    /\ UNCHANGED <<recorded, blurred>>

-----------------------------------------------------------------------------
(* The cycle: runOnce.  Goto moves on; Done ends the cycle, by return or by *)
(* an exception, and drops its local variables.  A transaction reads        *)
(* nothing of the source, and only this worker writes the store, so the     *)
(* last read before a transaction and the transaction are one step.         *)

Goto(label, r) == pc' = label /\ run' = r /\ UNCHANGED <<forked, failures>>
Done == pc' = "idle" /\ run' = Rest /\ forked' = 0 /\ UNCHANGED failures

GetCursor ==
    /\ pc = "idle"
    /\ Goto("query", [Rest EXCEPT !.n = cursor.processed,
                                  !.id = CurrentAt(cursor.processed),
                                  !.irr = cursor.irreversible,
                                  !.awaits = {"head", "lib"}])
    /\ UNCHANGED <<source, store>>

(* The two requests of the Promise.all, answered in either order; the head  *)
(* may be that of a replica that is behind.                                 *)
HeadIs(h) ==
    /\ pc' = "query"
    /\ run' = [run EXCEPT !.head = h, !.awaits = @ \ {"head"}]
    /\ UNCHANGED <<source, store, forked>>
GetHeadBlockNumber ==
    /\ pc = "query" /\ "head" \in run.awaits
    /\ HeadIs(Height(tip)) /\ UNCHANGED failures
GetStaleHead ==
    /\ pc = "query" /\ "head" \in run.awaits /\ failures < MaxFailures
    /\ \E h \in 1..(Height(tip) - 1) : HeadIs(h)
    /\ failures' = failures + 1

GetLastIrreversibleBlock ==
    /\ pc = "query" /\ "lib" \in run.awaits
    /\ Goto("query", [run EXCEPT !.lib = lib, !.awaits = @ \ {"lib"}])
    /\ UNCHANGED <<source, store>>

Target == Min2(run.head, run.n + MaxBlocksPerRun)

(* The source must not be behind; then verifyCurrentTip and the choice       *)
(* between fetching and finality.                                          *)
VerifyCurrentTip ==
    /\ pc = "query" /\ run.awaits = {}
    /\ \/ run.head < run.n /\ Done
       \/ /\ run.head >= run.n
          /\ IF run.id # NoBlock /\ getBlock(run.n) # run.id
             THEN Goto("reconcile", [run EXCEPT !.height = run.n])
             ELSE IF Target > run.n
                  THEN Goto("before", run)
                  ELSE Goto("final", run)
    /\ UNCHANGED <<source, store>>

(* readBlockSnapshot, one getBlock; a broken link ends the cycle.            *)
NextOf(blocks) == getBlock(run.n + Len(blocks) + 1)
Links(blocks) == blocks = <<>> \/ ParentOf(NextOf(blocks)) = blocks[Len(blocks)]
Complete(blocks) == run.n + Len(blocks) = Target

ReadBefore ==
    /\ pc = "before"
    /\ \/ Complete(run.before) /\ Goto("ops", run)
       \/ /\ ~Complete(run.before)
          /\ IF Links(run.before)
             THEN Goto("before", [run EXCEPT !.before = Append(@, NextOf(@))])
             ELSE Done
    /\ UNCHANGED <<source, store>>

(* One page of getOperations: the operations of the next blocks, of the fork *)
(* the source is on for this request.                                      *)
GetOperations ==
    /\ pc = "ops"
    /\ \/ Complete(run.ops) /\ Goto("after", run)
       \/ \E n \in run.n + Len(run.ops) + 1..Target :
            Goto("ops", [run EXCEPT !.ops = @ \o SubSeq(Path[tip],
                                              run.n + Len(run.ops) + 1, n)])
    /\ UNCHANGED <<source, store>>

MutantUnbracketed(before, after) == TRUE
StableSnapshot(before, after) == before = after
ReadAfter ==
    /\ pc = "after"
    /\ \/ /\ Complete(run.after)
          /\ IF StableSnapshot(run.before, run.after) THEN Goto("apply", run) ELSE Done
       \/ /\ ~Complete(run.after)
          /\ IF Links(run.after)
             THEN Goto("after", [run EXCEPT !.after = Append(@, NextOf(@))])
             ELSE Done
    /\ UNCHANGED <<source, store>>

(* validateBlockOperations: operations must carry their block's timestamp.  *)
ValidOperations(ops, b) == EventOf[ops] = NoEvent \/ Timestamp[ops] = Timestamp[b]

ApplyNext ==
    /\ pc = "apply"
    /\ IF run.after = <<>> THEN Goto("final", run) /\ UNCHANGED store
       ELSE LET b == Head(run.after)
                ops == Head(run.ops) IN
            \/ /\ run.id \notin {NoBlock, ParentOf(b)}
               /\ Goto("reconcile", [run EXCEPT !.height = Height(b) - 1])
               /\ UNCHANGED store
            \/ /\ run.id \in {NoBlock, ParentOf(b)}
               /\ IF /\ ValidOperations(ops, b) /\ FollowsCursor(b)
                     /\ CanInsert(b) /\ CanInsertOperation(ops)
                  THEN /\ applyBlock(b, ops)
                       /\ Goto("apply", [run EXCEPT !.n = Height(b), !.id = b,
                                           !.after = Tail(@), !.ops = Tail(@)])
                  ELSE Done /\ UNCHANGED store
    /\ UNCHANGED source

(* reconcileFork, one height: the highest stored block the source still has *)
(* is the common ancestor.                                                 *)
MutantShallow == Max2(0, run.n - MaxReorgDepth + 1)
LowestHeight == Max2(0, run.n - MaxReorgDepth)
ReconcileFork ==
    /\ pc = "reconcile"
    /\ LET n == run.height
           found == n > 0 /\ CurrentAt(n) # NoBlock /\ CurrentAt(n) = getBlock(n)
       IN \/ /\ \/ n = 0 /\ run.irr = 0
                \/ found /\ n >= run.irr
             /\ revertAfter(n) /\ Done
          \/ /\ \/ n = 0 /\ run.irr > 0
                \/ n > 0 /\ found /\ n < run.irr
                \/ n > 0 /\ ~found /\ (n <= run.irr \/ n = LowestHeight)
             /\ Done /\ UNCHANGED store
          \/ /\ n > LowestHeight /\ ~found /\ n > run.irr
             /\ Goto("reconcile", [run EXCEPT !.height = n - 1])
             /\ UNCHANGED store
    /\ UNCHANGED source

(* assertFinalityAgreement, then finalizeThrough.                           *)
Finalizable == Min2(Height(run.lib), run.n)
MutantTrustRPC == TRUE
SourceHasLib == Height(run.lib) <= run.head /\ getBlock(Height(run.lib)) = run.lib

CheckLib ==
    /\ pc = "final"
    /\ IF Finalizable > run.irr /\ SourceHasLib THEN Goto("agree", run) ELSE Done
    /\ UNCHANGED <<source, store>>

Finalize ==
    /\ pc = "agree"
    /\ IF CurrentAt(Finalizable) # NoBlock
          /\ CurrentAt(Finalizable) = IF Finalizable = Height(run.lib) THEN run.lib
                                      ELSE getBlock(Finalizable)
       THEN finalizeThrough(Finalizable)
       ELSE UNCHANGED store
    /\ Done
    /\ UNCHANGED source

(* A read or a transaction fails, or the process dies, before the next step. *)
Interrupt ==
    /\ pc # "idle" /\ failures < MaxFailures
    /\ pc' = "idle" /\ run' = Rest /\ forked' = 0
    /\ failures' = failures + 1
    /\ UNCHANGED <<source, store>>

Cycle ==
    \/ GetCursor \/ GetHeadBlockNumber \/ GetLastIrreversibleBlock
    \/ VerifyCurrentTip \/ ReadBefore \/ GetOperations \/ ReadAfter
    \/ ApplyNext \/ ReconcileFork \/ CheckLib \/ Finalize

Next ==
    \/ (\E b \in Tip : AdoptHead(b)) \/ (\E b \in Block : AdvanceLib(b))
    \/ Cycle
    \/ GetStaleHead \/ Interrupt

(* The worker loops for ever (runtime/projector-worker.ts) and HAfAH follows *)
(* the longest chain there is.                                             *)
Spec == /\ Init /\ [][Next]_vars
        /\ WF_vars(Cycle)
        /\ WF_vars(\E b \in Tip : AdoptHead(b))

-----------------------------------------------------------------------------
(* Properties.                                                             *)

(* The tables hold values of their kind and the worker is at one of its     *)
(* awaits; the irreversible cursor never passes the processed one.          *)
TypeOK ==
    /\ tip \in Block /\ lib \in Block \cup {NoBlock}
    /\ checkpoint \in [Block -> {"absent", "included", "irreversible", "reverted"}]
    /\ recorded \in [Block -> Block \cup {NoBlock}]
    /\ cursor \in [processed: Nat, irreversible: Nat]
    /\ event \in [Event -> [state: {"absent", "included", "irreversible", "reverted"},
                            op: Block \cup {NoBlock}]]
    /\ materialized \in [Event -> Nat]
    /\ pc \in {"idle", "query", "before", "ops", "after", "apply",
               "reconcile", "final", "agree"}
    /\ cursor.irreversible <= cursor.processed
    /\ forked \in 0..2 /\ blurred \subseteq Block

(* What is current is one chain without holes that ends at the cursor, of   *)
(* which the part up to the irreversible cursor is marked irreversible:      *)
(* wherever a fork, a failure or a partial batch left it.  The operations   *)
(* stored under a block are its own, though blocks and operations are       *)
(* fetched by separate requests, and one change of fork at any point of the *)
(* fetch is noticed.  What the two equal snapshots cannot show is a fork that *)
(* came and went between them: then all that is left is that the operations *)
(* carry the time of the block they are stored under.                       *)
HasItsOperations(b) ==
    \/ recorded[b] = b
    \/ b \in blurred /\ ValidOperations(recorded[b], b)
CurrentIsOneChain ==
    LET n == cursor.processed IN
    /\ \/ n = 0 /\ Current = {}
       \/ \E b \in Block : /\ Height(b) = n
                           /\ Current = {Path[b][i] : i \in 1..n}
    /\ \A b \in Current :
         /\ checkpoint[b] = "irreversible" <=> Height(b) <= cursor.irreversible
         /\ HasItsOperations(b)

(* Nothing is promoted that the network may still undo: every checkpoint    *)
(* marked irreversible is on the chain of the last irreversible block, even *)
(* when HAfAH serves another fork than the node that reports it.            *)
FinalIsIrreversible ==
    \A b \in Block : checkpoint[b] = "irreversible" => OnChain(b, lib)

(* A match event follows its operations through forks: while some current   *)
(* block carries it, it is bound to the first such block and shares its      *)
(* finality; otherwise it is absent or reverted.  It is materialized exactly *)
(* once, when that operation is irreversible.                               *)
EventsFollowTheChain ==
    \A e \in Event :
      LET carriers == {b \in Current : EventOf[recorded[b]] = e} IN
      /\ materialized[e] = IF event[e].state = "irreversible" THEN 1 ELSE 0
      /\ IF carriers = {} THEN event[e].state \in {"absent", "reverted"}
         ELSE /\ event[e].op \in carriers
              /\ \A b \in carriers : Height(event[e].op) <= Height(b)
              /\ event[e].state = checkpoint[event[e].op]

(* What the publisher is promised of match_event: through forks, replays and *)
(* repeated operations the projector moves an event only along the          *)
(* transitions the readers, and hc_validate_match_event, know.               *)
EventLifecycle == Feed!Spec

(* "Revert pending projection, retain raw evidence/outbox identity, and     *)
(* replay idempotently" (architecture-and-api-design.md): once the source   *)
(* settles on a head, the projection comes to end at that head.             *)
CaughtUp == cursor.processed = Height(tip) /\ CurrentAt(cursor.processed) = tip
ProjectionCatchesUp == <>[]CaughtUp

(* It does, through every fork, failure and late answer, unless the unique   *)
(* indexes bar a block of the chain for good: the block was reverted before, *)
(* or its transaction is stored under another block of that chain.          *)
Barred(b) ==
    \/ checkpoint[b] = "reverted"
    \/ /\ checkpoint[b] = "absent"
       /\ \E c \in Current : OnChain(c, tip) /\ SameTransaction(b, recorded[c])
CatchesUpUnlessBarred ==
    <>[]CaughtUp \/ <>[](\E b \in Block : OnChain(b, tip) /\ Barred(b))
=============================================================================

# Hive Chameleon: TLA+ verification project

Hive Chameleon is a multiplayer hide-and-seek game. Nakama runs the lobbies and rounds with
authority, PostgreSQL holds everything durable, an API signs players in and gives them Hive
accounts, and the summaries of finished rounds and the collectibles are published as Hive
operations and read back through HAF. This project models the parts of that system whose
correctness depends on the order of events (transactions, callbacks, requests, forks, failures),
checks them with TLC and proves the central ones with TLAPS. Paths are relative to the repository
root, prefixed `src/` in `PROJECT.json`.

## 1. Inventory

| Component | State it keeps | Operations |
| --- | --- | --- |
| Lobby store (`runtime/nakama/lobby_store.go`, store half of `round_scaffold.go`) | `game.lobby`, memberships, host assignments, configuration, rounds | Create, Join, Snapshot, IsOpenMember, UpdateConfiguration, RecordNominationChange, StartRound, UpdateRoundPhase, Leave |
| Lobby match handler (`lobby_match.go`) and RPCs (`lobby_runtime.go`) | cached snapshot, presences, pending joins and leaves, round header, live round; the lobby-to-match binding | MatchInit, MatchJoinAttempt, MatchJoin, MatchLeave, MatchLoop, MatchSignal, MatchTerminate; `lobby.create/join/leave/update_configuration/nominate_hunter/start` |
| Casual round (`casual_round.go`) | phase, deadline, slots, shells, reloads, processed commands, discoveries, verdict | role and slot assignment, Advance, HandleFire |
| Terminal result (`terminal_result.go`) | archive rows and the initial publication request | commitTerminalResult (not called by the handler yet) |
| Match publisher (`workers/match-publisher`) | publication requests, outbox and items, signing journal | reconcile, freeze, claim, record, broadcast, mark |
| HAF projector (`workers/haf-projector`) | block checkpoints, operations, cursor, `match_event`; results and their changes, collectible events and instances | runOnce: read, validate, apply, reconcile a fork, finalize, materialize |
| Hive gateway and signer (`packages/hive-gateway`) | the signer's idempotency ledger | prepare, authorize, sign, broadcast |
| Collectible issuer (`workers/collectible-issuer`) | `transaction_intent` journal | issue, revoke |
| API authentication (`apps/api/src/auth`) | challenges, sessions, identities, players, acknowledgments | challenge, direct and Google login, refresh, logout, acknowledge |
| API provisioning (`apps/api/src/provisioning`) | provisioning jobs and custody key references | check and confirm a username, process a job |
| Realtime bridge (`apps/api/src/realtime`, `session_bridge.go`) | replay record of each session | mint and consume an assertion |
| SQL migrations (`infra/postgres/migrations`) | schema, triggers, indexes, roles | constraints met by all of the above |
| Unity client, database package, scripts | | presentation, plumbing, tooling |

**Interactions.** Players call lobby RPCs; `lobby.create` and `lobby.join` commit in the store and
then tell the match by a best-effort signal, the other commands are signalled to the match, which
calls the store. Nakama calls the match handler one callback at a time. The handler mirrors the
phase of the live round to the store. A committed terminal result queues a publication request;
the publisher batches requests, has them signed and broadcast; the projector reads the chain and
writes `match_event`; the publisher copies the finality it finds there back to its outbox. The
collectible issuer publishes the same way through the signer, a process of its own, and the
projector turns what became irreversible into results, corrections and collectibles. The API
writes players and sessions; a provisioning run calls a custody and a sponsor service between its
transactions and links the identity to the player it made; a session with an acknowledged
disclosure gets an assertion that Nakama accepts once.

**Where it is hard.** Store calls that fail after they committed; departures delivered late or
while the player is already back; snapshots read in two statements; late ticks; forks that change
what the next request returns; an RPC node that disagrees with HAfAH; leases that run out under a
worker; broadcasts and signatures whose answer is lost; two logins of a player in two statements
each; two runs of one provisioning job, each acting on its own old copy of it; corrections that
arrive in an order of their own. `PROJECT.json` lists these hazards at their lines, with
the properties that cover them or the reason none does.

**What makes each component correct.** The store: one host who is a member, one lobby per player,
capacity, one live round, versions that identify what a client saw. The handler: no departure
forgotten, no wrong view that passes a version check, a durable phase that trails the live one.
The round: no shell, reload or discovery that was not earned, one verdict, an unstretched
schedule. The projector: one chain, operations under their own block, promotion only of what the
network cannot undo, each event materialized once, catching up. The publisher: each result in one
batch, published exactly when irreversible, no attempt signed twice, nothing left behind. The
signer: one signature for a key. The public ledger: each result one chain of changes, each
collectible owned as the irreversible chain says. Accounts: one live credential of a player, the
newest login in force, credentials used once, identities linked only to accounts that exist
beyond doubt, and nothing written meanwhile that bars the link.

## 2. Modules

`LobbyStore` is the durable half of the lobby. Every method is one SERIALIZABLE transaction, so
one action; refused calls change nothing. Variables are the tables (`lobby`, `membership`,
`joinedAt`, `nominated`, `assigned`, `config`, `rounds`), the snapshot each client last received
(`seen`, the source of `expected_lobby_version`) and the clock of the Nakama process. That clock
stamps a creator's `joined_at` and every `left_at`; a joiner is stamped by `now()` of PostgreSQL
(`DatabaseNow`), which may be up to `Ahead` ahead of it or `Behind` behind it, differently at each
join. `ClockAdmits` is the constraint that a departure is no earlier than its join; while it does
not hold, `Leave` fails. Equal stamps are possible, so `Oldest` may hold several members, as
`ORDER BY joined_at, id` may pick either.

`LobbyMatch` extends it with one match handler. A callback is one action; only `Store.Snapshot`
is two steps, because its two statements run outside a transaction and `lobby.join` can commit
between them. A store call may roll back or commit and lose its reply (`MaxFaults`); the process
may be lost (`MaxCrashes`). `socket` is what Nakama knows of a session: a departure is delivered
some time after the socket is gone, possibly after the player has a new one (`single_socket`).
A flush whose player is stamped ahead of the clock fails and keeps the departure queued.
`tracked` is a history variable used only by properties.

`CasualRound` is the live round. An iteration of `MatchLoop` samples the clock once and uses it
for `Advance` and every queued command, so `Loop(delay)` moves `now` and advances, and fire
commands are handled at that `now`. `Advance` is the repetition of one step at most three times,
there being three phases to leave.

`MatchEventFeed` is the abstract specification of `hive_projection.match_event`: the finality
moves `hc_validate_match_event` admits. `HafProjector` implements it (`EventLifecycle`);
`MatchPublisher` takes it as its environment.

`HafProjector` has one action per awaited request or transaction of `runOnce`, where
`getOperations` is as many requests as it has pages; the source may change its fork, and change it
back, between any two. A block stands for its ID and the chain leading to it, and carries at most
one operation, with its event and its transaction. `recorded` remembers which block's operations
were stored under a checkpoint. `forked` counts the changes of fork since a fetch began, up to
two, and `blurred` keeps the blocks of fetches that saw two or more; both are history variables.
The unique indexes the inserts meet are `CanInsert` (of checkpoints) and `CanInsertOperation`.

`MatchPublisher` has one action per store method and one for the broadcast, for any number of
workers. Time is reduced to what it decides: whether a row is due and whether a result is older
than the flush age. Include, Fork, BecomeIrreversible and Expire are the chain as the projector
reports it. `LegalTransition` is the outbox trigger.

`IdentitySessions` has the tables of the identity schema. A login is a `request` that awaits
several calls: it stamps itself when it begins, consumes a challenge or exchanges a Google code,
and replaces the open session by two statements of one read-committed transaction. `saw` is what
the revoking statement saw; the inserting one meets whatever else was committed since, and the
index and check constraints decide. Expiry is compared as the code does, to the second (`>`,
not `>=`). The bridge is the mint in the API and two steps in Nakama: `BeforeAuthenticateCustom`
verifies the assertion and reads the clock, `Consume` is the attempt of `StorageWriteRetry` that
succeeds, which prunes the bounded replay record by that reading. Any number of handlers may hold
one assertion between the two.

`Provisioning` extends it with the jobs. `run` is an execution of `process` between two of its
awaits, with the state it read at its beginning and never reads again; `MarkFrom` are the WHERE
clauses of the marks. `MarkRcDelegated` fails unless the delegation it names has a row
(`DelegationAdmitted`). `MarkReady` is the transaction that links; `ReadyAdmitted` is what its
constraints let pass. The sponsor and custody services are external, idempotent by key as
`provisioning.types.ts` says, and may fail before or after their effect.

`OfficialSigner` is an attempt of the collectible issuer from `prepareOfficialEvent` to its
journal marks, the request on the wire, and `sign` of the signer boundary in a process that goes
on when its client has given up. The ledger and the signature provider are external, by the
comments of `contracts.ts`: an identical request meets a pending reservation and waits, or its
completed response; another binding conflicts. A transaction is its operation and the head it was
built on, so two preparations at one head are the same transaction.

`PublicLedger` extends it with the projector's validation and materialization. A materializing
operator takes the tables and one event to the set of tables it can leave: one, or none when a
statement, constraint or trigger raises, which aborts `finalizeThrough` as a whole. `reached` is
the smaller of LIB and cursor: a cycle finalizes everything up to it (`FinalizeThrough`), so what
is cut into one transaction is what `Reach` moved over since the last that committed.
`ChangesAreHeads` is the trigger that is deferred to the commit. A change remembers where the
transaction that wrote it ended, as its `created_at` does. Forks are `HafProjector`'s matter; here
the chain only grows.

The theorems and their proofs are in `LobbyStoreProofs`, `LobbyMatchProofs`, `CasualRoundProofs`,
`HafProjectorProofs`, `MatchPublisherProofs`, `ProvisioningProofs` (which covers
`IdentitySessions`), `OfficialSignerProofs` and, on top of it, `PublicLedgerProofs`. The `MC*`
modules and `.cfg` files are the instances.
Definitions whose names begin with `Mutant` are plausible bugs used to show that each property
can fail; nothing refers to them.

## 3. Runs

| Run | Instance | Distinct states | Shows |
| --- | --- | --- | --- |
| `lobby_store` | 3 players, 2 lobbies, capacities 2 and 3, 6 and 1 versions, database clock 1 ahead to 1 behind | 302,497 | hosts, succession, membership, rounds, versions |
| `match_departures` | 2 players, 2 sessions of one, joins stamped up to 1 ahead, 1 fault | 109,680 | no forgotten departure, and every departure reaches the store |
| `match_rounds` | 2 players, 1 session, 2 faults, 1 crash, both modes, 5 versions | 902,219 | no forgotten departure, exact fenced views, trailing mirror |
| `match_stale_leave` | 2 sessions of one player, no faults | violation | finding 1 |
| `casual_round` | 2 hunters, 2 hiders, 2 shells, 4 commands of which 3 are processed | 139,656 | shells and reloads, discoveries, verdict and schedule; rounds end |
| `haf_projector` | 6 blocks, the head leaves a fork and comes back; 2 events, 2 failures | 101,312 | the projector invariants, catching up unless barred, refinement of `MatchEventFeed` |
| `haf_projector_return` | a branch left and returned to | violation | finding 2 |
| `match_publisher` | 2 workers, 2 requests, 1 fault, 1 fork, 1 expiry | 1,185,762 | batching, publication, fencing |
| `match_publisher_liveness` | 2 workers, an oversized request, 1 fault, 1 fork | 87,223 | requests get published |
| `match_publisher_replay` | 1 worker, 1 request, 1 fork | violation | finding 3 |
| `accounts` | five scenarios | 343,890 | sessions, bridge, linking, and acknowledgments that let a link through |
| `ledger` | seven scenarios | 73,462 | signatures, journal, results, collectibles, and finalization catches up |

**Scenarios.** In `accounts` and `ledger` the bounds are a variable `limit` that `Init` picks from
the constant `Scenarios` and no action changes: one run asks the same question of several small
worlds, each large where its case is. `accounts`: three logins of one player by two requests at
once, with a rotation; one session, two rotations and three assertions over two seconds, with two
handlers at a time in Nakama and a replay record of two entries, so that handlers of one assertion
overlap and the record is full and pruned; two identities after one name; a fork under the account
of a name beside a direct login to it; two runs of one job with a failure at any await. `ledger`:
two attempts under one key with two faults and a moving head; an issuer with a retired
authorization beside a current one, two attempts; an issuance from the command to the cache with
the rows it needs written at any time; four operations out of five about one result (batch, its
repetition, another batch, two corrections, an invalidation); four operations about one result with
a client that refuses to prepare a correction, and two invalidations that succeed each other; every
reason the validator refuses for, with a value no column takes and a change that names another
batch; four operations out of five about collectibles that share an identifier or a payment.

**Bounds.** Three players give a host, a successor and a rival for the successor; two lobbies are
needed for `MembershipIsLimited`, and the second is allowed only one version because nothing
couples lobbies but membership. Five versions are what create, join, configure, nominate and start
take; the store has one more, for a second start to be tried or a join after it, and clock
values enough for a skew ahead and one behind to add up. In `match_departures` two sessions let one player
reconnect while the departure of her first session is under way; the other acts by RPC only, so
that a creator and a joiner may leave or reconnect. The clocks of the rounds agree, as its
properties compare no stamps. The fork tree has a head that leaves a fork and comes back to a
longer one: an event is lost with the first, returns in the second by the same transaction and is
repeated by another in the third, and a transaction of the second is in another block of the third.
The reorganization depth and the batch are both two, so that both limits are met and a fork can
fall inside a batch. Two requests make a full batch and a split one. A TTL of one second is the
shortest that has a second before and a second of expiry; the session outlives the access token by
one. Every count that grows without end is bounded by a named constant (`MaxVersion`, `MaxClock`,
`MaxFaults`, `MaxCrashes`, `MaxTime`, `MaxDelay`, `MaxFailures`, `MaxAttempts`, `MaxTries`,
`MaxForks`, `MaxExpiries`, the fields of `limit`). `CHECK_DEADLOCK FALSE` stands where the bounds,
or a round that is over, stop the model; the projector runs check for deadlock.

**Symmetry and views.** Players in `lobby_store` and workers in `match_publisher` are symmetric;
neither run checks a liveness property. `VIEW WithoutSeen` drops what clients have seen in the
runs in which nobody sends a fenced command, the only readers of it. The views called `Relevant`
drop what nothing reads again: a client's snapshot once its version can satisfy no fence, which
of the interchangeable command IDs a hunter used, which slot holds a request, a run or a signer's
handler, and the dates of what has expired. Where such a run also checks a liveness property,
fairness and property are symmetric in what the view merges (`WF(\E w : Process(w))`, not one
per worker). Each view is defined, with the argument, in its MC module.

**Fairness.** Nakama serves the tick and the queued callbacks of a running match, so in
`LobbyMatch` the loop's flush and each pending MatchLeave are strongly fair (a join can interrupt
them again and again, but not for ever), its clock goes on, and a Snapshot in progress ends. The
tick of a running round is weakly fair. The projector and publisher workers loop with a delay
between cycles, so a cycle is weakly fair; HAfAH follows the longest chain; clocks advance, and a
transaction in the pool is included and becomes irreversible. In `PublicLedger` the LIB and the
cursor follow the head (`Reach`) and some cycle finalizes what it has reached. `Provisioning` has
no fairness and no liveness property: the repository has the service but not yet the caller that
would process a job again, and nothing writes the rows that would let one get ready. Forks,
expiries, faults and crashes have no fairness.

## 4. Findings

1. `match_stale_leave` (`lobby_match.go:170`). `runtime/nakama/README.md:61-63`: "Disconnecting or
   leaving closes the membership". A join attempt is accepted, the player leaves by `lobby.leave`,
   `MatchJoin` admits the presence without rechecking, its socket is lost, the player joins again
   by `lobby.join`: the late `MatchLeave` closes the new membership.
2. `haf_projector_return` (`postgres-projection-store.ts:147`). `architecture-and-api-design.md:469`
   promises to "replay idempotently". `uq_block_checkpoint_source_id` (`baseline.sql:2135`) covers
   reverted rows, so a block that was reverted and becomes canonical again cannot be inserted, and
   every later cycle fails at the same place.
3. `match_publisher_replay` (`postgres-publication-store.ts:416`). `publication-pipeline.md:59-61`:
   "reversion makes the same logical payload eligible for replay, and irreversibility marks every
   member request published". The trigger (`domain_integrity.sql:341-343`) refuses
   `reverted -> irreversible`, which is what reconciliation writes when the replayed event became
   final before its inclusion was seen; the statement then fails in every cycle, and with it the
   whole worker.

Behaviour met while modelling that the properties except by name, or do not speak of, and that a
maintainer should know:

- Two runs of one job: `markReady` links the identity although the other run has moved the job
  back, because only the job's own update asks for its state; the job is then linked and
  `retryable_failed` until a later run makes it ready. `getJobForUpdate` takes no lock.
- No code writes `hive_projection.rc_delegation`, and `markRcDelegated`
  (`postgres-provisioning.repository.ts:144-156`) names a row of it
  (`fk_provisioning_rc_delegation`, `baseline.sql:2471`): it raises, so no job becomes ready. The
  properties hold whether or not the row gets there (`RcDelegationProjected`, external).
- A pending acknowledgment of an identity and one its player made herself collide on
  `uq_disclosure_ack_player_version`, and `markReady` of that job rolls back from then on. Without
  a fork nobody can make the second one in time (`AcknowledgmentsLetNamesLink`); a player who
  logged in directly to an account a fork then dropped can.
- The bridge prunes its replay record by a clock the handler read before the optimistic write
  (`session_bridge.go:178` and `224-263`). A handler that began before an assertion expired, and
  whose write comes after another has pruned the nonce, accepts the assertion again: an assertion
  serves once until it expires, and `CredentialsAreSingleUse` says no more.
- `joined_at` of a creator is Nakama's clock (`lobby_store.go:110`), of everybody else the start of
  her transaction by the database's (`baseline.sql:943`). A host may therefore carry a later stamp
  than members who joined after her, and of two who joined at about the same time the one who
  committed later may succeed; `HostIsSenior` bounds the error by what the clocks differ by. With a
  database ahead, a departure soon after a join is refused by `chk_lobby_membership_left_time`; the
  handler retries it until its clock has caught up, `lobby.leave` fails with it.
- The bracket of a range fetch (`assertStableSnapshot`) compares headers before and after the
  operations. A fork that comes and goes in between leaves them equal, and the operations of the
  other fork are stored under the blocks of this one, if their timestamps agree. They may then bar
  a later block that carries the same transaction (`uq_hive_operation_current_tx_index`) for good.
- `confirmUsername` does not ask for the disclosure, which `data-model.md:319` puts before account
  creation; no code ends a game connection when a login supersedes a session
  (`Hive-Layer-Design.md:209`).
- A direct login to an account that a fork then drops leaves a self-custodial player. If the name
  is then provisioned, `chk_auth_session_custodial_signer` refuses every Google login of that
  player; hence `forks = 0` in `LinkedAccountsAreVerified` and in `AcknowledgmentsLetNamesLink`.
- Nothing sets `terminal_failed`: a name somebody else registered meanwhile is retried for ever.
- Accepted events stop finalization for good in five ways, excepted as `Poisoned`, since the
  transaction fails in every later cycle: a correction, because its lookup binds `$4` and `$11`
  and mentions neither, which PostgreSQL refuses to prepare unless the client declares parameter
  types, as node-postgres does not (`postgres-projection-store.ts:553-603`); two successive
  changes of one result reached in one cycle, which fail the deferred head check at the commit
  (`domain_integrity.sql:1436-1463`); a change that names the batch of another event (the trigger
  raises); an issuance against the payment of another collectible (`payment_transaction_id` is
  unique, `ON CONFLICT (id)` does not cover it); and a value the schemas admit and no column takes,
  such as a version code of 33 to 64 characters (`common.ts:33`, `baseline.sql:1668-1673`). A
  `\u0000` in an event fails earlier, when its block is applied, and is not modelled.
- An event that becomes final before the local rows it needs are written, and a correction that
  arrives before the one it supersedes, are passed over and never looked at again.
- A failing `markBroadcast` marks an attempt `failed` whose transaction is out; the next attempt may
  put the event on the chain twice, which the projection absorbs. An unresolved reservation blocks
  its key until an operator reconciles it.

## 5. Proofs

Every invariant a passing run checks, and the refinement `EventLifecycle`, is a theorem of the
specification for every value of the constants: any number of players, workers, handlers, blocks,
events and commands, any policy, any bound. Each module `*Proofs` has the same layout: the
inductive invariant and its parts, facts about the operators, a lemma per action (or per part of
the invariant, where few actions touch it), one lemma that joins them (`StoreStep`, `MatchStep`,
`RoundStep`, ...) and the theorems.

**`LobbyStoreProofs`** (`StoreCorrect`, `TypeCorrect`, `HostAgreement`, `MembershipLimited`,
`RoundsExclusive`, `FencingSound`, `SeniorHost`). `ConstantsAssumption`: players are finite in
number, capacities are between 2 and 10 as `lobby_contract.go:220` validates, the null values are
no rows, and the clocks differ by some bounded number either way. `TypeOK` is inductive by itself.
The others rest on `StoreInv`, whose strengthening is `SeenIsPast` (no client has seen a version
its lobby has not reached), `AbsentIsUnversioned` and `StampsArePast` (no stamp lies more than
`Ahead` ahead of the clock): a transaction bumps the version past whatever any client holds, and
who joins is stamped no more than `Ahead + Behind` before the host. `Transaction` is what any
committed call may do to the tables; the lemmas about the tables are stated for it, so that the
steps of the match handler are covered by them too, and what a step answers to its caller is
treated apart.

**`LobbyMatchProofs`** (`MatchCorrect`, `HandlerKeepsStore`, `FencedViewsExact`,
`DeparturesRemembered`, `MirrorTrails`). `MatchInv` adds to `StoreInv` that
every view is exact when its version is current. The view includes the Snapshot in progress, of
which only the first statement has run: a join that commits between the two bumps the version, so
what is installed is either exact or outdated. `MembersAreFollowed` (a member the
handler has had is queued for removal or has a presence whose departure will queue it) with
`SocketsAreKnown` (Nakama's sessions and the handler's maps agree) is what
`NoForgottenDeparture` needs: the latter speaks of players without any socket, and is not
inductive while a departure is still under way. `HandlerKeepsStore` says that the store's
invariant survives the handler, the RPCs, lost replies and process loss.

**`CasualRoundProofs`** (`RoundInvariant`, `RoundTypeSafe`, `ShotsAreAccountedFor`,
`AllDiscoveriesAreEarned`, `VerdictIsRight`, `VerdictIsFinal`). `RoundInv` adds `OnSchedule`
(phase, deadline and clock agree, however late the ticks), `ReloadsArePast` (no accepted shot
ends its reload after the last one, which keeps shots a reload apart), `FewCommands` and
`FoundAll`. `RoundAssumption` asks for at least one hunter, one hider and positive durations.
`VerdictIsFinal` is an action property: no step from a terminal round changes the verdict,
discoveries, shells or reloads.

**`HafProjectorProofs`** (`ProjectorInvariant`, `ProjectorTypeSafe`, `ProjectionIsOneChain`,
`PromotionIsIrreversible`, `EventsFollowAlways`, `ImplementsEventFeed`). The constant `Path`
gives each block the chain that leads to it, so the theorems hold for every tree of blocks and
every way the head moves in it. The strengthening is about the cycle between its requests:
`CycleIsAnchored` (it works on the cursor it has read, and its LIB is one the network still
holds) and `FetchIsBracketed` (while the source has not changed its fork since the fetch began,
what is fetched is on its chain; when it has changed once, equal headers before and after the
operations mean that both lie on one side of the change, and the operations with them). The latter
is why `CurrentIsOneChain` gives each block its own operations although headers and pages of
operations come by separate requests. When the fork changed twice in a fetch the block is in
`blurred` and all that is claimed of its operations is what `validateBlockOperations` checks.
`ImplementsEventFeed` is the refinement: initial states map to initial states, and every step is a
finality move of `MatchEventFeed` or a stutter.

**`MatchPublisherProofs`** (`PublisherInvariant`, `PublisherTypeSafe`, `RoundsArePublishedOnce`,
`PublicationIsFinal`, `AttemptsStayFenced`, `BroadcastIsUnderWay`). `RequestsHavePlaces` states
where each request is (a place determines its batch and position) rather than how often it is
counted, which is what the steps preserve; `OnePlace` derives `OneBatchPerRequest`. An attempt is
claimed by counting up, so that `WorkersHoldAttempts` (nobody holds a number that was not given
out) makes `AttemptsAreFenced` inductive when a lease runs out under its worker.
`SentIsUnderWay` covers the time between the broadcast and its mark.

**`ProvisioningProofs`** (`IdentityInvariant`, `IdentityTypeSafe`, `OneCredentialLives`,
`NewestLoginAlwaysWins`, `CredentialsServeOnce`, `LinksAreVerified`, `NamesCanBeLinked`), over the
specification of `Provisioning`, which includes `IdentitySessions`. `OneOpenSession` and
`NewestIsKept` (every session is matched by one at least as new that no login has superseded) carry
the two-statement replacement. `AcceptedOnce` relates the replay record, the clock and the handlers
in Nakama: no handler holds a reading ahead of the clock, so what is no longer in the record has
expired. `NamesCanBeLinked` follows from who may play at all: `Acknowledged` needs a player, and an
account the platform made gets one before its identity is linked only through a fork. `RequestsFit`
and `RunsFit` say what a request or a run may rely on at each of its awaits: a run at `mark_ready`
still finds verified what it verified, since an irreversible account is never forked out and a name
is reserved by one job. `NamesAssumption` keeps challenges, identities and NULL apart; the TTLs are
positive.

**`OfficialSignerProofs`** (`SigningInvariant`, `SignsOncePerKey`, `SignaturesAreJournaled`). A
request on the wire is the journal row of its key (`RequestsAreJournaled`), a reservation is never
taken back, and no two handlers work on one key (`HandlersHoldReservations`); the stage of a
handler says whether its key has been signed. Two general lemmas, `AttemptKeeps` and
`SignerKeeps`, say what any step of an attempt or of the signer has to leave.

**`PublicLedgerProofs`** (`LedgerInvariant`, `LedgerTypeSafe`, `CurrentIsHead`,
`CollectiblesAlwaysFollow`). `LedgerInv` extends `SigningInv` by `Fits(tables, final)`: the tables
are such as the first `final` operations of the chain can have left. For a result this is its
`Lineage`, one line of changes whose events are all first occurrences within that part of the
chain; a change extends the line by an event that is the first of its kind at a later place, hence
not on the line yet. `OperationFits` proves that one operation takes `Fits(t, i - 1)` to `Fits(t,
i)`. A transaction takes any number of them and commits only if each change it wrote is still the
head of its result, so that a line has at most one change of each transaction; it takes them by the
recursive function inside `MaterializeIrreversibleEvents`; the induction over it is made without
the library's induction theorems, which quantify over operators: `LeastNumber` (from `WFMin`) gives
`IntervalInduction` over sets, `SweepExists` shows that the recursion defines a function, and
`SweepInduction` carries an invariant stated as a function from positions to sets of tables.
`FitsGrown` shows that a chain that grows leaves what was first first. `LedgerAssumption` is what
the protocol schemas guarantee of a parsed event, and that NULL is no event, number or row.

**Model-checked only.** Liveness, which is beyond the prover: `DeparturesReachTheStore`,
`RoundEnds`, `CatchesUpUnlessBarred`, `RequestsGetPublished`, `LedgerCatchesUp`. The properties of
the three violation runs are false of the code and no theorems.

## 6. Limits and what is not modelled

- Rows are serialized by their transactions; PostgreSQL's isolation is taken as given, and
  SKIP LOCKED claims are treated as serial. Only `createSession` is split into its statements,
  as it is the one read-committed transaction whose second statement depends on the first.
- One match handler per lobby and one projector per source. `ensureLobbyMatch`, which is to
  guarantee the former, is not modelled.
- A block carries at most one operation of interest, so a page of operations ends between blocks.
- Payloads are what they decide: an event and its references, well formed or not, by whom and
  when. Schemas, canonical encoding, hashes and signatures are functions of one value and left out.
- The clock of the Nakama process never runs back, and the database's differs from it by no more
  than `Ahead` and `Behind`, which include how long a transaction has been open when it inserts.
  API and Nakama share one clock, read once by each handler of the bridge: the first of its two
  readings (`verify`) is no later than the second. One disclosure version is current. The HTTP
  layer, cookies and CSRF are left out.
- `commitTerminalResult` has no caller; only its queued request is modelled. The triggers of
  payments, settlements and roles guard tables no code writes.
- A round's participants who leave while it runs stay in it, as in the code; the projection of
  round state to each player is not modelled.
- Lobby configuration keeps the mode, map, number of hunters and threshold; the other settings
  pass through the same patch without deciding anything.
- Unity client, health endpoints, configuration parsing, the database package and scripts keep no
  state a property is about.

## 7. Plan

Done: the lobby (store, handler, round), the projector, the publisher, accounts (sessions, bridge,
provisioning), the public ledger (issuer, signer, materialization), and a proof of every safety
property the passing runs check.

To prove next, as action properties on top of the invariants:
1. the ledger is append-only: no step takes back a change, an event row, the initial event of a
   result or the issuance of an instance, and a revoked instance stays revoked;
2. finality never recedes: an irreversible checkpoint, a published request and an irreversible
   outbox stay so, and the two cursors of the projector never cross;
3. a superseded or logged-out session is never open again, a linked identity never changes its
   player, and a completed reservation of the signer keeps its binding.

Open on the modelling side: `ensureLobbyMatch` with concurrent callers and lost writes, what
`commitTerminalResult` checks once it has a caller, and a second projector by mistake.

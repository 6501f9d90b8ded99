--------------------------- MODULE MCPublicLedger ---------------------------
(* Model-checking instance of PublicLedger in seven scenarios: racing       *)
(* attempts at one issuance, one issuance from the command to the cache,    *)
(* changes of a result with and without a client that prepares corrections, *)
(* refused and unfit operations, and collectibles that share an identifier  *)
(* or a payment.                                                            *)
EXTENDS PublicLedger, TLC

CONSTANTS w1, w2, w3, h1, h2,                \* attempts and handlers
          i1, i2, i3, v1,                    \* issuances and a revocation
          b1, b2, b3, c1, n1, n2, n3, x1,    \* batches, corrections, invalidations
          r1, k1, k2, B1, B2,                \* rounds, collectibles, batch identifiers
          owner, payment, rev0, rev1         \* local rows

Current == [version |-> 2, role |-> "collectible_issuer", account |-> "issuer"]
Retired == [Current EXCEPT !.version = 1]
MCApproved == {Current}
MCAuthorizationOf == (w1 :> Current) @@ (w2 :> Current) @@ (w3 :> Retired)

Issue(c, p) == [type |-> "issued", issuer |-> "issuer", collectible |-> c, payment |-> p,
                needs |-> {owner} \cup ({p} \ {Nothing}), occurredAt |-> 0, fits |-> TRUE]
Revoke(c, e) == [type |-> "revoked", collectible |-> c, issued |-> e, occurredAt |-> 0,
                 fits |-> TRUE]
Batch(b, results, t) == [type |-> "batch", publisher |-> "publisher", batch |-> b,
                         results |-> results, occurredAt |-> t, fits |-> TRUE]
Change(kind, b, e, revision) ==
    [type |-> kind, publisher |-> "publisher", round |-> r1, original |-> b1,
     originalBatch |-> b, supersedes |-> e, revision |-> revision, occurredAt |-> 0,
     fits |-> TRUE]
MCContent ==
    (i1 :> Issue(k1, payment)) @@ (i2 :> Issue(k1, Nothing)) @@ (i3 :> Issue(k2, payment)) @@
    (v1 :> Revoke(k1, i1)) @@
    (b1 :> Batch(B1, (r1 :> rev0), 0)) @@
    (b2 :> Batch(B2, (r1 :> rev1), 1)) @@
    (b3 :> [Batch(B1, (r1 :> rev0), 0) EXCEPT !.fits = FALSE]) @@
    (c1 :> Change("corrected", B1, b1, rev1)) @@
    (n1 :> Change("invalidated", B1, c1, Nothing)) @@
    (n2 :> Change("invalidated", B1, b1, Nothing)) @@
    (n3 :> Change("invalidated", B1, n2, Nothing)) @@
    (x1 :> Change("corrected", B2, b1, rev1))

Op(e, signer, form, n) == [event |-> e, signer |-> signer, form |-> form, tx |-> <<e, n>>]
Good(e) == Op(e, "publisher", "posting", 1)
Collected(e) == Op(e, "issuer", "posting", 1)

Quiet == [workers |-> {}, commands |-> {}, attempts |-> 0, clock |-> 0, faults |-> 0,
          others |-> {}, operations |-> 0, rows |-> {}, typed |-> FALSE]
MCScenarios ==
    {[Quiet EXCEPT !.workers = {w1, w2}, !.commands = {i1}, !.attempts = 1, !.clock = 1,
                   !.faults = 2],
     [Quiet EXCEPT !.workers = {w1, w3}, !.commands = {i1}, !.attempts = 2, !.faults = 1],
     [Quiet EXCEPT !.workers = {w1}, !.commands = {i1}, !.attempts = 2, !.clock = 1,
                   !.faults = 1, !.rows = {owner, payment}],
     [Quiet EXCEPT !.others = {Good(b1), Good(b2), Good(c1), Good(n1), Good(n2)},
                   !.operations = 4, !.rows = {r1, rev1}, !.typed = TRUE],
     [Quiet EXCEPT !.others = {Good(b1), Good(c1), Good(n2), Good(n3)},
                   !.operations = 4, !.rows = {r1, rev1}],
     [Quiet EXCEPT !.others = {Good(b1), Good(b2), Good(b3), Good(x1),
                               Op(b1, "publisher", "posting", 2),
                               Op(b1, "stranger", "posting", 3),
                               Op(b1, "publisher", "active", 4),
                               Op(b1, "publisher", "malformed", 5),
                               Op(b1, "publisher", "garbled", 6),
                               Op(b1, "publisher", "other", 7)},
                   !.clock = 1, !.operations = 2, !.rows = {r1, rev1}],
     [Quiet EXCEPT !.others = {Collected(i1), Op(i1, "issuer", "posting", 2), Collected(i2),
                               Collected(i3), Collected(v1)},
                   !.operations = 4, !.rows = {owner, payment}]}

(* Handlers are interchangeable.                                            *)
Count(f) == [x \in {f[i] : i \in DOMAIN f} |-> Cardinality({i \in DOMAIN f : f[i] = x})]
Relevant == <<limit, clock, attemptVars, wire, Count(handler), reservation, signatures,
              submitted, chain, faults, ledgerVars>>
=============================================================================

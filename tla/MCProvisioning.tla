--------------------------- MODULE MCProvisioning ---------------------------
(* Model-checking instance of Provisioning in five scenarios: racing        *)
(* logins, the bridge to Nakama, two identities after one name, a fork      *)
(* under a provisioned account, and racing provisioning runs.               *)
EXTENDS Provisioning, TLC

CONSTANTS alice, g1, g2, r1, r2, w1, w2

Alone == [time |-> 0, challenges |-> 0, identities |-> {}, requests |-> {r1},
          workers |-> {}, sessions |-> 1, refreshes |-> 0, assertions |-> 0,
          faults |-> 0, forks |-> 0]
MCScenarios ==
    {[Alone EXCEPT !.time = 1, !.challenges = 3, !.requests = {r1, r2}, !.sessions = 3,
                   !.refreshes = 1],
     [Alone EXCEPT !.time = 2, !.challenges = 1, !.requests = {r1, r2}, !.refreshes = 2,
                   !.assertions = 3],
     [Alone EXCEPT !.identities = {g1, g2}, !.requests = {r1, r2}, !.workers = {w1}],
     [Alone EXCEPT !.time = 1, !.challenges = 1, !.identities = {g1}, !.workers = {w1},
                   !.sessions = 2, !.forks = 1],
     [Alone EXCEPT !.identities = {g1}, !.workers = {w1, w2}, !.sessions = 0,
                   !.faults = 1]}

(* Requests and workers are interchangeable, and what has expired or been   *)
(* consumed differs from nothing only in dates nobody reads again.          *)
Count(f) == [x \in {f[i] : i \in DOMAIN f} |-> Cardinality({i \in DOMAIN f : f[i] = x})]
Later(t) == IF t > now THEN t ELSE 0
Relevant ==
    <<limit, now, account, player, identity,
      [c \in DOMAIN challenge |-> IF challenge[c].consumed THEN 0 ELSE Later(challenge[c].until)],
      [s \in DOMAIN session |-> [session[s] EXCEPT !.accessUntil = Later(@)]],
      ackVars, [e \in Identity |-> Later(onboardingUntil[e])],
      Count(request), bridgeVars, final, rc, projected, job, Count(run), faults, forks>>
=============================================================================

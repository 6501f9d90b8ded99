---------------------------- MODULE MCLobbyStore ----------------------------
(* Model-checking instance of LobbyStore: hosts try a configuration that    *)
(* can start and one whose map is a draft and whose threshold exceeds the   *)
(* capacity of the smaller lobby.                                          *)
EXTENDS LobbyStore, TLC

CONSTANTS l1, l2, published, draft

MCLobby == {l1, l2}
MCMaxVersion == (l1 :> 6) @@ (l2 :> 1)

MCMap == {published, draft}
MCPublishedMap == {published}
MCPatches ==
    {[mode |-> "casual", map |-> published, hunters |-> 1, threshold |-> 2],
     [mode |-> "casual", map |-> draft, hunters |-> 2, threshold |-> 3]}

Symmetry == Permutations(Player)

(* What later steps and the invariants can still tell apart: versions only  *)
(* grow, so a snapshot that is out of date stays so and satisfies no fence, *)
(* and nothing reads the reason of an assignment.                           *)
Fresh(p) ==
    IF seen[p] # NoSnapshot /\ seen[p].version = lobby[seen[p].lobby].version
    THEN seen[p] ELSE NoSnapshot
Relevant ==
    <<lobby, membership, joinedAt, nominated, config, rounds, now,
      [l \in Lobby |-> {a.host : a \in assigned[l]}], [p \in Player |-> Fresh(p)]>>
=============================================================================

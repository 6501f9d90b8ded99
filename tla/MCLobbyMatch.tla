---------------------------- MODULE MCLobbyMatch ----------------------------
(* Model-checking instances of LobbyMatch: one lobby and two players, of    *)
(* whom the first may connect again before the departure of her first       *)
(* session is delivered.                                                   *)
EXTENDS LobbyMatch, TLC

CONSTANTS l1, p1, p2, s1, s2, published, MaxLobbyVersion

MCMaxVersion == l1 :> MaxLobbyVersion
MCReconnect == (s1 :> p1) @@ (s2 :> p1)
MCOneSession == s1 :> p1
Setup(mode) == [mode |-> mode, map |-> published, hunters |-> 1, threshold |-> 2]

(* Sound where nobody sends a fenced command, which alone reads `seen', and  *)
(* with two players: where one of them is left there is nobody to choose    *)
(* from, so of a joined_at only whether it is ahead of the clock is read.   *)
Early == {p \in membership[L] : joinedAt[L][p] > now}
WithoutSeen ==
    <<lobby, membership, Early, {a.host : a \in assigned[L]}, now, matchVars, envVars>>

(* A snapshot a client holds matters while its version is that of the lobby,*)
(* of the cache or of the snapshot being read: versions only grow, and the  *)
(* cache is only ever replaced by one of the other two.  Nothing reads the  *)
(* reason of an assignment.                                                *)
Fresh(p) ==
    IF seen[p].version \in {lobby[L].version, cache.version, reading.version}
    THEN seen[p] ELSE NoSnapshot
Relevant ==
    <<lobby, membership, joinedAt, nominated, config, rounds, now, matchVars, envVars,
      {a.host : a \in assigned[L]}, [p \in Player |-> Fresh(p)]>>

MCPatches == {Setup("casual"), Setup("infection")}
=============================================================================

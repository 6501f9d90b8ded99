--------------------------- MODULE MatchEventFeed ---------------------------
(***************************************************************************)
(* What the rows of hive_projection.match_event promise their readers: the *)
(* finality of a logical event moves only along the transitions that       *)
(* hc_validate_match_event admits.  HafProjector writes the rows and       *)
(* implements this specification; MatchPublisher reads them and is checked *)
(* against every behaviour it allows.                                      *)
(***************************************************************************)
CONSTANT Event
VARIABLE state

State == {"absent", "included", "reverted", "irreversible"}

(* An insert or a fork replay, a promotion, a reversion.                    *)
Moves == {<<"absent", "included">>, <<"reverted", "included">>,
          <<"included", "irreversible">>, <<"included", "reverted">>}

Init == state = [e \in Event |-> "absent"]

(* One transaction of the projector may move several events.                *)
Next ==
    /\ state' \in [Event -> State]
    /\ \A e \in Event : state'[e] # state[e] => <<state[e], state'[e]>> \in Moves

Spec == Init /\ [][Next]_state
=============================================================================

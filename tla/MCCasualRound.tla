--------------------------- MODULE MCCasualRound ----------------------------
(* Model-checking instance of CasualRound: two hunters after two hiders,    *)
(* one volunteer, and one command more than a hunter has shells for.        *)
EXTENDS CasualRound

CONSTANTS volunteer

MCNominee == {volunteer}

(* Command IDs are interchangeable.  Of a refused command only the fact that *)
(* it was processed is ever read again, of an accepted one its reload time   *)
(* and the hider it found.                                                  *)
Remembered(h) ==
    <<Cardinality(Processed(h)), Cardinality(Accepted(h)),
      {<<commands[h][c].reload, commands[h][c].hider>> : c \in Accepted(h)}>>
Relevant ==
    <<assignment, now, phase, deadline, winningSide, completionReason, discoveries,
      shells, reloadUntil, [h \in hunters |-> Remembered(h)]>>
=============================================================================

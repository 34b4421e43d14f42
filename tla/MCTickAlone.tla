----------------------------- MODULE MCTickAlone -----------------------------
(***************************************************************************)
(* One tick process for TLC, in one of two scenes: the people and jobs     *)
(* around two runs while no close comes in, or one run and the closes that *)
(* come in under it.  The second begins with part of the bounds used up.   *)
(***************************************************************************)
EXTENDS GovernedTick, TLC

CONSTANTS OpenRuns, OpenMoves    \* bounds of the scene with closes

MCInit ==
    /\ Start
    /\ runs = IF open THEN MaxRuns - OpenRuns ELSE 0
    /\ moves = IF open THEN MaxMoves - OpenMoves ELSE 0
    /\ ~open => \A s \in Symbols : /\ \A p \in Prices : p <= price[s]
                                  /\ value[s] = shares[s] * price[s]

MCSpec == MCInit /\ [][Next]_vars /\ \A t \in Ticks : WF_vars(TickStep(t))
=============================================================================

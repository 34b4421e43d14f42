--------------------------- MODULE MCGovernedTick ---------------------------
(***************************************************************************)
(* GovernedTick for TLC: names that are told apart by Core only, and the   *)
(* tick processes, are interchangeable.                                    *)
(***************************************************************************)
EXTENDS GovernedTick, TLC

Interchangeable ==
    {f @@ g @@ h : f \in Permutations(Ticks), g \in Permutations(Core),
                   h \in Permutations(Symbols \ Core)}
=============================================================================

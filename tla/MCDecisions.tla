------------------------------ MODULE MCDecisions ------------------------------
(***************************************************************************)
(* From data to a decision and what is learned of it, for TLC: the         *)
(* ingestion of prices and macro series, the rules that turn them into     *)
(* buys, exits and regimes, the board the founder decides on, and the      *)
(* ledger of what was bought and how it ended.  They share no state here,  *)
(* so one of them moves in a behaviour while the others stay where they    *)
(* began: the states add up, never multiply.                               *)
(***************************************************************************)
EXTENDS MarketData, TradeRules, OpportunityBoard, Learning, TLC

VARIABLE focus

MCMedians == {12000}
Asked(n, m) == [tested |-> n, small |-> FALSE, split |-> FALSE, quality |-> TRUE, mode |-> m]
MCTerms == {Asked(1, "enforcing"), Asked(3, "enforcing"), Asked(1, "shadow")}

\* What the Edge Proof reports: no edge and a thin one.
Report(a, h, k) == [allowed |-> a, hit |-> h, n |-> k]
MCReports == {Report(FALSE, 0, 0), Report(TRUE, 6, 20)}

\* The board begins with one name clear and one not: a turn makes both so, or neither.
MCInit ==
    /\ MarketInit /\ RulesInit /\ BoardInit /\ LearningInit
    /\ focus \in {"market", "name", "macro", "board", "ledger"}
    /\ focus # "name" => kind = "stock" /\ terms = Asked(1, "enforcing")
    /\ riskOff = FALSE /\ IF focus = "board" THEN Cardinality(clear) = 1 ELSE clear = Names

\* A screen that doubts, one that is lifted again, a freeze and a removal under a clear verdict.
Screenings == {<<"doubtful", "doubtful">>, <<"compliant", "doubtful">>, <<"frozen", "pass">>, <<"unlisted", "none">>}

\* The arithmetic of one name takes one macro signal, the regimes take all of them.
NameStep ==
    \/ Tick \/ NewDay
    \/ closes = <<>> /\ Release("gpr_high")
    \/ \E x \in Screenings : Screen(x[1], x[2])

MCNext ==
    /\ UNCHANGED focus
    /\ \/ focus = "market" /\ MarketNext /\ UNCHANGED <<ruleVars, boardVars, learningVars>>
       \/ /\ \/ focus = "name" /\ NameStep
             \/ focus = "macro" /\ \E s \in Signals : Release(s)
          /\ UNCHANGED <<marketVars, boardVars, learningVars>>
       \/ focus = "board" /\ BoardStep /\ UNCHANGED <<marketVars, ruleVars, learningVars>>
       \/ focus = "ledger" /\ LearningNext /\ UNCHANGED <<marketVars, ruleVars, boardVars>>

MCSpec == MCInit /\ [][MCNext]_<<marketVars, ruleVars, boardVars, learningVars, focus>>

Interchangeable ==
    UNION {Permutations(S) : S \in {Builders, Names, Ticks, Strategies}}
=============================================================================

-------------------------- MODULE MCCommandPoller --------------------------
(* CommandPoller on a small instance: the founder and a friend send two    *)
(* commands about an approval, a desk and a board that is rebuilt.         *)
EXTENDS CommandPoller, TLC

CONSTANTS SPUS, r1, sharia, all

Edge == [allowed |-> TRUE, hit |-> 6, n |-> 20]
MCReports == {Edge}

\* A table whose check was widened to what the web sends.
MCTableTypes == WebTypes

From(t, a, f) == [type |-> t, arg |-> a, from |-> f]
MCRequests ==
    {From("run_tick", all, "friend"), From("pause_desk", sharia, "friend"), From("pause_desk", sharia, "founder"),
     From("approve", r1, "founder"), From("veto", r1, "founder"),
     From("approve_proposal", 1, "founder"), From("veto_proposal", 1, "founder")}

\* The brain after one build, whose row is the live board.
Built == <<[prop |-> Proposal(SPUS, TRUE, Edge, FALSE), status |-> "proposed", rank |-> FALSE, build |-> 1]>>

\* Three scenes: the next build is about to be written; an approval has been asked for and
\* the founder may answer by himself; no founder is configured.
Scene(building, asked) ==
    /\ draft = [b \in Builders |-> IF building THEN {Built[1].prop} ELSE {}]
    /\ regime = [b \in Builders |-> IF building THEN "on" ELSE "none"]
    /\ latest = [r \in Refs |-> IF asked THEN "pending" ELSE "none"]
    /\ words = IF building THEN MaxWords ELSE 0

MCInit ==
    /\ clear = Names /\ riskOff = FALSE /\ board = Built /\ builds = 1 /\ turns = 0
    /\ PollerInit
    /\ IF founderSet THEN Scene(TRUE, FALSE) \/ Scene(FALSE, TRUE) ELSE Scene(FALSE, FALSE)

MCSpec == MCInit /\ [][Next]_vars /\ Fairness
=============================================================================

------------------------------- MODULE Autonomy -------------------------------
(***************************************************************************)
(* The three ladders the operator climbs by itself and the gates on them:  *)
(* the operator's own states, the promotion of a strategy towards real     *)
(* money, and the pipeline of a product towards production.  Each is one   *)
(* object of one process; a refused call raises and changes nothing, so    *)
(* a guard here is a refusal there.                                        *)
(***************************************************************************)
EXTENDS Integers, Sequences

CONSTANTS
    Strategies,
    Evidence,       \* what promote may be handed: [n, hit], hit "poor", "fair" or "garbage"
    Contexts,       \* what advance may be handed: [tests, approved, haram]
    Theses,         \* product theses: [missing, risk, sharia]
    MinEvidence     \* MIN_EVIDENCE_N

VARIABLES
    state, pausedFrom,      \* StateMachine
    trail,                  \* the states since the operator last rested (history)
    let,                    \* the last move out of PAUSED was the founder's (history)
    mode, status,           \* StrategyRegistry: the rung and the lifecycle of each
    climb,                  \* how each rung since the last demotion was won (history)
    stage,                  \* BuildPipeline, "none" before there is one
    passed                  \* what was true as the pipeline moved (history)

operator == <<state, pausedFrom, trail, let>>
registry == <<mode, status, climb>>
pipeline == <<stage, passed>>
autonomyVars == <<operator, registry, pipeline>>

-----------------------------------------------------------------------------
Allowed ==
    [IDLE |-> {"OBSERVING"},
     OBSERVING |-> {"RESEARCHING", "IDLE"},
     RESEARCHING |-> {"FORMING_THESIS", "OBSERVING"},
     FORMING_THESIS |-> {"TESTING_EDGE", "RESEARCHING"},
     TESTING_EDGE |-> {"AWAITING_APPROVAL", "FORMING_THESIS", "IDLE"},
     AWAITING_APPROVAL |-> {"ACTING", "IDLE"},
     ACTING |-> {"MONITORING"},
     MONITORING |-> {"LEARNING", "OBSERVING"},
     LEARNING |-> {"IDLE", "OBSERVING"},
     PAUSED |-> {"IDLE", "OBSERVING"},
     KILLED |-> {}]

States == DOMAIN Allowed
Restful == {"IDLE", "OBSERVING"}

Enter(s) ==
    /\ state' = s
    /\ trail' = IF s \in Restful THEN {s} ELSE trail \cup {s}

\* What leads on from PAUSED is a row of the table like any other.
OnwardToPausedFrom == IF state = "PAUSED" THEN {pausedFrom} ELSE Allowed[state]
Onward == Allowed[state]

Transition(to, founder) ==
    /\ state # "KILLED"
    /\ state = "PAUSED" => founder
    /\ to \in Onward
    /\ Enter(to)
    /\ let' = IF state = "PAUSED" THEN founder ELSE let
    /\ UNCHANGED <<pausedFrom, registry, pipeline>>

\* Pausing what is paused remembers PAUSED as what it was paused from.
Pause ==
    /\ state # "KILLED"
    /\ pausedFrom' = state
    /\ Enter("PAUSED") /\ let' = FALSE
    /\ UNCHANGED <<registry, pipeline>>

Kill ==
    /\ Enter("KILLED")
    /\ UNCHANGED <<pausedFrom, let, registry, pipeline>>

Restart ==
    /\ state = "KILLED"
    /\ Enter("IDLE") /\ pausedFrom' = "none" /\ let' = TRUE
    /\ UNCHANGED <<registry, pipeline>>

-----------------------------------------------------------------------------
Ladder == <<"backtest", "realistic_paper", "shadow", "live_small", "live_scale">>
LiveRungs == {"live_small", "live_scale"}
Rung(m) == CHOOSE i \in DOMAIN Ladder : Ladder[i] = m

\* A NaN survives every comparison that refuses: the evidence must pass, not fail to fail.
Earned(e) == e.n >= MinEvidence /\ e.hit = "fair"

FounderOnly(now, next) == next \in LiveRungs

Promote(s, e, founder) ==
    LET next == Ladder[Rung(mode[s]) + 1] IN
    /\ Rung(mode[s]) < Len(Ladder)
    /\ FounderOnly(mode[s], next) => founder
    /\ founder \/ Earned(e)
    /\ mode' = [mode EXCEPT ![s] = next]
    /\ climb' = [climb EXCEPT ![s][next] = IF founder THEN "founder" ELSE "evidence"]
    /\ UNCHANGED <<status, operator, pipeline>>

\* A failure drops a strategy to the paper rung, from wherever above backtest it was.
Demote(s) ==
    LET down == IF mode[s] = "backtest" THEN "backtest" ELSE "realistic_paper" IN
    /\ mode' = [mode EXCEPT ![s] = down]
    /\ climb' = [climb EXCEPT ![s] = [m \in DOMAIN @ |-> IF Rung(m) > Rung(down) THEN "none" ELSE @[m]]]
    /\ UNCHANGED <<status, operator, pipeline>>

\* Nothing in set_status looks at the status it replaces: what was killed can be activated.
SetStatus(s, new) ==
    /\ status' = [status EXCEPT ![s] = new]
    /\ UNCHANGED <<mode, climb, operator, pipeline>>

-----------------------------------------------------------------------------
Order == <<"PRODUCT_THESIS", "PRD", "BUILD_PLAN", "ISSUES", "MVP", "TESTS",
           "STAGING", "APPROVAL", "PRODUCTION", "MEASURE">>

\* Every field answered, a risk rating of the list, a Sharia check that is a pass.
EvaluateGate(thesis) ==
    thesis.missing = {} /\ thesis.risk \in {"low", "medium", "high"} /\ thesis.sharia \in {"pass", "compliant"}

\* The Entrepreneur Constitution's verdict on a LAUNCH.
AllowsLaunch(ctx) == ~ctx.haram /\ ctx.approved

CanAdvance(next, ctx) ==
    /\ next = "STAGING" => ctx.tests
    /\ next = "PRODUCTION" => AllowsLaunch(ctx)

StartPipeline(thesis) ==
    /\ EvaluateGate(thesis)
    /\ stage' = Order[1] /\ passed' = {"thesis"}
    /\ UNCHANGED <<operator, registry>>

Advance(ctx) ==
    LET at == CHOOSE i \in DOMAIN Order : Order[i] = stage
        next == Order[at + 1]
    IN  /\ stage # "none" /\ at < Len(Order)
        /\ CanAdvance(next, ctx)
        /\ stage' = next
        /\ passed' = passed
             \cup (IF next = "STAGING" /\ ctx.tests THEN {"tests"} ELSE {})
             \cup (IF next = "PRODUCTION" /\ ctx.approved /\ ~ctx.haram THEN {"launch"} ELSE {})
        /\ UNCHANGED <<operator, registry>>

IsLive == stage \in {"PRODUCTION", "MEASURE"}

-----------------------------------------------------------------------------
AutonomyInit ==
    /\ state = "IDLE" /\ pausedFrom = "none" /\ trail = {"IDLE"} /\ let = TRUE
    /\ mode \in [Strategies -> {"backtest", "realistic_paper"}] /\ status = [s \in Strategies |-> "active"]
    /\ climb = [s \in Strategies |-> [m \in {Ladder[i] : i \in DOMAIN Ladder} |-> "none"]]
    /\ stage = "none" /\ passed = {}

OperatorStep ==
    \/ \E to \in States, founder \in BOOLEAN : Transition(to, founder)
    \/ Pause \/ Kill \/ Restart

RegistryStep == \E s \in Strategies :
    \/ \E e \in Evidence, founder \in BOOLEAN : Promote(s, e, founder)
    \/ Demote(s)
    \/ \E new \in {"active", "paused", "killed", "retired"} : SetStatus(s, new)

PipelineStep ==
    \/ \E thesis \in Theses : StartPipeline(thesis)
    \/ \E ctx \in Contexts : Advance(ctx)

AutonomyNext == OperatorStep \/ RegistryStep \/ PipelineStep

AutonomySpec == AutonomyInit /\ [][AutonomyNext]_autonomyVars

-----------------------------------------------------------------------------
\* state_machine.py's "no acting without the gate": whatever pauses, kills and restarts
\* come in between, the operator acts only after it tested the edge and waited for the
\* approval on the way from its last rest, and never on a pause the founder did not lift.
ActingIsGated ==
    state = "ACTING" => /\ {"FORMING_THESIS", "TESTING_EDGE", "AWAITING_APPROVAL"} \subseteq trail
                        /\ let
                        /\ "PAUSED" \notin trail

\* Real money and production are the founder's explicit acts: every live rung a strategy
\* stands on or above was granted by the founder since it last failed, every paper rung
\* above the cooldown earned or granted, and a product in production had its thesis, its
\* tests and its launch passed on the way.
CapitalIsFounders ==
    /\ \A s \in Strategies : \A i \in 3..Rung(mode[s]) :
           climb[s][Ladder[i]] \in (IF Ladder[i] \in LiveRungs THEN {"founder"} ELSE {"founder", "evidence"})
    /\ IsLive => passed = {"thesis", "tests", "launch"}

\* The two promises of the operator's autonomy in one: to act, and to hold real money or
\* a production launch, are always the end of the whole way there.
AutonomyIsEarned == ActingIsGated /\ CapitalIsFounders
=============================================================================

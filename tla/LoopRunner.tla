------------------------------ MODULE LoopRunner ------------------------------
(***************************************************************************)
(* run_once, the loop of six steps behind the heartbeat and the weekly     *)
(* self-test, and the rows of the runs table it shares with the governed   *)
(* ticks.  Every callable of a step may raise, every write of the row may  *)
(* be refused by a busy database, the process may die anywhere, and the    *)
(* kill switch moves beside all of it.  The rows are what the readiness    *)
(* clock counts and the dashboard shows.                                   *)
(***************************************************************************)
EXTENDS Integers, Sequences, FiniteSets

CONSTANTS
    Loops, Ticks,           \* processes: heartbeats, and ticks of either mode
    MinPaperRuns,           \* min_paper_runs of the readiness gate
    MaxRows, MaxMishaps, MaxThrows    \* bounds on behaviours

ASSUME LoopRunnerConstants ==
    Loops \cap Ticks = {} /\ {MinPaperRuns, MaxRows, MaxMishaps, MaxThrows} \subseteq Nat

Steps == <<"observe", "thesis", "choose", "act", "measure", "learn">>

VARIABLES
    halted,
    runs,           \* the table: [mode, steps, outcome], its ids are its indices
    loop,           \* each process: where it is and the RunState it holds
    did,            \* by run: the steps that really came to their end (history)
    track,          \* runs of realistic ticks that came to a complete end (history)
    gate,           \* the readiness gate: [at, halted, ready]
    mishaps, throws

runnerVars == <<halted, runs, loop, did, track, gate, mishaps, throws>>

Procs == Loops \cup Ticks
Pending == [i \in DOMAIN Steps |-> "pending"]
Fresh == [at |-> "idle", id |-> 0, step |-> 1, steps |-> Pending, outcome |-> "running"]
NoGate == [at |-> "idle", halted |-> FALSE, ready |-> FALSE]

RunnerInit ==
    /\ halted = FALSE /\ runs = <<>> /\ did = <<>> /\ track = 0 /\ gate = NoGate
    /\ loop = [p \in Procs |-> Fresh]
    /\ mishaps = 0 /\ throws = 0

\* A write of the run's row; what it writes is the whole of the RunState in memory.
Write(p, l) == runs' = [runs EXCEPT ![l.id].steps = l.steps, ![l.id].outcome = l.outcome]
Becomes(p, l) == loop' = [loop EXCEPT ![p] = l]
Mishap == mishaps < MaxMishaps /\ mishaps' = mishaps + 1

-----------------------------------------------------------------------------
\* run_once: a halted loop leaves no row; otherwise begin_run inserts one.  A tick has its
\* row before its gates look at the flag.
StartLoop(p) ==
    /\ loop[p].at = "idle"
    /\ Becomes(p, IF halted /\ p \in Loops THEN [Fresh EXCEPT !.at = "ended", !.outcome = "halted"]
                  ELSE [Fresh EXCEPT !.at = "begin"])
    /\ UNCHANGED <<halted, runs, did, track, gate, mishaps, throws>>

BeginRun(p, mode) ==
    /\ loop[p].at = "begin" /\ Len(runs) < MaxRows
    /\ runs' = Append(runs, [mode |-> mode, steps |-> Pending, outcome |-> "running"])
    /\ did' = Append(did, {})
    /\ Becomes(p, [loop[p] EXCEPT !.at = IF p \in Loops THEN "run" ELSE "tick", !.id = Len(runs) + 1])
    /\ UNCHANGED <<halted, track, gate, mishaps, throws>>

\* The callable of a step returns, and the step is marked; or it raises.  Observe, thesis
\* and choose end the run at that, measure and learn go on, an exception while acting goes up.
VitalButChoose(i) == i < 3
Vital(i) == i < 4

StepOk(p) ==
    LET i == loop[p].step IN
    /\ loop[p].at = "run"
    /\ Becomes(p, [loop[p] EXCEPT !.at = "save", !.steps[i] = "ok"])
    /\ did' = [did EXCEPT ![loop[p].id] = @ \cup {i}]
    /\ UNCHANGED <<halted, runs, track, gate, mishaps, throws>>

StepRaises(p) ==
    LET i == loop[p].step IN
    /\ loop[p].at = "run"
    /\ Becomes(p, IF Vital(i) THEN [loop[p] EXCEPT !.at = "finish", !.steps[i] = "error", !.outcome = "error"]
                  ELSE IF Steps[i] = "act" THEN [loop[p] EXCEPT !.at = "handle", !.outcome = "error"]
                  ELSE [loop[p] EXCEPT !.at = "save", !.steps[i] = "error"])
    /\ UNCHANGED <<halted, runs, did, track, gate, mishaps, throws>>

\* update_run after a step, and after the last one finish_run.
SaveStep(p) ==
    LET l == loop[p] IN
    /\ l.at = "save"
    /\ Write(p, l)
    /\ Becomes(p, IF l.step < Len(Steps) THEN [l EXCEPT !.at = "run", !.step = @ + 1]
                  ELSE [l EXCEPT !.at = "finish", !.outcome = "complete"])
    /\ UNCHANGED <<halted, did, track, gate, mishaps, throws>>

FinishRun(p) ==
    /\ loop[p].at \in {"finish", "handle"}
    /\ Write(p, loop[p])
    /\ Becomes(p, [loop[p] EXCEPT !.at = "ended"])
    /\ UNCHANGED <<halted, did, track, gate, mishaps, throws>>

\* A busy database: any of these writes raises.  run_once catches it and finishes the run
\* as an error; if that is refused too the exception leaves run_once.
AfterRefusal(l) == IF l.at = "handle" THEN [l EXCEPT !.at = "ended"] ELSE [l EXCEPT !.at = "handle", !.outcome = "error"]

WriteRefused(p) ==
    /\ loop[p].at \in {"save", "finish", "handle"} /\ p \in Loops
    /\ Mishap
    /\ Becomes(p, AfterRefusal(loop[p]))
    /\ UNCHANGED <<halted, runs, did, track, gate, throws>>

BeginRefused(p) ==
    /\ loop[p].at = "begin" /\ Mishap
    /\ Becomes(p, [Fresh EXCEPT !.at = "ended"])
    /\ UNCHANGED <<halted, runs, did, track, gate, throws>>

-----------------------------------------------------------------------------
\* A governed tick, as far as its row goes: operational or investment-valid, graded
\* complete only when it filled something, an error through its own finish_run.
TickEnds(p, outcome) ==
    LET l == [loop[p] EXCEPT !.at = "ended", !.outcome = outcome] IN
    /\ loop[p].at = "tick"
    /\ Write(p, l) /\ Becomes(p, l)
    /\ track' = IF outcome = "complete" /\ runs[l.id].mode = "investment_valid" THEN track + 1 ELSE track
    /\ UNCHANGED <<halted, did, gate, mishaps, throws>>

Again(p) ==
    /\ loop[p].at = "ended"
    /\ Becomes(p, Fresh)
    /\ UNCHANGED <<halted, runs, did, track, gate, mishaps, throws>>

ProcessDies(p) ==
    /\ loop[p].at \notin {"idle", "ended"} /\ Mishap
    /\ Becomes(p, [Fresh EXCEPT !.at = "ended"])
    /\ UNCHANGED <<halted, runs, did, track, gate, throws>>

Throw ==
    /\ throws < MaxThrows /\ throws' = throws + 1
    /\ halted' = ~halted
    /\ UNCHANGED <<runs, loop, did, track, gate, mishaps>>

-----------------------------------------------------------------------------
PaperRuns == Cardinality({i \in DOMAIN runs : runs[i].outcome = "complete" /\ runs[i].mode = "investment_valid"})

\* check_live_readiness: the flag first, then the clock.  (That the chain verifies is no
\* blocker: verify_hash_chain returns a list, which is never False.)
AskFlag ==
    /\ gate.at = "idle"
    /\ gate' = [NoGate EXCEPT !.at = "count", !.halted = halted]
    /\ UNCHANGED <<halted, runs, loop, did, track, mishaps, throws>>

AskClock(liveEnabled) ==
    /\ gate.at = "count"
    /\ gate' = [gate EXCEPT !.at = "answered",
                    !.ready = ~gate.halted /\ PaperRuns >= MinPaperRuns /\ liveEnabled]
    /\ UNCHANGED <<halted, runs, loop, did, track, mishaps, throws>>

LoopStep(p) ==
    \/ StartLoop(p) \/ StepOk(p) \/ StepRaises(p) \/ SaveStep(p) \/ FinishRun(p)
    \/ WriteRefused(p) \/ BeginRefused(p) \/ Again(p) \/ ProcessDies(p)
    \/ \E mode \in {"operational", "investment_valid"} :
           (p \in Loops => mode = "operational") /\ BeginRun(p, mode)
    \/ \E outcome \in {"complete", "no_action", "error"} : TickEnds(p, outcome)

RunnerNext ==
    \/ \E p \in Procs : LoopStep(p)
    \/ Throw \/ AskFlag \/ \E liveEnabled \in BOOLEAN : AskClock(liveEnabled)

RunnerSpec == RunnerInit /\ [][RunnerNext]_runnerVars

-----------------------------------------------------------------------------
Held(i) == \E p \in Procs : loop[p].id = i /\ loop[p].at # "ended"
Heartbeats == {i \in DOMAIN runs : did[i] # {} \/ runs[i].steps # Pending}

\* What the runs table says is what happened, through exceptions, refused writes and deaths:
\* a heartbeat's row is complete only if observe, thesis, choose and act all came to their
\* end; a step it calls ok came to its end; and a row is left running, with nobody at it,
\* at most once for each fault, never by an exception alone.
RowsTellTheTruth ==
    /\ \A i \in Heartbeats : runs[i].outcome = "complete" => {1, 2, 3, 4} \subseteq did[i]
    /\ \A i \in DOMAIN runs, k \in DOMAIN Steps : runs[i].steps[k] = "ok" => k \in did[i]
    /\ Cardinality({i \in DOMAIN runs : runs[i].outcome = "running" /\ ~Held(i)}) <= mishaps

\* The readiness clock moves only by realistic ticks that came to a complete end: neither
\* heartbeats and self-tests nor runs that died move it, and it is never moved back.
ClockIsEarned ==
    /\ PaperRuns = track
    /\ gate.ready => track >= MinPaperRuns

\* The runs table and the clock that reads it, together.
RunsAreHonest == RowsTellTheTruth /\ ClockIsEarned
=============================================================================

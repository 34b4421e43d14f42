----------------------------- MODULE Workforce -----------------------------
(***************************************************************************)
(* The research desks: research/workforce.py runs one desk in isolation    *)
(* and audits it; a cycle runs them all, along a dependency graph          *)
(* (research/scheduler.py), under a supervisor with retries, quarantine    *)
(* and a cost cap (research/supervisor.py), or as the plain evidence desks *)
(* behind a switch and a token budget (research/desk.py).  The founder     *)
(* pauses and resumes desks meanwhile; a process may die at any step.      *)
(***************************************************************************)
EXTENDS Integers, Sequences, FiniteSets, SequencesExt

CONSTANTS Nodes,        \* desk ids, as a sequence: alphabetical, and the order of registration
          Desks,        \* those registered with the workforce
          Analysts,     \* of those, the evidence desks; the others are operator desks
          Graphs,       \* the dependency graphs a cycle may be given
          Cap,          \* cost cap of a supervised cycle, token budget of an evidence one
          MaxRetries,
          MaxNotes,     \* bound: evidence notes one run of a desk finds
          MaxCost,      \* bound: what one run of a desk costs
          MaxCycles,    \* bound
          MaxTurns      \* bound: pauses, resumes and crashes

ASSUME WorkforceConstants ==
    /\ Nodes \in Seq(STRING) /\ IsInjective(Nodes) /\ Desks \subseteq Range(Nodes) /\ Analysts \subseteq Desks
    /\ Graphs \subseteq [Range(Nodes) -> SUBSET Range(Nodes)]
    /\ {Cap, MaxRetries, MaxNotes, MaxCost, MaxCycles, MaxTurns} \subseteq Nat

VARIABLES
    paused,       \* desk_control
    audit,        \* audit[d]: of d's rows in desk_runs, the newest status and the sum of evidence_n
    notes,        \* notes[d]: rows of research_evidence from desk d
    mode,         \* the cycle under way: "idle", "all", "dag", "supervised", "evidence"
    deps,         \* its dependency graph
    todo,         \* desks still to come, the current one first
    busy,         \* whether the current desk is running
    wrote,        \* notes its run has written
    tries,        \* retries of the current desk
    result,       \* result[d]: how d ended in this cycle, or "none"
    spent,        \* what the cost meter was charged
    quarantined,  \* of the supervisor, an object that outlives a cycle but not its process
    cycles, turns,
    burned,       \* history: what the runs of this cycle cost
    failures,     \* history: runs of this cycle that raised
    still         \* history: the desks paused since this cycle began

cycleVars == <<mode, deps, todo, busy, wrote, tries, result, spent, burned, failures>>
vars == <<paused, audit, notes, cycleVars, quarantined, cycles, turns, still>>

Ids == Range(Nodes)
NoDeps == [d \in Ids |-> {}]

----------------------------------------------------------------------------
\* The desks of S, in the order of Nodes.
InOrder(S) ==
    FlattenSeq([n \in 1..Len(Nodes) |-> IF Nodes[n] \in S THEN <<Nodes[n]>> ELSE <<>>])

\* topological_order: rank by rank, alphabetically within a rank; a cycle raises.

Ready(g, rest) == {d \in rest : g[d] \cap rest = {}}

Remaining(g) ==
    LET after[n \in 0..Len(Nodes)] ==
            IF n = 0 THEN Ids ELSE LET rest == after[n - 1] IN rest \ Ready(g, rest)
    IN  after

IsAcyclic(g) == Remaining(g)[Len(Nodes)] = {}

TopologicalOrder(g) ==
    FlattenSeq([n \in 1..Len(Nodes) |-> InOrder(Ready(g, Remaining(g)[n - 1]))])

----------------------------------------------------------------------------
Init ==
    /\ paused = {} /\ audit = [d \in Ids |-> [last |-> "none", n |-> 0]] /\ notes = [d \in Ids |-> 0]
    /\ mode = "idle" /\ deps = NoDeps /\ todo = <<>> /\ busy = FALSE /\ wrote = 0 /\ tries = 0
    /\ result = [d \in Ids |-> "none"] /\ spent = 0 /\ burned = 0 /\ failures = 0
    /\ quarantined = {} /\ cycles = 0 /\ turns = 0 /\ still = {}

Begin(m, g, order) ==
    /\ mode = "idle" /\ cycles < MaxCycles /\ cycles' = cycles + 1
    /\ mode' = m /\ deps' = g /\ todo' = order /\ still' = paused
    /\ result' = [d \in Ids |-> "none"] /\ spent' = 0 /\ burned' = 0 /\ failures' = 0
    /\ UNCHANGED <<paused, audit, notes, busy, wrote, tries, quarantined, turns>>

Registered == InOrder(Desks)

RunAll == Begin("all", NoDeps, Registered)
RunDag == \E g \in Graphs : IsAcyclic(g) /\ Begin("dag", g, TopologicalOrder(g))
RunCycle == Begin("supervised", NoDeps, Registered)
\* ResearchDesk.run, when its master switch is on.
RunEvidence == Begin("evidence", NoDeps, InOrder(Analysts))

Running == mode # "idle" /\ todo # <<>>
Desk == Head(todo)

\* The cycle goes on with the desk after the current one.
Advance ==
    /\ todo' = Tail(todo) /\ tries' = 0 /\ busy' = FALSE /\ wrote' = 0
    /\ mode' = IF Len(todo) = 1 THEN "idle" ELSE mode

Record(s, n) == audit' = [audit EXCEPT ![Desk] = [last |-> s, n |-> @.n + n]]
Ends(s) == result' = [result EXCEPT ![Desk] = s]

\* The cost cap, or the token budget, stops the cycle before the next desk.
OverBudget ==
    \/ mode = "supervised" /\ tries = 0 /\ spent >= Cap
    \/ mode = "evidence" /\ spent + 1 > Cap

\* (Mutant: the quarantine is the cycle's, not the supervisor's.)
QuarantinedThisCycle == mode = "supervised" /\ tries = 0 /\ Desk \in quarantined /\ result[Desk] = "error"
Quarantined == mode = "supervised" /\ tries = 0 /\ Desk \in quarantined

StopOnCost ==
    /\ Running /\ ~busy /\ ~Quarantined /\ OverBudget
    /\ mode' = "idle" /\ todo' = <<>>
    /\ UNCHANGED <<paused, audit, notes, deps, busy, wrote, tries, result, spent, burned, failures,
                   quarantined, cycles, turns, still>>

\* (Mutant: a quarantined desk goes to the back of the line.)
PassToBack ==
    /\ Running /\ ~busy /\ Quarantined /\ todo' = Append(Tail(todo), Desk)
    /\ UNCHANGED <<paused, audit, notes, mode, deps, busy, wrote, tries, result, spent, burned,
                   failures, quarantined, cycles, turns, still>>

PassQuarantined ==
    /\ Running /\ ~busy /\ Quarantined /\ Advance
    /\ UNCHANGED <<paused, audit, notes, deps, result, spent, burned, failures, quarantined,
                   cycles, turns, still>>

\* (Mutant: only an upstream that itself failed counts.)
UpstreamFailedDirectly == mode = "dag" /\ \E u \in deps[Desk] : result[u] = "error"
UpstreamFailed == mode = "dag" /\ \E u \in deps[Desk] : result[u] \in {"error", "skipped"}

Skip ==
    /\ Running /\ ~busy /\ UpstreamFailed
    /\ Record("skipped", 0) /\ Ends("skipped") /\ Advance
    /\ UNCHANGED <<paused, notes, deps, spent, burned, failures, quarantined, cycles, turns, still>>

MayRun == Running /\ ~busy /\ ~Quarantined /\ ~OverBudget /\ ~UpstreamFailed

\* run_desk of a desk nobody registered: an error, and no audit row.
RunUnknown ==
    /\ MayRun /\ Desk \notin Desks /\ Ends("error") /\ Advance
    /\ UNCHANGED <<paused, audit, notes, deps, spent, burned, failures, quarantined, cycles, turns, still>>

\* A paused desk is recorded and runs nothing; the evidence cycle does not ask.
Held == mode # "evidence" /\ Desk \in paused

RunPaused ==
    /\ MayRun /\ Desk \in Desks /\ Held
    /\ Record("paused", 0) /\ Ends("paused") /\ Advance
    /\ UNCHANGED <<paused, notes, deps, spent, burned, failures, quarantined, cycles, turns, still>>

StartDesk ==
    /\ MayRun /\ Desk \in Desks /\ ~Held /\ busy' = TRUE
    /\ spent' = IF mode = "evidence" THEN spent + 1 ELSE spent
    /\ UNCHANGED <<paused, audit, notes, mode, deps, todo, wrote, tries, result, burned, failures,
                   quarantined, cycles, turns, still>>

\* The valid notes of one run of an evidence desk: one on the regime from ORACLE, one for each
\* event or name from the others.
Finds(d) ==
    CASE d \notin Analysts -> 0
      [] d = "oracle" /\ MaxNotes > 0 -> 1
      [] OTHER -> MaxNotes

\* The status an evidence desk makes of its notes, and an operator desk of what it stored or
\* holds; CONDUCTOR is always content.
Reports(d) ==
    CASE d \in Analysts -> {IF wrote > 0 THEN "ok" ELSE "empty"}
      [] d = "conductor" -> {"ok"}
      [] OTHER -> {"ok", "empty"}

\* write_evidence: each valid note on its own transaction.
WriteNote ==
    /\ busy /\ wrote < Finds(Desk) /\ wrote' = wrote + 1
    /\ notes' = [notes EXCEPT ![Desk] = @ + 1]
    /\ UNCHANGED <<paused, audit, mode, deps, todo, busy, tries, result, spent, burned, failures,
                   quarantined, cycles, turns, still>>

\* Only a supervisor looks at what a run costs.
Costs == IF mode = "supervised" THEN 0..MaxCost ELSE {0}

Audited(s, n) == IF mode = "evidence" THEN UNCHANGED audit ELSE Record(s, n)

\* (Mutant: the run reports the notes that were refused as well.)
FinishWithRefused ==
    /\ busy
    /\ \E c \in Costs, s \in Reports(Desk), refused \in 0..1 :
          /\ Audited(s, wrote + refused) /\ Ends(s)
          /\ burned' = burned + c /\ spent' = spent + c
    /\ Advance
    /\ UNCHANGED <<paused, notes, deps, failures, quarantined, cycles, turns, still>>

\* The run returns; its result carries what it cost.
Finish ==
    /\ busy
    /\ \E c \in Costs, s \in Reports(Desk) :
          /\ Audited(s, wrote) /\ Ends(s)
          /\ burned' = burned + c /\ spent' = spent + c
    /\ Advance
    /\ UNCHANGED <<paused, notes, deps, failures, quarantined, cycles, turns, still>>

\* The run raises, perhaps between two notes: its error result carries no metrics, so
\* the meter is charged nothing.  The supervisor tries again, then quarantines; the
\* evidence cycle has no handler.
Raise ==
    /\ busy /\ Audited("error", 0) /\ Ends("error")
    /\ \E c \in Costs : burned' = burned + c
    /\ failures' = IF mode = "supervised" THEN failures + 1 ELSE failures
    /\ CASE mode = "supervised" /\ tries < MaxRetries ->
              /\ tries' = tries + 1 /\ busy' = FALSE /\ wrote' = 0
              /\ UNCHANGED <<mode, todo, quarantined>>
         [] mode = "supervised" /\ tries = MaxRetries ->
              Advance /\ quarantined' = quarantined \cup {Desk}
         [] mode = "evidence" ->
              /\ mode' = "idle" /\ todo' = <<>> /\ busy' = FALSE /\ wrote' = 0 /\ tries' = 0
              /\ UNCHANGED quarantined
         [] OTHER -> Advance /\ UNCHANGED quarantined
    /\ UNCHANGED <<paused, notes, deps, spent, cycles, turns, still>>

----------------------------------------------------------------------------
Turned == turns < MaxTurns /\ turns' = turns + 1

\* set_paused.
SetPaused ==
    /\ Turned
    /\ \E d \in Desks : \/ paused' = paused \cup {d} /\ UNCHANGED still
                        \/ paused' = paused \ {d} /\ still' = still \ {d}
    /\ UNCHANGED <<audit, notes, cycleVars, quarantined, cycles>>

\* The process dies: the cycle, and the supervisor's quarantine, go with it.
Crash ==
    /\ mode # "idle" /\ Turned
    /\ mode' = "idle" /\ todo' = <<>> /\ busy' = FALSE /\ wrote' = 0 /\ tries' = 0
    /\ quarantined' = {}
    /\ UNCHANGED <<paused, audit, notes, deps, result, spent, burned, failures, cycles, still>>

Step == \/ StopOnCost \/ PassQuarantined \/ Skip \/ RunUnknown \/ RunPaused
        \/ StartDesk \/ WriteNote \/ Finish \/ Raise

Next == RunAll \/ RunDag \/ RunCycle \/ RunEvidence \/ Step \/ SetPaused \/ Crash

Spec == Init /\ [][Next]_vars /\ WF_vars(Step)

----------------------------------------------------------------------------
Bad == {"error", "skipped"}
Ancestor(d) ==
    LET up[n \in 0..Len(Nodes)] ==
            IF n = 0 THEN deps[d] ELSE LET near == up[n - 1] IN near \cup UNION {deps[u] : u \in near}
    IN  up[Len(Nodes)]

\* A failure is contained: in a DAG cycle whatever ran had every ancestor, at any
\* distance, done before it and none of them failed; what was skipped has an ancestor
\* that failed.
FailureIsContained ==
    \A d \in Ids :
        /\ result[d] \in {"ok", "empty", "error", "paused"} =>
              \A u \in Ancestor(d) : result[u] \in {"ok", "empty", "paused"}
        /\ result[d] = "skipped" => \E u \in Ancestor(d) : result[u] = "error"

\* The audit never claims more evidence than the desk has on record, whichever runs
\* raised, were retried or died.
AuditNeverOverclaims ==
    \A d \in Ids : audit[d].n <= notes[d]

\* The cap is a ceiling: the meter passes it by less than one run, and what the meter
\* does not see is bounded by the runs that raised.
CostIsCapped ==
    /\ spent <= Cap \/ spent < Cap + MaxCost
    /\ mode = "evidence" => spent <= Cap
    /\ burned <= spent + MaxCost * failures

\* A desk the founder has kept paused since a cycle began does not run in it, not even
\* as a retry; only the evidence cycle does not ask.
PauseHolds ==
    mode \in {"all", "dag", "supervised"} =>
        \A d \in still : /\ result[d] \in {"none", "paused", "skipped"}
                         /\ ~(busy /\ Desk = d)

\* A quarantined desk does not run again in any cycle of the supervisor that put it there;
\* the set is that object's and ends with its process.
QuarantineHolds == mode = "supervised" /\ busy => Desk \notin quarantined

\* What the founder paused stays stopped through retries, crashes and later cycles; what the
\* supervisor quarantined, through retries and the later cycles of that supervisor.
StoppedDesksStayStopped == PauseHolds /\ QuarantineHolds

\* "a quarantined desk stays quarantined until a human clears it": as nobody ever clears one,
\* a desk that was quarantined is never again run by a supervised cycle.
QuarantineStands ==
    \A d \in Ids : [](d \in quarantined => [](mode = "supervised" /\ busy => Desk # d))

\* The two meters of a desk, its notes and its cost, together.
MetersAreHonest == AuditNeverOverclaims /\ CostIsCapped

\* Every cycle ends.
CycleEnds == (mode # "idle") ~> (mode = "idle")
=============================================================================

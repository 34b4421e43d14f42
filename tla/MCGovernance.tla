----------------------------- MODULE MCGovernance -----------------------------
(***************************************************************************)
(* What stands between the program and the founder's money for TLC: the    *)
(* Sharia jobs, the operator's ladders, the runs table and the backup.     *)
(* They share no state, so one of them moves in a behaviour while the      *)
(* others stay where they began: the states add up, never multiply.        *)
(***************************************************************************)
EXTENDS Autonomy, LoopRunner, Backup, ShariaGovernance, TLC

VARIABLE focus

\* The books of a company: clean; in debt; without a market value; with cash that only the
\* full screen counts with the receivables; fallen to two thirds of its average value, in
\* the watch band of the average and over the limit of the day; with no revenue reported.
Clean == [debt |-> 10, deposits |-> 15, invested |-> 5, receivables |-> 20, impure |-> 1,
          average |-> 100, spot |-> 100, assets |-> 100, revenue |-> 100, banned |-> FALSE]
InDebt == [Clean EXCEPT !.debt = 31]
MCSnapshots ==
    {Clean, InDebt, [Clean EXCEPT !.average = 0, !.spot = 0],
     [Clean EXCEPT !.receivables = 60],
     [Clean EXCEPT !.debt = 29, !.spot = 66], [Clean EXCEPT !.revenue = 0]}

MCDatabases == <<"portfolio", "learning">>
MCEvidence == [n : {MinEvidence - 1, MinEvidence}, hit : {"poor", "fair", "garbage"}]
MCContexts == [tests : BOOLEAN, approved : BOOLEAN, haram : BOOLEAN]
MCTheses == [missing : SUBSET {"success_metric"}, risk : {"low", "odd"}, sharia : {"pass", "doubtful"}]

\* The parts a behaviour does not look at, and the default universe, begin in one state.
MCInit ==
    /\ AutonomyInit /\ RunnerInit /\ BackupInit /\ Init
    /\ focus \in {"sharia", "operator", "registry", "pipeline", "runs", "backup"}
    /\ focus # "registry" => mode = [s \in Strategies |-> "backtest"]
    /\ \A s \in Names : books[s] = Clean \/ (focus = "sharia" /\ s \notin DefaultUniverse
                                                        /\ books[s] = InDebt)

MCNext ==
    /\ UNCHANGED focus
    /\ \/ /\ \/ focus = "operator" /\ OperatorStep
             \/ focus = "registry" /\ RegistryStep
             \/ focus = "pipeline" /\ PipelineStep
          /\ UNCHANGED <<runnerVars, backupVars, shariaVars>>
       \/ focus = "runs" /\ RunnerNext /\ UNCHANGED <<autonomyVars, backupVars, shariaVars>>
       \/ focus = "backup" /\ BackupNext /\ UNCHANGED <<autonomyVars, runnerVars, shariaVars>>
       \/ focus = "sharia" /\ Next /\ UNCHANGED <<autonomyVars, runnerVars, backupVars>>

MCSpec == MCInit /\ [][MCNext]_<<autonomyVars, runnerVars, backupVars, shariaVars, focus>>

Rotation == Permutations(Users)
=============================================================================

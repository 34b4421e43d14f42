--------------------------- MODULE CommandPoller ---------------------------
(***************************************************************************)
(* The command queue between the web and the brain: web/app/api/command    *)
(* only inserts a pending row; ops/command_poller.py fetches the pending   *)
(* rows over HTTP, runs each one and marks it done or error.  Pollers are  *)
(* single-shot processes started by timers and by hand, so they overlap.   *)
(* Commands decide approvals, pause desks and steer the Opportunity Board. *)
(* A tick itself is GovernedTick's, a desk's run is Workforce's.           *)
(***************************************************************************)
EXTENDS OpportunityBoard

CONSTANTS Pollers,
          Requests,      \* the commands the users may send: [type, arg, from]
          TableTypes,    \* the types the check of the table accepts; schema.sql names
                         \* run_tick, approve and veto, the Kitchen needs all of WebTypes
          Refs,          \* references of approval requests
          NoArg,         \* a payload without the field the command needs
          MaxCommands,   \* bound: commands enqueued
          MaxWords,      \* bound: approval requests and direct replies
          MaxFaults      \* bound: lost HTTP calls and poller crashes

FounderTypes == {"approve", "veto", "pause_desk", "resume_desk", "run_desk",
                 "approve_proposal", "veto_proposal", "prioritize_proposal"}
WebTypes == FounderTypes \cup {"run_tick"}

ASSUME PollerConstants ==
    /\ IsFiniteSet(Pollers) /\ MaxCommands \in Nat /\ MaxWords \in Nat /\ MaxFaults \in Nat
    /\ \A q \in Requests : /\ q.type \in WebTypes /\ q.from \in {"founder", "friend"}
                           /\ q = [type |-> q.type, arg |-> q.arg, from |-> q.from]

VARIABLES
    founderSet,  \* CAMEL_FOUNDER_EMAIL is configured
    commands,    \* the table, by id: [req, status]
    queue,       \* queue[p]: the ids poller p has fetched and not finished
    at,          \* at[p]: "idle", "run", "mark" or "remark"
    verdict,     \* verdict[p]: what process_command answered for Head(queue[p])
    latest,      \* latest[r]: the status of the newest approval row of r, or "none"
    paused,      \* desks paused in desk_control
    faults,
    words,       \* approval requests and direct replies so far
    runs,        \* history: runs[c], how often command c was run
    lost,        \* history: lost[c], runs of c that ended without a mark
    said         \* history: said[r], the commands that decided r, in the order they
                 \* ran, since r was asked for or answered directly

pollVars == <<commands, queue, at, verdict, latest, paused, faults, words, runs, lost, said>>
vars == <<boardVars, founderSet, pollVars>>

\* What the queue promises, read off the same table and history.
Promised == INSTANCE CommandQueue WITH Hands <- Cardinality(Pollers)

Pending == {c \in DOMAIN commands : commands[c].status = "pending"}
Current(p) == Head(queue[p])
Req(p) == commands[Current(p)].req

PollerInit ==
    /\ founderSet \in BOOLEAN
    /\ commands = <<>> /\ runs = <<>> /\ lost = <<>> /\ faults = 0 /\ words \in {0, MaxWords}
    /\ queue = [p \in Pollers |-> <<>>]
    /\ at = [p \in Pollers |-> "idle"]
    /\ verdict = [p \in Pollers |-> "none"]
    /\ latest \in [Refs -> {"none", "pending"}] /\ said = [r \in Refs |-> <<>>]
    /\ paused = {}

Init == BoardInit /\ PollerInit

----------------------------------------------------------------------------
\* The web and the founder's own channel.

\* POST /api/command; what the check of the table refuses is answered 500.
Enqueue ==
    /\ Len(commands) < MaxCommands
    /\ \E q \in {r \in Requests : r.type \in TableTypes} :
          commands' = Append(commands, [req |-> q, status |-> "pending"])
    /\ runs' = Append(runs, 0) /\ lost' = Append(lost, 0)
    /\ UNCHANGED <<boardVars, founderSet, queue, at, verdict, latest, paused, faults, words, said>>

\* request_approval: a new pending row, which is_approved reads before the older ones.
RequestApproval(r) ==
    /\ latest[r] # "pending" /\ words < MaxWords /\ words' = words + 1
    /\ latest' = [latest EXCEPT ![r] = "pending"] /\ said' = [said EXCEPT ![r] = <<>>]
    /\ UNCHANGED <<boardVars, founderSet, commands, queue, at, verdict, paused, faults, runs, lost>>

\* decide: every row of the reference; without a row nothing changes.
Decide(r, yes) ==
    latest' = [latest EXCEPT ![r] = IF @ = "none" THEN @ ELSE IF yes THEN "approved" ELSE "vetoed"]

\* handle_command: the founder's reply.
Reply(r) ==
    /\ latest[r] # "none" /\ words < MaxWords /\ words' = words + 1
    /\ \E yes \in BOOLEAN : Decide(r, yes)
    /\ said' = [said EXCEPT ![r] = <<>>]
    /\ UNCHANGED <<boardVars, founderSet, commands, queue, at, verdict, paused, faults, runs, lost>>

----------------------------------------------------------------------------
\* One poller.

\* The one ordering of a set of ids by age, as a set.
Ascending(S) == {ids \in SetToSeqs(S) : \A i, j \in DOMAIN ids : i < j => ids[i] < ids[j]}

\* (Mutant: the newest command first.)
FetchNewestFirst(p) ==
    /\ at[p] = "idle" /\ Pending # {}
    /\ \E ids \in Ascending(Pending) : queue' = [queue EXCEPT ![p] = Reverse(ids)]
    /\ at' = [at EXCEPT ![p] = "run"]
    /\ UNCHANGED <<boardVars, founderSet, commands, verdict, latest, paused, faults, words, runs, lost, said>>

\* fetch_pending.
Fetch(p) ==
    /\ at[p] = "idle" /\ Pending # {}
    /\ \E ids \in Ascending(Pending) : queue' = [queue EXCEPT ![p] = ids]
    /\ at' = [at EXCEPT ![p] = "run"]
    /\ UNCHANGED <<boardVars, founderSet, commands, verdict, latest, paused, faults, words, runs, lost, said>>

\* The founder-only types are refused when no founder is configured.
MayRun(q) == q.type \in FounderTypes => founderSet /\ q.from = "founder"

\* process_command: a tick or a desk may fail or raise; a paused desk runs nothing and
\* that is ok; a malformed payload raises or is refused.
Answers(q) ==
    IF ~MayRun(q) \/ (q.arg = NoArg /\ q.type # "run_tick") THEN {"error"}
    ELSE CASE q.type = "run_tick" -> {"ok", "error", "raised"}
           [] q.type = "run_desk" -> IF q.arg \in paused THEN {"ok"} ELSE {"ok", "error"}
           [] OTHER -> {"ok", "raised"}

Effect(p, q, v) ==
    CASE v = "ok" /\ q.type \in {"approve", "veto"} ->
           /\ Decide(q.arg, q.type = "approve")
           /\ said' = [said EXCEPT ![q.arg] = Append(@, Current(p))]
           /\ UNCHANGED <<boardVars, paused>>
      [] v = "ok" /\ q.type \in {"pause_desk", "resume_desk"} ->
           /\ paused' = IF q.type = "pause_desk" THEN paused \cup {q.arg} ELSE paused \ {q.arg}
           /\ UNCHANGED <<boardVars, latest, said>>
      [] OTHER -> UNCHANGED <<boardVars, latest, said, paused>>

ProposalTypes == {"approve_proposal", "veto_proposal", "prioritize_proposal"}

\* One command runs, on its own transaction; a row that is no longer proposed is not ok.
Process(p) ==
    LET q == Req(p)
        steers == q.type \in ProposalTypes /\ MayRun(q) /\ q.arg # NoArg
    IN
    /\ at[p] = "run" /\ queue[p] # <<>>
    /\ \/ /\ ~steers
          /\ \E v \in Answers(q) : verdict' = [verdict EXCEPT ![p] = v] /\ Effect(p, q, v)
       \/ /\ steers
          /\ \E took \in BOOLEAN :
                /\ IF q.type = "prioritize_proposal" THEN PrioritizeProposal(q.arg, took)
                   ELSE DecideProposal(q.arg, q.type = "approve_proposal", took)
                /\ verdict' = [verdict EXCEPT ![p] = IF took THEN "ok" ELSE "error"]
          /\ UNCHANGED <<latest, said, paused>>
    /\ at' = [at EXCEPT ![p] = IF verdict'[p] = "raised" THEN "remark" ELSE "mark"]
    /\ runs' = [runs EXCEPT ![Current(p)] = @ + 1]
    /\ UNCHANGED <<founderSet, commands, queue, faults, words, lost>>

\* (Mutant: the poller waits for more when its list is empty.)
NextCommandWaits(p) ==
    /\ queue' = [queue EXCEPT ![p] = Tail(@)]
    /\ at' = [at EXCEPT ![p] = "run"]
    /\ verdict' = [verdict EXCEPT ![p] = "none"]

\* The loop goes on, whatever became of the command.
NextCommand(p) ==
    /\ queue' = [queue EXCEPT ![p] = Tail(@)]
    /\ at' = [at EXCEPT ![p] = IF Len(queue[p]) = 1 THEN "idle" ELSE "run"]
    /\ verdict' = [verdict EXCEPT ![p] = "none"]

SetStatus(p, s) == commands' = [commands EXCEPT ![Current(p)].status = s]

\* (Mutant: only a command that is ok is marked.)
MarkOkOnly(p) ==
    /\ at[p] = "mark"
    /\ IF verdict[p] = "ok" THEN SetStatus(p, "done") ELSE UNCHANGED commands
    /\ NextCommand(p)
    /\ UNCHANGED <<boardVars, founderSet, latest, paused, faults, words, runs, lost, said>>

\* mark: done when the answer is ok, else error.
Mark(p) ==
    /\ at[p] = "mark"
    /\ SetStatus(p, IF verdict[p] = "ok" THEN "done" ELSE "error")
    /\ NextCommand(p)
    /\ UNCHANGED <<boardVars, founderSet, latest, paused, faults, words, runs, lost, said>>

\* The PATCH raises: it was lost, or it was applied and its response was lost.
MarkFails(p) ==
    /\ at[p] = "mark" /\ faults < MaxFaults /\ faults' = faults + 1
    /\ \/ UNCHANGED commands
       \/ SetStatus(p, IF verdict[p] = "ok" THEN "done" ELSE "error")
    /\ at' = [at EXCEPT ![p] = "remark"]
    /\ UNCHANGED <<boardVars, founderSet, queue, verdict, latest, paused, words, runs, lost, said>>

\* The recovery write is error, whatever the command did.
Remark(p) ==
    /\ at[p] = "remark" /\ SetStatus(p, "error") /\ NextCommand(p)
    /\ UNCHANGED <<boardVars, founderSet, latest, paused, faults, words, runs, lost, said>>

\* The recovery write fails too, and that is swallowed.
RemarkFails(p) ==
    /\ at[p] = "remark" /\ faults < MaxFaults /\ faults' = faults + 1
    /\ lost' = [lost EXCEPT ![Current(p)] = @ + 1] /\ NextCommand(p)
    /\ UNCHANGED <<boardVars, founderSet, commands, latest, paused, words, runs, said>>

PollerCrash(p) ==
    /\ at[p] # "idle" /\ faults < MaxFaults /\ faults' = faults + 1
    /\ lost' = IF at[p] = "run" THEN lost ELSE [lost EXCEPT ![Current(p)] = @ + 1]
    /\ at' = [at EXCEPT ![p] = "idle"] /\ queue' = [queue EXCEPT ![p] = <<>>]
    /\ verdict' = [verdict EXCEPT ![p] = "none"]
    /\ UNCHANGED <<boardVars, founderSet, commands, latest, paused, words, runs, said>>

Poll(p) == Fetch(p) \/ Process(p) \/ Mark(p) \/ Remark(p)

Next ==
    \/ BoardNext /\ UNCHANGED <<founderSet, pollVars>>
    \/ Enqueue
    \/ \E r \in Refs : RequestApproval(r) \/ Reply(r)
    \/ \E p \in Pollers : Poll(p) \/ MarkFails(p) \/ RemarkFails(p) \/ PollerCrash(p)

\* A poller is started again and again by its timer.
Fairness == \A p \in Pollers : WF_vars(Poll(p))

Spec == Init /\ [][Next]_vars /\ Fairness

----------------------------------------------------------------------------
\* A command runs at most once for each poller that had it in its hands and once more
\* for each run that ended without a mark: a mark that succeeds ends its repetition.
\* (It is the guard of the promise's Run, so that QueueKept says it too.)
RunsExplained ==
    \A c \in DOMAIN commands : runs[c] <= Cardinality(Pollers) + lost[c]

\* Unless a command ran twice, an approval reads what the newest command that decided
\* it said: neither the queue nor overlapping pollers reorder the founder's words.
LastWordStands ==
    \A r \in Refs :
        (latest[r] # "none" /\ said[r] # <<>> /\ \A i \in DOMAIN said[r] : runs[said[r][i]] = 1) =>
            /\ \A i, j \in DOMAIN said[r] : i < j => said[r][i] < said[r][j]
            /\ latest[r] = IF commands[Last(said[r])].req.type = "approve" THEN "approved" ELSE "vetoed"

\* A board command the web reads as done has been done, and nothing has undone it, in
\* whatever order two pollers ran commands about the same row.
DoneIsDone ==
    \A c \in DOMAIN commands :
        commands[c].status = "done" =>
            CASE commands[c].req.type = "approve_proposal" -> board[commands[c].req.arg].status = "approved"
              [] commands[c].req.type = "veto_proposal" -> board[commands[c].req.arg].status = "vetoed"
              [] commands[c].req.type = "prioritize_proposal" -> board[commands[c].req.arg].rank
              [] OTHER -> TRUE

\* What is decided on the board or paused was asked for by the configured founder.
OnlyFounderSteers ==
    LET Asked(t, x) == founderSet /\ \E c \in DOMAIN commands :
                           commands[c].req = [type |-> t, arg |-> x, from |-> "founder"]
    IN  /\ \A i \in DOMAIN board :
              /\ board[i].status = "approved" => Asked("approve_proposal", i)
              /\ board[i].status = "vetoed" => Asked("veto_proposal", i)
              /\ board[i].rank => Asked("prioritize_proposal", i)
        /\ \A d \in paused : Asked("pause_desk", d)

\* The founder's words, in their order, and nobody else's: the three together.
FoundersWordStands == LastWordStands /\ DoneIsDone /\ OnlyFounderSteers

\* Whatever pollers overlap, die or lose an answer, the table goes through the states of
\* CommandQueue and no others: begun in the order sent, answered for only once it has run,
\* run again no more often than pollers overlap and runs are lost.
QueueKept == Promised!Spec

\* Every command ends up marked, when the faults are finitely many.
CommandsEnd == \A c \in 1..MaxCommands : (c \in Pending) ~> (c \notin Pending)
=============================================================================

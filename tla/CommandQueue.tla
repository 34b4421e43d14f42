---------------------------- MODULE CommandQueue ----------------------------
(***************************************************************************)
(* What the command queue promises the people who use it, with no poller,  *)
(* page, lost answer or crash in sight: commands begin in the order in     *)
(* which they were sent, none is answered for before it has run, an        *)
(* answered one is never pending again, and none is ever dropped or        *)
(* rewritten.  A command may run more than once, but no more often than    *)
(* there are hands, and once more for each of its runs that was lost.      *)
(*                                                                         *)
(* ops/command_poller.py: "this is the only thing that acts on those       *)
(* requests ... Marks each command done/error with a result"; the page is  *)
(* read in the order of created_at.                                        *)
(***************************************************************************)
EXTENDS Naturals, Sequences

CONSTANTS Requests,
          Hands        \* how many may run commands at once

VARIABLES commands,   \* the table, by id: [req, status]
          runs,       \* runs[c], how often command c was run
          lost        \* lost[c], how many of these runs ended without an answer

qvars == <<commands, runs, lost>>

Init == commands = <<>> /\ runs = <<>> /\ lost = <<>>

\* The web inserts a pending row.
Insert ==
    /\ \E q \in Requests : commands' = Append(commands, [req |-> q, status |-> "pending"])
    /\ runs' = Append(runs, 0) /\ lost' = Append(lost, 0)

\* A command runs, its first time or again; every older one has begun.
Run(c) ==
    /\ \A older \in 1..(c - 1) : runs[older] > 0
    /\ runs[c] < Hands + lost[c]
    /\ runs' = [runs EXCEPT ![c] = @ + 1]
    /\ UNCHANGED <<commands, lost>>

\* A command that has run is answered for; an answer may be written again.
Answer(c, s) ==
    /\ runs[c] > 0
    /\ commands' = [commands EXCEPT ![c].status = s]
    /\ UNCHANGED <<runs, lost>>

\* One of its runs will never be answered for.
Lose(c) ==
    /\ lost[c] < runs[c]
    /\ lost' = [lost EXCEPT ![c] = @ + 1]
    /\ UNCHANGED <<commands, runs>>

Next ==
    \/ Insert
    \/ \E c \in DOMAIN commands : Run(c) \/ Lose(c) \/ \E s \in {"done", "error"} : Answer(c, s)

Spec == Init /\ [][Next]_qvars
=============================================================================

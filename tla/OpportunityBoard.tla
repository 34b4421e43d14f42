-------------------------- MODULE OpportunityBoard --------------------------
(***************************************************************************)
(* The Opportunity Board (loop/opportunity_board.py): a builder reads the  *)
(* regime, then each name's Sharia state and Edge Proof report, each on a  *)
(* connection of its own, and writes the ranked rows in one transaction    *)
(* that expires the rows before.  The founder decides on rows meanwhile.   *)
(* With the board go its self-check (loop/proposal_check.py) and its       *)
(* mandatory dissent (research/skeptic.py).                                *)
(*                                                                         *)
(* Scores and hit rates are in tenths.  A row's id is its place in board.  *)
(***************************************************************************)
EXTENDS Integers, Sequences, FiniteSets, SequencesExt

CONSTANTS Names,
          Builders,    \* the processes that may build a board
          Reports,     \* what the Edge Proof may answer; one that raises is no report
          MaxBuilds,   \* bound: boards begun
          MaxTurns     \* bound: re-screens and regime changes

\* A proven edge has a sample and a hit rate.
ASSUME BoardConstants ==
    /\ IsFiniteSet(Names) /\ IsFiniteSet(Builders) /\ MaxBuilds \in Nat /\ MaxTurns \in Nat
    /\ Reports \subseteq [allowed : BOOLEAN, hit : 0..10, n : Nat]
    /\ \A r \in Reports : r.allowed => r.hit > 0 /\ r.n > 0

VARIABLES
    clear,     \* the names whose Sharia state is a clear pass
    riskOff,   \* whether the latest regime is one of _RISK_OFF
    board,     \* the rows of opportunity_proposals
    draft,     \* draft[b]: the proposals builder b has made, by name
    regime,    \* regime[b]: the regime b has read, or "none" when b is not building
    builds,    \* boards begun
    turns      \* turns of the world

boardVars == <<clear, riskOff, board, draft, regime, builds, turns>>

\* The body of build_board's loop: Sharia is a wall, an edge a buy, else the core.
Proposal(s, ok, r, off) ==
    [name |-> s, off |-> off, clear |-> ok, allowed |-> r.allowed, hit |-> r.hit, n |-> r.n,
     action |-> CASE ~ok -> "avoid" [] ok /\ r.allowed -> "buy" [] OTHER -> "dca",
     score |-> CASE ~ok -> 0 [] ok /\ r.allowed -> 20 + r.hit - (IF off THEN 5 ELSE 0)
                 [] OTHER -> 10 - (IF off THEN 3 ELSE 0),
     conf |-> CASE ~ok -> 9 [] ok /\ r.allowed -> r.hit [] OTHER -> 3]

\* check_proposal: no critical issue.
SelfCheck(p) ==
    /\ p.action = "buy" => p.allowed
    /\ p.action \in {"buy", "dca"} => p.clear
    /\ p.allowed => p.n > 0 /\ p.hit > 0
    /\ p.conf \in 0..10

\* dissent: an accumulation that is not clear, and a buy on thin evidence or into a
\* risk-off regime, is opposed.
Stance(p) ==
    CASE p.action \in {"buy", "dca"} /\ ~p.clear -> "oppose"
      [] p.action = "buy" /\ p.clear -> IF p.n < 30 \/ p.off THEN "oppose" ELSE "caution"
      [] OTHER -> "concur"

BoardInit ==
    /\ clear \in SUBSET Names /\ riskOff \in BOOLEAN
    /\ board = <<>> /\ builds = 0 /\ turns = 0
    /\ draft = [b \in Builders |-> {}]
    /\ regime = [b \in Builders |-> "none"]

StartBuild(b) ==
    /\ regime[b] = "none" /\ builds < MaxBuilds
    /\ regime' = [regime EXCEPT ![b] = IF riskOff THEN "off" ELSE "on"]
    /\ builds' = builds + 1
    /\ UNCHANGED <<clear, riskOff, board, draft, turns>>

Drafted(b) == {p.name : p \in draft[b]}

Propose(b) ==
    /\ regime[b] # "none"
    /\ \E s \in Names \ Drafted(b), r \in Reports :
          draft' = [draft EXCEPT ![b] = @ \cup {Proposal(s, s \in clear, r, regime[b] = "off")}]
    /\ UNCHANGED <<clear, riskOff, board, regime, builds, turns>>

\* Highest score first, equal scores in either order: the order of the universe is not
\* in this model.
Ranked(props) ==
    {new \in SetToSeqs(props) : \A i, j \in DOMAIN new : i < j => new[i].score >= new[j].score}

\* The rows a build inserts, and the rows before it once it has expired them.
Inserted(new) ==
    [i \in DOMAIN new |-> [prop |-> new[i], status |-> "proposed", rank |-> FALSE,
                           build |-> Len(board) + 1]]
Expired ==
    [i \in DOMAIN board |-> IF board[i].status = "proposed" THEN [board[i] EXCEPT !.status = "expired"]
                                                            ELSE board[i]]

\* (Mutant: the rows before are not expired.)
PersistBeside(b) ==
    /\ regime[b] # "none" /\ Drafted(b) = Names
    /\ \E new \in Ranked(draft[b]) : board' = board \o Inserted(new)
    /\ draft' = [draft EXCEPT ![b] = {}] /\ regime' = [regime EXCEPT ![b] = "none"]
    /\ UNCHANGED <<clear, riskOff, builds, turns>>

\* (Mutant: every row before is expired, decided or not.)
PersistOverAll(b) ==
    /\ regime[b] # "none" /\ Drafted(b) = Names
    /\ \E new \in Ranked(draft[b]) :
          board' = [i \in DOMAIN board |-> [board[i] EXCEPT !.status = "expired"]] \o Inserted(new)
    /\ draft' = [draft EXCEPT ![b] = {}] /\ regime' = [regime EXCEPT ![b] = "none"]
    /\ UNCHANGED <<clear, riskOff, builds, turns>>

\* _persist: one transaction.
Persist(b) ==
    /\ regime[b] # "none" /\ Drafted(b) = Names
    /\ \E new \in Ranked(draft[b]) : board' = Expired \o Inserted(new)
    /\ draft' = [draft EXCEPT ![b] = {}] /\ regime' = [regime EXCEPT ![b] = "none"]
    /\ UNCHANGED <<clear, riskOff, builds, turns>>

\* A builder dies, or raises before it persists: nothing was written.
AbandonBuild(b) ==
    /\ regime[b] # "none"
    /\ draft' = [draft EXCEPT ![b] = {}] /\ regime' = [regime EXCEPT ![b] = "none"]
    /\ UNCHANGED <<clear, riskOff, board, builds, turns>>

\* A re-screen or a freeze, and a new regime.
Turn ==
    /\ turns < MaxTurns /\ turns' = turns + 1
    /\ \/ \E s \in Names : /\ clear' \in {clear \cup {s}, clear \ {s}} \ {clear}
                           /\ UNCHANGED riskOff
       \/ riskOff' = ~riskOff /\ UNCHANGED clear
    /\ UNCHANGED <<board, draft, regime, builds>>

BoardNext ==
    \/ \E b \in Builders : StartBuild(b) \/ Propose(b) \/ Persist(b) \/ AbandonBuild(b)
    \/ Turn

----------------------------------------------------------------------------
\* The founder's controls, as the command poller runs them: a decision or a rank is
\* for a row that is still proposed; `took' is what the call returns.
Live(id) == id \in DOMAIN board /\ board[id].status = "proposed"

DecideProposal(id, yes, took) ==
    /\ took = Live(id)
    /\ board' = IF took THEN [board EXCEPT ![id].status = IF yes THEN "approved" ELSE "vetoed"]
                        ELSE board
    /\ UNCHANGED <<clear, riskOff, draft, regime, builds, turns>>

PrioritizeProposal(id, took) ==
    /\ took = Live(id)
    /\ board' = IF took THEN [board EXCEPT ![id].rank = TRUE] ELSE board
    /\ UNCHANGED <<clear, riskOff, draft, regime, builds, turns>>

\* The board by itself, with the founder at it.
BoardStep ==
    \/ BoardNext
    \/ \E id \in DOMAIN board, yes \in BOOLEAN : DecideProposal(id, yes, Live(id))
    \/ \E id \in DOMAIN board : PrioritizeProposal(id, Live(id))

BoardSpec == BoardInit /\ [][BoardStep]_boardVars

----------------------------------------------------------------------------
LiveRows == {i \in DOMAIN board : board[i].status = "proposed"}

\* The live board is one build with each name on it once, however builders interleave.
LiveBoardIsOneBuild ==
    \A i, j \in LiveRows :
        /\ board[i].build = board[j].build
        /\ board[i].prop.name = board[j].prop.name => i = j

\* Its rows pass the self-check, a buy is never without dissent, and buys rank above
\* the core and the core above what is avoided, whatever was re-screened meanwhile.
LiveBoardIsCoherent ==
    \A i \in LiveRows :
        /\ SelfCheck(board[i].prop)
        /\ board[i].prop.action = "buy" => Stance(board[i].prop) # "concur"
        /\ \A j \in LiveRows :
              board[i].prop.action = "buy" /\ board[j].prop.action # "buy" =>
                  board[i].prop.score > board[j].prop.score

\* What the founder sees at any moment of two overlapping builds is one whole board
\* that passes its own checks.
LiveBoardIsSound == LiveBoardIsOneBuild /\ LiveBoardIsCoherent

\* What the founder decided stands: no build and no second decision changes it.
DecisionsStand ==
    [][\A i \in DOMAIN board : board[i].status \in {"approved", "vetoed"} => board'[i] = board[i]]_board
=============================================================================

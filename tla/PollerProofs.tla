---------------------------- MODULE PollerProofs ----------------------------
(***************************************************************************)
(* Theorems about CommandPoller.tla, for any number of overlapping pollers,*)
(* any commands from anyone, any faults, and a board that is rebuilt while *)
(* the founder's commands reach it.                                        *)
(*                                                                         *)
(* CountInv explains every run of a command: by a lost mark, or by one of  *)
(* the pollers that have it in hand.  OrderInv says that commands begin in *)
(* the order of their ids whichever poller runs them.  WordsInv and        *)
(* SteersInv are then about the last command that decided.                 *)
(***************************************************************************)
EXTENDS CommandPoller, FiniteSetTheorems, SequenceTheorems, TLAPS

\* What build_board may propose.
Proposals == {Proposal(s, ok, r, off) : s \in Names, ok \in BOOLEAN, r \in Reports, off \in BOOLEAN}

Statuses == {"proposed", "expired", "approved", "vetoed"}
BoardRows == [prop : Proposals, status : Statuses, rank : BOOLEAN, build : Nat]

\* The proposals of a draft are about different names.
OnePerName(props) == \A p, q \in props : p.name = q.name => p = q

DraftInv ==
    /\ draft \in [Builders -> SUBSET Proposals]
    /\ \A b \in Builders : IsFiniteSet(draft[b]) /\ OnePerName(draft[b])

BInv == /\ board \in Seq(BoardRows)
        /\ DraftInv
        /\ LiveBoardIsOneBuild

----------------------------------------------------------------------------
\* The fields of a proposal, case by case.
LEMMA ProposalFields ==
    ASSUME NEW p \in Proposals
    PROVE  /\ p.name \in Names /\ p.allowed \in BOOLEAN /\ p.clear \in BOOLEAN
           /\ p.hit \in 0..10 /\ p.n \in Nat /\ p.score \in Int
           /\ p.allowed => p.hit > 0 /\ p.n > 0
           /\ p.action = "buy" => p.clear /\ p.allowed /\ p.score > 15 /\ p.conf = p.hit
           /\ p.action = "dca" => p.clear /\ p.conf = 3
           /\ p.action # "buy" => p.score <= 10 /\ p.conf \in {3, 9}
<1>1. PICK s \in Names, ok \in BOOLEAN, r \in Reports, off \in BOOLEAN : p = Proposal(s, ok, r, off)
  BY DEF Proposals
<1>2. r.allowed \in BOOLEAN /\ r.hit \in 0..10 /\ r.n \in Nat /\ (r.allowed => r.hit > 0 /\ r.n > 0)
  BY BoardConstants
<1>3. CASE ~ok
  BY <1>1, <1>2, <1>3 DEF Proposal
<1>4. CASE ok /\ r.allowed
  BY <1>1, <1>2, <1>4 DEF Proposal
<1>5. CASE ok /\ ~r.allowed
  BY <1>1, <1>2, <1>5 DEF Proposal
<1> QED BY <1>3, <1>4, <1>5

\* A proposal passes the self-check, and a buy is never without dissent.
LEMMA ProposalSound ==
    ASSUME NEW p \in Proposals
    PROVE  SelfCheck(p) /\ (p.action = "buy" => Stance(p) # "concur")
<1>1. SelfCheck(p)
  BY ProposalFields DEF SelfCheck
<1>2. p.action = "buy" => Stance(p) # "concur"
  BY ProposalFields DEF Stance
<1> QED BY <1>1, <1>2

\* Coherence of the live rows is a fact about what may be a row.
LEMMA RowsCohere == board \in Seq(BoardRows) => LiveBoardIsCoherent
<1> SUFFICES ASSUME board \in Seq(BoardRows), NEW i \in LiveRows, NEW j \in LiveRows
             PROVE  /\ SelfCheck(board[i].prop)
                    /\ board[i].prop.action = "buy" => Stance(board[i].prop) # "concur"
                    /\ board[i].prop.action = "buy" /\ board[j].prop.action # "buy" =>
                          board[i].prop.score > board[j].prop.score
  BY DEF LiveBoardIsCoherent
<1>1. board[i].prop \in Proposals /\ board[j].prop \in Proposals
  <2>1. i \in DOMAIN board /\ j \in DOMAIN board
    BY DEF LiveRows
  <2>2. board[i] \in BoardRows /\ board[j] \in BoardRows
    BY <2>1
  <2> QED BY <2>2 DEF BoardRows
<1>2. SelfCheck(board[i].prop) /\ (board[i].prop.action = "buy" => Stance(board[i].prop) # "concur")
  BY <1>1, ProposalSound
<1>3. board[i].prop.action = "buy" /\ board[j].prop.action # "buy" =>
          board[i].prop.score > board[j].prop.score
  BY <1>1, ProposalFields
<1> QED BY <1>2, <1>3

----------------------------------------------------------------------------
\* What Persist writes: the old rows first, none of them live, then the draft.
LEMMA PersistWrites ==
    ASSUME BInv, NEW b \in Builders, Persist(b)
    PROVE  /\ board' \in Seq(BoardRows)
           /\ \A i \in DOMAIN board : /\ i \in DOMAIN board'
                                      /\ board'[i].status \in {board[i].status, "expired"} \ {"proposed"}
                                      /\ board'[i].rank = board[i].rank
                                      /\ board[i].status # "proposed" => board'[i] = board[i]
           /\ \A i, j \in DOMAIN board' \ DOMAIN board :
                 /\ board'[i].status = "proposed" /\ board'[i].rank = FALSE
                 /\ board'[i].build = board'[j].build
                 /\ board'[i].prop.name = board'[j].prop.name => i = j
<1>1. PICK new \in Ranked(draft[b]) : board' = Expired \o Inserted(new)
  BY DEF Persist
<1> DEFINE n == Cardinality(draft[b])
<1>2. n \in Nat /\ draft[b] \subseteq Proposals
  BY FS_CardinalityType DEF BInv, DraftInv
<1>3. /\ new \in [1..n -> draft[b]]
      /\ \A i, j \in 1..n : i # j => new[i] # new[j]
  BY <1>1 DEF Ranked, SetToSeqs
<1>4. Expired \in Seq(BoardRows) /\ Len(Expired) = Len(board)
  <2>1. ASSUME NEW i \in 1..Len(board)
        PROVE  Expired[i] \in BoardRows
    <3>1. board[i] \in BoardRows /\ i \in DOMAIN board
      BY DEF BInv
    <3>2. [board[i] EXCEPT !.status = "expired"] \in BoardRows
      BY <3>1 DEF BoardRows, Statuses
    <3> QED BY <3>1, <3>2 DEF Expired
  <2>2. Expired = [i \in 1..Len(board) |-> Expired[i]]
    BY DEF BInv, Expired
  <2> QED BY <2>1, <2>2 DEF BInv
<1>5. Inserted(new) \in Seq(BoardRows) /\ Len(Inserted(new)) = n
  <2>1. \A i \in 1..n : Inserted(new)[i] \in BoardRows
    BY <1>2, <1>3 DEF Inserted, BoardRows, BInv, Statuses
  <2>2. Inserted(new) = [i \in 1..n |-> Inserted(new)[i]]
    BY <1>3 DEF Inserted
  <2> QED BY <1>2, <2>1, <2>2
<1>6. /\ board' \in Seq(BoardRows)
      /\ Len(board') = Len(board) + n
      /\ \A i \in 1..Len(board) + n :
            board'[i] = IF i <= Len(board) THEN Expired[i] ELSE Inserted(new)[i - Len(board)]
  <2> HIDE DEF n
  <2>1. /\ Expired \o Inserted(new) \in Seq(BoardRows)
        /\ Len(Expired \o Inserted(new)) = Len(Expired) + Len(Inserted(new))
        /\ \A i \in 1..Len(Expired) + Len(Inserted(new)) :
              (Expired \o Inserted(new))[i] =
                  IF i <= Len(Expired) THEN Expired[i] ELSE Inserted(new)[i - Len(Expired)]
    BY <1>4, <1>5, ConcatProperties, Zenon
  <2> QED BY <1>1, <1>4, <1>5, <2>1, Zenon
<1>7. Len(board) \in Nat /\ DOMAIN board = 1..Len(board) /\ DOMAIN board' = 1..Len(board) + n
  BY <1>2, <1>6 DEF BInv
<1>8. ASSUME NEW i \in DOMAIN board
      PROVE  /\ i \in DOMAIN board' /\ board'[i].rank = board[i].rank
             /\ board'[i].status \in {board[i].status, "expired"} \ {"proposed"}
             /\ board[i].status # "proposed" => board'[i] = board[i]
  <2>1. i \in DOMAIN board' /\ board'[i] = Expired[i]
    BY <1>2, <1>6, <1>7
  <2>2. board[i] \in BoardRows
    BY DEF BInv
  <2> QED BY <2>1, <2>2 DEF Expired, BoardRows
<1>9. ASSUME NEW i \in DOMAIN board' \ DOMAIN board, NEW j \in DOMAIN board' \ DOMAIN board
      PROVE  /\ board'[i].status = "proposed" /\ board'[i].rank = FALSE
             /\ board'[i].build = board'[j].build
             /\ board'[i].prop.name = board'[j].prop.name => i = j
  <2> DEFINE k == i - Len(board)
             m == j - Len(board)
  <2>1. k \in 1..n /\ m \in 1..n /\ board'[i] = Inserted(new)[k] /\ board'[j] = Inserted(new)[m]
    BY <1>2, <1>6, <1>7
  <2>2. /\ board'[i].build = Len(board) + 1 /\ board'[j].build = Len(board) + 1
        /\ board'[i].prop = new[k] /\ board'[j].prop = new[m]
        /\ board'[i].status = "proposed" /\ board'[i].rank = FALSE
    BY <1>3, <2>1 DEF Inserted
  <2>3. new[k].name = new[m].name => new[k] = new[m]
    BY <1>3, <2>1 DEF BInv, DraftInv, OnePerName
  <2>4. new[k] = new[m] => k = m
    BY <1>3, <2>1
  <2>5. k = m => i = j
    BY <1>7
  <2> QED BY <2>2, <2>3, <2>4, <2>5
<1> QED BY <1>6, <1>8, <1>9

\* A decision or a rank leaves every row but its own as it is, and makes none live.
LEMMA FounderTouchesOne ==
    ASSUME BInv, NEW id \in DOMAIN board,
           \/ \E yes \in BOOLEAN : DecideProposal(id, yes, Live(id))
           \/ PrioritizeProposal(id, Live(id))
    PROVE  /\ board' \in Seq(BoardRows) /\ DOMAIN board' = DOMAIN board
           /\ \A i \in DOMAIN board :
                 /\ board'[i].build = board[i].build /\ board'[i].prop = board[i].prop
                 /\ board'[i].status = "proposed" => board[i].status = "proposed"
                 /\ board[i].status # "proposed" => board'[i] = board[i]
<1>0. board \in Seq(BoardRows) /\ \A i \in DOMAIN board : board[i] \in BoardRows
  BY DEF BInv
<1>1. CASE ~Live(id)
  BY <1>0, <1>1 DEF DecideProposal, PrioritizeProposal
<1>2. CASE Live(id)
  <2>1. PICK row \in BoardRows :
           /\ board' = [board EXCEPT ![id] = row]
           /\ row.build = board[id].build /\ row.prop = board[id].prop
    <3>1. ASSUME NEW yes \in BOOLEAN, DecideProposal(id, yes, Live(id))
          PROVE  \E row \in BoardRows :
                    /\ board' = [board EXCEPT ![id] = row]
                    /\ row.build = board[id].build /\ row.prop = board[id].prop
      <4> DEFINE row == [board[id] EXCEPT !.status = IF yes THEN "approved" ELSE "vetoed"]
      <4>1. row \in BoardRows /\ row.build = board[id].build /\ row.prop = board[id].prop
        BY <1>0 DEF BoardRows, Statuses
      <4>2. board' = [board EXCEPT ![id] = row]
        BY <1>2, <3>1 DEF DecideProposal
      <4> QED BY <4>1, <4>2
    <3>2. ASSUME PrioritizeProposal(id, Live(id))
          PROVE  \E row \in BoardRows :
                    /\ board' = [board EXCEPT ![id] = row]
                    /\ row.build = board[id].build /\ row.prop = board[id].prop
      <4> DEFINE row == [board[id] EXCEPT !.rank = TRUE]
      <4>1. row \in BoardRows /\ row.build = board[id].build /\ row.prop = board[id].prop
        BY <1>0 DEF BoardRows
      <4>2. board' = [board EXCEPT ![id] = row]
        BY <1>2, <3>2 DEF PrioritizeProposal
      <4> QED BY <4>1, <4>2
    <3> QED BY <3>1, <3>2
  <2>2. board[id].status = "proposed"
    BY <1>2 DEF Live
  <2>3. board' \in Seq(BoardRows) /\ DOMAIN board' = DOMAIN board
    BY <1>0, <2>1
  <2>4. \A i \in DOMAIN board : board'[i] = IF i = id THEN row ELSE board[i]
    BY <1>0, <2>1
  <2> QED BY <2>1, <2>2, <2>3, <2>4
<1> QED BY <1>1, <1>2

----------------------------------------------------------------------------
LEMMA BInvInit == BoardInit => BInv
<1> SUFFICES ASSUME BoardInit PROVE BInv
  OBVIOUS
<1>1. board = <<>> /\ draft = [b \in Builders |-> {}]
  BY DEF BoardInit
<1>2. DraftInv
  BY <1>1, FS_EmptySet DEF DraftInv, OnePerName
<1>3. LiveBoardIsOneBuild
  BY <1>1 DEF LiveBoardIsOneBuild, LiveRows
<1> QED BY <1>1, <1>2, <1>3 DEF BInv

\* A step that empties a draft or leaves it alone keeps what drafts are.
LEMMA DraftKept ==
    ASSUME DraftInv, NEW b \in Builders, draft' = [draft EXCEPT ![b] = {}]
    PROVE  DraftInv'
BY FS_EmptySet DEF DraftInv, OnePerName

LEMMA DraftGrows ==
    ASSUME DraftInv, NEW b \in Builders, Propose(b)
    PROVE  DraftInv'
<1>1. PICK s \in Names \ Drafted(b), r \in Reports :
         draft' = [draft EXCEPT ![b] = @ \cup {Proposal(s, s \in clear, r, regime[b] = "off")}]
  BY DEF Propose
<1> DEFINE p == Proposal(s, s \in clear, r, regime[b] = "off")
<1>2. p \in Proposals
  <2>1. \A ok, off \in BOOLEAN : Proposal(s, ok, r, off) \in Proposals
    BY SMT DEF Proposals
  <2>2. (s \in clear) \in BOOLEAN /\ (regime[b] = "off") \in BOOLEAN
    OBVIOUS
  <2> QED BY <2>1, <2>2, Zenon
<1>3. p.name = s
  BY DEF Proposal
<1> HIDE DEF p
<1>4. draft' = [draft EXCEPT ![b] = draft[b] \cup {p}]
  BY <1>1 DEF p
<1>5. draft' \in [Builders -> SUBSET Proposals]
  BY <1>2, <1>4 DEF DraftInv
<1>6. draft'[b] = draft[b] \cup {p} /\ \A c \in Builders \ {b} : draft'[c] = draft[c]
  BY <1>4 DEF DraftInv
<1>7. IsFiniteSet(draft[b] \cup {p})
  BY FS_AddElement DEF DraftInv
<1>8. OnePerName(draft[b] \cup {p})
  BY <1>3 DEF DraftInv, OnePerName, Drafted
<1>9. ASSUME NEW c \in Builders
      PROVE  IsFiniteSet(draft'[c]) /\ OnePerName(draft'[c])
  BY <1>6, <1>7, <1>8 DEF DraftInv
<1> QED BY <1>5, <1>9 DEF DraftInv

\* BInv is inductive.
LEMMA BInvNext == BInv /\ [BoardStep]_boardVars => BInv'
<1> SUFFICES ASSUME BInv, [BoardStep]_boardVars
             PROVE  BInv'
  OBVIOUS
<1>1. ASSUME NEW b \in Builders, StartBuild(b)
      PROVE  BInv'
  BY <1>1 DEF StartBuild, BInv, DraftInv, LiveBoardIsOneBuild, LiveRows
<1>2. ASSUME NEW b \in Builders, Propose(b)
      PROVE  BInv'
  <2>1. DraftInv'
    BY <1>2, DraftGrows DEF BInv
  <2>2. board' = board
    BY <1>2 DEF Propose
  <2> QED BY <2>1, <2>2 DEF BInv, LiveBoardIsOneBuild, LiveRows
<1>3. ASSUME NEW b \in Builders, Persist(b)
      PROVE  BInv'
  <2>1. DraftInv'
    BY <1>3, DraftKept DEF Persist, BInv
  <2>2. board' \in Seq(BoardRows)
    BY <1>3, PersistWrites
  <2>3. LiveBoardIsOneBuild'
    BY <1>3, PersistWrites DEF LiveBoardIsOneBuild, LiveRows
  <2> QED BY <2>1, <2>2, <2>3 DEF BInv
<1>4. ASSUME NEW b \in Builders, AbandonBuild(b)
      PROVE  BInv'
  <2>1. DraftInv'
    BY <1>4, DraftKept DEF AbandonBuild, BInv
  <2>2. board' = board
    BY <1>4 DEF AbandonBuild
  <2> QED BY <2>1, <2>2 DEF BInv, LiveBoardIsOneBuild, LiveRows
<1>5. ASSUME Turn
      PROVE  BInv'
  BY <1>5 DEF Turn, BInv, DraftInv, LiveBoardIsOneBuild, LiveRows
<1>6. ASSUME NEW id \in DOMAIN board,
             \/ \E yes \in BOOLEAN : DecideProposal(id, yes, Live(id))
             \/ PrioritizeProposal(id, Live(id))
      PROVE  BInv'
  <2>1. draft' = draft
    BY <1>6 DEF DecideProposal, PrioritizeProposal
  <2>2. DraftInv'
    BY <2>1 DEF BInv, DraftInv
  <2>3. board' \in Seq(BoardRows)
    BY <1>6, FounderTouchesOne
  <2>4. LiveBoardIsOneBuild'
    BY <1>6, FounderTouchesOne DEF BInv, LiveBoardIsOneBuild, LiveRows
  <2> QED BY <2>2, <2>3, <2>4 DEF BInv
<1>7. CASE UNCHANGED boardVars
  BY <1>7 DEF boardVars, BInv, DraftInv, LiveBoardIsOneBuild, LiveRows
<1> QED BY <1>1, <1>2, <1>3, <1>4, <1>5, <1>6, <1>7 DEF BoardStep, BoardNext

\* The invariant of the board.
THEOREM BoardShape == BoardSpec => []BInv
<1> QED BY BInvInit, BInvNext, PTL DEF BoardSpec

\* However many builders overlap, whatever is re-screened while they read and whatever
\* the founder decides, the live board is one whole build that passes its own checks.
THEOREM LiveBoardSound == BoardSpec => []LiveBoardIsSound
<1>1. BInv => LiveBoardIsSound
  BY RowsCohere DEF BInv, LiveBoardIsSound
<1> QED BY <1>1, BoardShape, PTL

\* A row the founder decided is never changed by a build, a decision or a rank.
THEOREM DecidedStays == BoardSpec => DecisionsStand
<1> DEFINE Kept == \A i \in DOMAIN board :
                      board[i].status \in {"approved", "vetoed"} => board'[i] = board[i]
<1>1. ASSUME BInv, BoardStep
      PROVE  Kept \/ board' = board
  <2>1. ASSUME NEW b \in Builders, Persist(b)
        PROVE  Kept
    BY <1>1, <2>1, PersistWrites
  <2>2. ASSUME NEW id \in DOMAIN board,
               \/ \E yes \in BOOLEAN : DecideProposal(id, yes, Live(id))
               \/ PrioritizeProposal(id, Live(id))
        PROVE  Kept
    BY <1>1, <2>2, FounderTouchesOne
  <2>3. ASSUME NEW b \in Builders, StartBuild(b) \/ Propose(b) \/ AbandonBuild(b)
        PROVE  board' = board
    BY <2>3 DEF StartBuild, Propose, AbandonBuild
  <2>4. ASSUME Turn
        PROVE  board' = board
    BY <2>4 DEF Turn
  <2> HIDE DEF Kept
  <2> QED BY <1>1, <2>1, <2>2, <2>3, <2>4 DEF BoardStep, BoardNext
<1>2. BInv /\ [BoardStep]_boardVars => [Kept]_board
  BY <1>1 DEF boardVars
<1> QED BY <1>2, BoardShape, PTL DEF BoardSpec, DecisionsStand
----------------------------------------------------------------------------
Sorted(q) == \A i, j \in DOMAIN q : i < j => q[i] < q[j]
Elements(q) == {q[i] : i \in DOMAIN q}

\* The commands poller p still has in hand, and whether it has run the first of them.
Held(p) == Elements(queue[p])
HasRun(p) == at[p] \in {"mark", "remark"}

Marked == {"pending", "done", "error"}

TableInv ==
    /\ commands \in Seq([req : Requests, status : Marked])
    /\ runs \in Seq(Nat) /\ Len(runs) = Len(commands)
    /\ lost \in Seq(Nat) /\ Len(lost) = Len(commands)

QueueInv ==
    /\ queue \in [Pollers -> Seq(DOMAIN commands)]
    /\ at \in [Pollers -> {"idle", "run", "mark", "remark"}]
    /\ verdict \in [Pollers -> {"none", "ok", "error", "raised"}]
    /\ \A p \in Pollers : Sorted(queue[p]) /\ (at[p] = "idle" <=> queue[p] = <<>>)

\* The pollers that have run c and not marked it, and those that will run it.
Ran(c) == {p \in Pollers : HasRun(p) /\ Current(p) = c}
Will(c) == {p \in Pollers : c \in Held(p)} \ Ran(c)

CountInv ==
    \A c \in DOMAIN commands :
        /\ runs[c] + Cardinality(Will(c)) <= lost[c] + Cardinality(Pollers)
        /\ c \in Pending => runs[c] <= lost[c] + Cardinality(Ran(c))

\* No command has run before an older one has, no poller has passed an older one over,
\* and only a command that has run is ever marked.
OrderInv ==
    /\ \A c, d \in DOMAIN commands : c < d /\ runs[d] > 0 => runs[c] > 0
    /\ \A p \in Pollers, c \in DOMAIN commands, d \in DOMAIN commands :
          d \in Held(p) /\ c < d /\ c \notin Held(p) => runs[c] > 0
    /\ \A c \in DOMAIN commands : c \notin Pending => runs[c] > 0
    /\ \A p \in Pollers : HasRun(p) => runs[Current(p)] > 0

PInv == TableInv /\ QueueInv /\ CountInv /\ OrderInv

\* Only a command that has run has decided an approval.
WordsInv ==
    /\ latest \in [Refs -> {"none", "pending", "approved", "vetoed"}]
    /\ said \in [Refs -> Seq(DOMAIN commands)]
    /\ \A r \in Refs : \A i \in DOMAIN said[r] : runs[said[r][i]] > 0
    /\ LastWordStands

\* What a board command asked for is so.
Settled(c) ==
    LET q == commands[c].req
    IN  /\ q.type \in ProposalTypes => q.arg \in DOMAIN board
        /\ q.type = "approve_proposal" => board[q.arg].status = "approved"
        /\ q.type = "veto_proposal" => board[q.arg].status = "vetoed"
        /\ q.type = "prioritize_proposal" => board[q.arg].rank = TRUE

SteersInv ==
    /\ BInv
    /\ \A c \in DOMAIN commands : commands[c].status = "done" => Settled(c)
    /\ \A p \in Pollers : at[p] = "mark" /\ verdict[p] = "ok" => Settled(Current(p))
    /\ OnlyFounderSteers

----------------------------------------------------------------------------
\* Sequences of ids.

\* The first of an ascending sequence is its least, and the rest is the rest.
LEMMA TailOfSorted ==
    ASSUME NEW n \in Nat, NEW q \in Seq(1..n), Sorted(q), q # <<>>
    PROVE  /\ Head(q) \in 1..n /\ Head(q) \in Elements(q)
           /\ Tail(q) \in Seq(1..n) /\ Sorted(Tail(q))
           /\ Elements(Tail(q)) = Elements(q) \ {Head(q)}
           /\ \A c \in Elements(q) : c # Head(q) => Head(q) < c
           /\ Len(q) = 1 <=> Tail(q) = <<>>
<1>1. /\ Len(q) \in Nat /\ Len(q) > 0 /\ DOMAIN q = 1..Len(q)
      /\ \A i \in DOMAIN q : q[i] \in 1..n
  OBVIOUS
<1>2. /\ Tail(q) \in Seq(1..n) /\ Len(Tail(q)) = Len(q) - 1 /\ DOMAIN Tail(q) = 1..(Len(q) - 1)
      /\ \A i \in 1..(Len(q) - 1) : Tail(q)[i] = q[i + 1]
  BY <1>1
<1>3. Head(q) = q[1]
  BY <1>1
<1>4. \A i \in DOMAIN q : i # 1 => q[1] < q[i]
  BY <1>1 DEF Sorted
<1>5. Sorted(Tail(q))
  <2> SUFFICES ASSUME NEW i \in DOMAIN Tail(q), NEW j \in DOMAIN Tail(q), i < j
               PROVE  Tail(q)[i] < Tail(q)[j]
    BY DEF Sorted
  <2>1. i + 1 \in DOMAIN q /\ j + 1 \in DOMAIN q /\ i + 1 < j + 1
    BY <1>1, <1>2
  <2>2. q[i + 1] < q[j + 1]
    BY <2>1 DEF Sorted
  <2> QED BY <1>2, <2>2
<1>6. Elements(Tail(q)) = Elements(q) \ {Head(q)}
  <2>1. ASSUME NEW c \in Elements(Tail(q))
        PROVE  c \in Elements(q) \ {Head(q)}
    <3>1. PICK i \in DOMAIN Tail(q) : c = Tail(q)[i]
      BY DEF Elements
    <3>2. i + 1 \in DOMAIN q /\ i + 1 # 1 /\ c = q[i + 1]
      BY <1>1, <1>2, <3>1
    <3>3. q[1] < q[i + 1] /\ q[1] \in 1..n /\ q[i + 1] \in 1..n
      BY <1>1, <1>4, <3>2
    <3> QED BY <1>3, <3>2, <3>3 DEF Elements
  <2>2. ASSUME NEW c \in Elements(q) \ {Head(q)}
        PROVE  c \in Elements(Tail(q))
    <3>1. PICK i \in DOMAIN q : c = q[i]
      BY DEF Elements
    <3>2. i # 1
      BY <1>3, <3>1
    <3>3. i - 1 \in DOMAIN Tail(q) /\ Tail(q)[i - 1] = q[i]
      BY <1>1, <1>2, <3>2
    <3> QED BY <3>1, <3>3 DEF Elements
  <2> QED BY <2>1, <2>2
<1>7. Head(q) \in 1..n /\ Head(q) \in Elements(q)
  BY <1>1, <1>3 DEF Elements
<1>8. \A c \in Elements(q) : c # Head(q) => Head(q) < c
  BY <1>3, <1>4 DEF Elements
<1>9. Len(q) = 1 <=> Tail(q) = <<>>
  BY <1>1, <1>2
<1> QED BY <1>2, <1>5, <1>6, <1>7, <1>8, <1>9

\* An ordering of a finite set by age has exactly its elements.
LEMMA AscendingIsWhole ==
    ASSUME NEW n \in Nat, NEW S \in SUBSET (1..n), NEW q \in Ascending(S)
    PROVE  /\ q \in Seq(1..n) /\ Sorted(q) /\ Elements(q) = S
           /\ S # {} => q # <<>>
<1> DEFINE m == Cardinality(S)
<1>1. IsFiniteSet(S) /\ m \in Nat
  <2>1. 1 \in Int /\ n \in Int
    OBVIOUS
  <2>2. IsFiniteSet(1..n)
    BY <2>1, FS_Interval, Zenon
  <2>3. IsFiniteSet(S)
    BY <2>2, FS_Subset, Zenon
  <2> QED BY <2>3, FS_CardinalityType, Zenon
<1>2. q \in [1..m -> S] /\ \A i, j \in 1..m : i # j => q[i] # q[j]
  BY DEF Ascending, SetToSeqs
<1>3. Sorted(q)
  BY DEF Ascending, Sorted
<1> HIDE DEF m
<1>4. q \in Seq(1..n) /\ Len(q) = m
  <2>1. q \in [1..m -> 1..n]
    BY <1>2
  <2>2. q \in Seq(1..n)
    BY <1>1, <2>1, SeqDef, Zenon
  <2> QED BY <1>1, <2>1, <2>2
<1>5. Elements(q) \subseteq S
  BY <1>2 DEF Elements
<1>6. Cardinality(Elements(q)) = m
  <2>1. q \in Bijection(1..m, Elements(q))
    BY <1>2 DEF Bijection, Injection, Surjection, Elements, IsInjective
  <2>2. ExistsBijection(1..m, Elements(q))
    BY <2>1 DEF ExistsBijection
  <2> QED BY <1>1, <2>2, FS_CountingElements, Zenon
<1>7. Elements(q) = S
  <2>1. Elements(q) \in SUBSET S
    BY <1>5
  <2> QED BY <1>1, <1>6, <2>1, FS_Subset, Zenon DEF m
<1>8. S # {} => q # <<>>
  BY <1>7 DEF Elements
<1> QED BY <1>3, <1>4, <1>7, <1>8

----------------------------------------------------------------------------
\* Counting pollers.
LEMMA WithAndWithout ==
    ASSUME NEW p \in Pollers, NEW S \in SUBSET Pollers
    PROVE  /\ IsFiniteSet(S) /\ Cardinality(S) \in Nat /\ Cardinality(S \ {p}) \in Nat
           /\ Cardinality(S) = Cardinality(S \ {p}) + (IF p \in S THEN 1 ELSE 0)
<1>1. IsFiniteSet(S)
  BY PollerConstants, FS_Subset, Zenon
<1>2. /\ IsFiniteSet(S \ {p})
      /\ Cardinality(S \ {p}) = IF p \in S THEN Cardinality(S) - 1 ELSE Cardinality(S)
  BY <1>1, FS_RemoveElement, Zenon
<1>3. Cardinality(S) \in Nat /\ Cardinality(S \ {p}) \in Nat
  BY <1>1, <1>2, FS_CardinalityType, Zenon
<1> QED BY <1>1, <1>2, <1>3

\* Two groups of pollers that share none are no more than the pollers.
LEMMA DisjointPollers ==
    ASSUME NEW r \in SUBSET Pollers, NEW w \in SUBSET Pollers, r \cap w = {}
    PROVE  /\ Cardinality(r) \in Nat /\ Cardinality(w) \in Nat
           /\ Cardinality(Pollers) \in Nat
           /\ Cardinality(r) + Cardinality(w) <= Cardinality(Pollers)
<1>1. IsFiniteSet(r) /\ IsFiniteSet(w) /\ IsFiniteSet(Pollers)
  BY PollerConstants, FS_Subset, Zenon
<1>2. Cardinality(r \cup w) = Cardinality(r) + Cardinality(w) - Cardinality(r \cap w)
  BY <1>1, FS_Union, Zenon
<1>3. Cardinality(r \cap w) = 0
  BY FS_EmptySet, Zenon
<1>4. r \cup w \in SUBSET Pollers
  OBVIOUS
<1>5. Cardinality(r \cup w) <= Cardinality(Pollers)
  BY <1>1, <1>4, FS_Subset, Zenon
<1>6. Cardinality(r) \in Nat /\ Cardinality(w) \in Nat /\ Cardinality(Pollers) \in Nat
  BY <1>1, FS_CardinalityType, Zenon
<1> QED BY <1>2, <1>3, <1>5, <1>6

\* A poller is counted once, among those that have run c or those that will.
LEMMA CountedOnce ==
    ASSUME NEW c
    PROVE  /\ Cardinality(Ran(c)) \in Nat /\ Cardinality(Will(c)) \in Nat
           /\ Cardinality(Pollers) \in Nat
           /\ Cardinality(Ran(c)) + Cardinality(Will(c)) <= Cardinality(Pollers)
<1>1. Ran(c) \in SUBSET Pollers /\ Will(c) \in SUBSET Pollers /\ Ran(c) \cap Will(c) = {}
  BY DEF Ran, Will
<1> QED BY <1>1, DisjointPollers

\* A step of one poller moves no other.
Alone(p) == \A o \in Pollers \ {p} : queue'[o] = queue[o] /\ at'[o] = at[o]

One(b) == IF b THEN 1 ELSE 0

\* What the counts of a command owe to the poller that moves, before and after.
LEMMA OneMoves ==
    ASSUME NEW p \in Pollers, Alone(p), NEW c
    PROVE  \E r, w \in Nat :
              /\ Cardinality(Ran(c)) = r + One(p \in Ran(c))
              /\ Cardinality(Will(c)) = w + One(p \in Will(c))
              /\ Cardinality(Ran(c)') = r + One(p \in Ran(c)')
              /\ Cardinality(Will(c)') = w + One(p \in Will(c)')
<1> DEFINE r == Cardinality(Ran(c) \ {p})
           w == Cardinality(Will(c) \ {p})
<1>1. /\ Ran(c) \in SUBSET Pollers /\ Will(c) \in SUBSET Pollers
      /\ Ran(c)' \in SUBSET Pollers /\ Will(c)' \in SUBSET Pollers
  BY DEF Ran, Will
<1>2. ASSUME NEW o \in Pollers \ {p}
      PROVE  (o \in Ran(c)' <=> o \in Ran(c)) /\ (o \in Will(c)' <=> o \in Will(c))
  <2>1. queue'[o] = queue[o] /\ at'[o] = at[o]
    BY DEF Alone
  <2>2. Held(o)' = Held(o) /\ (HasRun(o)' <=> HasRun(o)) /\ Current(o)' = Current(o)
    BY <2>1 DEF Held, HasRun, Current
  <2> QED BY <2>2 DEF Ran, Will
<1>3. Ran(c)' \ {p} = Ran(c) \ {p} /\ Will(c)' \ {p} = Will(c) \ {p}
  BY <1>1, <1>2
<1>4. /\ r \in Nat /\ w \in Nat
      /\ Cardinality(Ran(c)) = r + One(p \in Ran(c))
      /\ Cardinality(Will(c)) = w + One(p \in Will(c))
  BY <1>1, WithAndWithout, Zenon DEF One
<1>5. /\ Cardinality(Ran(c)') = Cardinality(Ran(c)' \ {p}) + One(p \in Ran(c)')
      /\ Cardinality(Will(c)') = Cardinality(Will(c)' \ {p}) + One(p \in Will(c)')
  BY <1>1, WithAndWithout, Zenon DEF One
<1> HIDE DEF r, w
<1>6. /\ Cardinality(Ran(c)') = r + One(p \in Ran(c)')
      /\ Cardinality(Will(c)') = w + One(p \in Will(c)')
  BY <1>3, <1>5, Zenon DEF r, w
<1> QED BY <1>4, <1>6, Zenon

\* What it means to be counted.
LEMMA Counts ==
    ASSUME NEW p \in Pollers, NEW c
    PROVE  /\ p \in Ran(c) <=> HasRun(p) /\ Current(p) = c
           /\ p \in Will(c) <=> c \in Held(p) /\ p \notin Ran(c)
BY DEF Ran, Will

----------------------------------------------------------------------------
\* The shape of the queues.

\* The ids are the numbers up to the length of the table.
LEMMA Ids == TableInv => /\ Len(commands) \in Nat /\ DOMAIN commands = 1..Len(commands)
                         /\ DOMAIN runs = DOMAIN commands /\ DOMAIN lost = DOMAIN commands
                         /\ \A c \in DOMAIN commands :
                               /\ runs[c] \in Nat /\ lost[c] \in Nat
                               /\ commands[c] \in [req : Requests, status : Marked]
<1> SUFFICES ASSUME TableInv
             PROVE  /\ Len(commands) \in Nat /\ DOMAIN commands = 1..Len(commands)
                    /\ DOMAIN runs = DOMAIN commands /\ DOMAIN lost = DOMAIN commands
                    /\ \A c \in DOMAIN commands :
                          /\ runs[c] \in Nat /\ lost[c] \in Nat
                          /\ commands[c] \in [req : Requests, status : Marked]
  OBVIOUS
<1> DEFINE R == [req : Requests, status : Marked]
<1>1. commands \in Seq(R)
  BY DEF TableInv
<1> HIDE DEF R
<1>2. Len(commands) \in Nat /\ DOMAIN commands = 1..Len(commands)
  BY <1>1
<1>3. \A c \in DOMAIN commands : commands[c] \in R
  BY <1>1
<1>4. /\ DOMAIN runs = DOMAIN commands /\ DOMAIN lost = DOMAIN commands
      /\ \A c \in DOMAIN commands : runs[c] \in Nat /\ lost[c] \in Nat
  BY <1>2 DEF TableInv
<1> QED BY <1>2, <1>3, <1>4 DEF R

\* A poller that has commands in hand: the first is the oldest of them.
LEMMA CurrentIsOldest ==
    ASSUME TableInv, QueueInv, NEW p \in Pollers, at[p] # "idle"
    PROVE  /\ queue[p] # <<>> /\ Current(p) \in DOMAIN commands /\ Current(p) \in Held(p)
           /\ \A c \in Held(p) : c # Current(p) => Current(p) < c
           /\ Tail(queue[p]) \in Seq(DOMAIN commands) /\ Sorted(Tail(queue[p]))
           /\ Elements(Tail(queue[p])) = Held(p) \ {Current(p)}
           /\ Len(queue[p]) = 1 <=> Tail(queue[p]) = <<>>
<1>1. queue[p] \in Seq(DOMAIN commands) /\ Sorted(queue[p]) /\ queue[p] # <<>>
  BY DEF QueueInv
<1> QED BY <1>1, TailOfSorted, Ids DEF Current, Held

\* What a poller holds are ids.
LEMMA HeldAreIds ==
    ASSUME QueueInv, NEW p \in Pollers
    PROVE  /\ \A c \in Held(p) : c \in DOMAIN commands
           /\ Held(p) = {} <=> queue[p] = <<>>
<1>1. queue[p] \in Seq(DOMAIN commands)
  BY DEF QueueInv
<1>2. queue[p] # <<>> => 1 \in DOMAIN queue[p]
  BY <1>1
<1>3. queue[p] = <<>> => DOMAIN queue[p] = {}
  OBVIOUS
<1>4. \A i \in DOMAIN queue[p] : queue[p][i] \in DOMAIN commands
  BY <1>1
<1> QED BY <1>2, <1>3, <1>4 DEF Held, Elements

\* One poller moves on to the list q.
LEMMA QueueMoves ==
    ASSUME TableInv, QueueInv, NEW p \in Pollers, DOMAIN commands' = DOMAIN commands,
           NEW q \in Seq(DOMAIN commands), Sorted(q),
           NEW a \in {"idle", "run", "mark", "remark"}, a = "idle" <=> q = <<>>,
           NEW v \in {"none", "ok", "error", "raised"},
           queue' = [queue EXCEPT ![p] = q], at' = [at EXCEPT ![p] = a],
           verdict' = [verdict EXCEPT ![p] = v]
    PROVE  /\ QueueInv' /\ Alone(p)
           /\ queue'[p] = q /\ at'[p] = a /\ verdict'[p] = v
           /\ Held(p)' = Elements(q)
           /\ \A o \in Pollers \ {p} : verdict'[o] = verdict[o]
<1>1. /\ queue' \in [Pollers -> Seq(DOMAIN commands')]
      /\ at' \in [Pollers -> {"idle", "run", "mark", "remark"}]
      /\ verdict' \in [Pollers -> {"none", "ok", "error", "raised"}]
  BY DEF QueueInv
<1>2. queue'[p] = q /\ at'[p] = a /\ verdict'[p] = v
  BY DEF QueueInv
<1>3. \A o \in Pollers \ {p} : queue'[o] = queue[o] /\ at'[o] = at[o] /\ verdict'[o] = verdict[o]
  BY DEF QueueInv
<1>4. Held(p)' = Elements(q)
  BY <1>2 DEF Held
<1>5. ASSUME NEW o \in Pollers
      PROVE  Sorted(queue'[o]) /\ (at'[o] = "idle" <=> queue'[o] = <<>>)
  <2>1. CASE o = p
    BY <1>2, <2>1
  <2>2. CASE o # p
    <3>1. queue'[o] = queue[o] /\ at'[o] = at[o]
      BY <1>3, <2>2
    <3>2. Sorted(queue[o]) /\ (at[o] = "idle" <=> queue[o] = <<>>)
      BY DEF QueueInv
    <3> QED BY <3>1, <3>2
  <2> QED BY <2>1, <2>2
<1>6. QueueInv'
  BY <1>1, <1>5 DEF QueueInv
<1> QED BY <1>2, <1>3, <1>4, <1>6 DEF Alone

\* NextCommand drops the command in hand and nothing else.
LEMMA NextCommandDrops ==
    ASSUME TableInv, QueueInv, NEW p \in Pollers, at[p] # "idle", NextCommand(p),
           DOMAIN commands' = DOMAIN commands
    PROVE  /\ QueueInv' /\ Alone(p) /\ Held(p)' = Held(p) \ {Current(p)}
           /\ at'[p] \in {"idle", "run"} /\ ~HasRun(p)' /\ verdict'[p] = "none"
           /\ \A o \in Pollers \ {p} : verdict'[o] = verdict[o]
<1> DEFINE q == Tail(queue[p])
           a == IF Len(queue[p]) = 1 THEN "idle" ELSE "run"
<1>1. /\ q \in Seq(DOMAIN commands) /\ Sorted(q)
      /\ a \in {"idle", "run", "mark", "remark"} /\ a \in {"idle", "run"}
      /\ a = "idle" <=> q = <<>>
      /\ Elements(q) = Held(p) \ {Current(p)}
  BY CurrentIsOldest
<1>2. /\ queue' = [queue EXCEPT ![p] = q] /\ at' = [at EXCEPT ![p] = a]
      /\ verdict' = [verdict EXCEPT ![p] = "none"]
  BY DEF NextCommand
<1> HIDE DEF q, a
<1>3. /\ QueueInv' /\ Alone(p) /\ at'[p] = a /\ verdict'[p] = "none"
      /\ Held(p)' = Elements(q)
      /\ \A o \in Pollers \ {p} : verdict'[o] = verdict[o]
  BY <1>1, <1>2, QueueMoves
<1>4. ~HasRun(p)'
  BY <1>1, <1>3 DEF HasRun
<1> QED BY <1>1, <1>3, <1>4

\* A fetch takes every pending command.
LEMMA FetchTakes ==
    ASSUME TableInv, QueueInv, NEW p \in Pollers, Fetch(p)
    PROVE  /\ QueueInv' /\ Alone(p) /\ Held(p)' = Pending
           /\ at[p] = "idle" /\ at'[p] = "run" /\ Held(p) = {}
           /\ \A o \in Pollers : verdict'[o] = verdict[o]
<1>1. PICK q \in Ascending(Pending) : queue' = [queue EXCEPT ![p] = q]
  BY DEF Fetch
<1>2. Pending \in SUBSET (1..Len(commands)) /\ Len(commands) \in Nat /\ Pending # {}
  BY Ids DEF Pending, Fetch
<1>3. q \in Seq(DOMAIN commands) /\ Sorted(q) /\ Elements(q) = Pending /\ q # <<>>
  BY <1>2, AscendingIsWhole, Ids
<1>4. /\ at[p] = "idle" /\ at' = [at EXCEPT ![p] = "run"] /\ verdict' = verdict
      /\ DOMAIN commands' = DOMAIN commands
  BY DEF Fetch
<1>5. verdict' = [verdict EXCEPT ![p] = verdict[p]] /\ verdict[p] \in {"none", "ok", "error", "raised"}
  BY <1>4 DEF QueueInv
<1>6. QueueInv' /\ Alone(p) /\ at'[p] = "run" /\ Held(p)' = Elements(q)
  BY <1>1, <1>3, <1>4, <1>5, QueueMoves
<1>7. Held(p) = {}
  BY <1>4, HeldAreIds DEF QueueInv
<1> QED BY <1>3, <1>4, <1>6, <1>7

\* A mark writes one status.
LEMMA MarkWrites ==
    ASSUME TableInv, QueueInv, NEW p \in Pollers, at[p] # "idle",
           NEW s \in {"done", "error"}, SetStatus(p, s)
    PROVE  /\ commands' \in Seq([req : Requests, status : Marked])
           /\ Len(commands') = Len(commands) /\ DOMAIN commands' = DOMAIN commands
           /\ \A c \in DOMAIN commands :
                 /\ commands'[c].req = commands[c].req
                 /\ commands'[c].status = IF c = Current(p) THEN s ELSE commands[c].status
           /\ Pending' = Pending \ {Current(p)}
<1> DEFINE h == Current(p)
           row == [commands[h] EXCEPT !.status = s]
<1>1. h \in DOMAIN commands
  BY CurrentIsOldest
<1>2. commands[h] \in [req : Requests, status : Marked]
  BY <1>1, Ids
<1>3. row \in [req : Requests, status : Marked] /\ row.req = commands[h].req /\ row.status = s
  BY <1>2 DEF Marked
<1>4. commands' = [commands EXCEPT ![h] = row]
  BY DEF SetStatus
<1> HIDE DEF h, row
<1>5. /\ commands' \in Seq([req : Requests, status : Marked])
      /\ Len(commands') = Len(commands) /\ DOMAIN commands' = DOMAIN commands
      /\ \A c \in DOMAIN commands : commands'[c] = IF c = h THEN row ELSE commands[c]
  BY <1>1, <1>3, <1>4 DEF TableInv
<1>6. \A c \in DOMAIN commands : /\ commands'[c].req = commands[c].req
                                 /\ commands'[c].status = IF c = h THEN s ELSE commands[c].status
  BY <1>3, <1>5
<1>7. Pending' = Pending \ {h}
  BY <1>5, <1>6 DEF Pending
<1> QED BY <1>5, <1>6, <1>7 DEF h

\* The counts of a command stay explained when what its runs and the pollers that will
\* run it gain is no more than what its losses gain, and so for those that have run it.
LEMMA Balance ==
    ASSUME TableInv, CountInv, NEW p \in Pollers, Alone(p),
           NEW c \in DOMAIN commands, runs'[c] \in Nat, lost'[c] \in Nat,
           runs'[c] - runs[c] + One(p \in Will(c)') <= lost'[c] - lost[c] + One(p \in Will(c)),
           c \in Pending' => /\ c \in Pending
                             /\ runs'[c] - runs[c] + One(p \in Ran(c))
                                    <= lost'[c] - lost[c] + One(p \in Ran(c)')
    PROVE  /\ runs'[c] + Cardinality(Will(c)') <= lost'[c] + Cardinality(Pollers)
           /\ c \in Pending' => runs'[c] <= lost'[c] + Cardinality(Ran(c)')
<1>1. PICK r, w \in Nat : /\ Cardinality(Ran(c)) = r + One(p \in Ran(c))
                          /\ Cardinality(Will(c)) = w + One(p \in Will(c))
                          /\ Cardinality(Ran(c)') = r + One(p \in Ran(c)')
                          /\ Cardinality(Will(c)') = w + One(p \in Will(c)')
  BY OneMoves
<1>2. runs[c] \in Nat /\ lost[c] \in Nat /\ Cardinality(Pollers) \in Nat
  BY Ids, CountedOnce
<1>3. /\ One(p \in Ran(c)) \in {0, 1} /\ One(p \in Will(c)) \in {0, 1}
      /\ One(p \in Ran(c)') \in {0, 1} /\ One(p \in Will(c)') \in {0, 1}
  BY DEF One
<1>4. /\ runs[c] + Cardinality(Will(c)) <= lost[c] + Cardinality(Pollers)
      /\ c \in Pending => runs[c] <= lost[c] + Cardinality(Ran(c))
  BY DEF CountInv
<1> QED BY <1>1, <1>2, <1>3, <1>4

\* The command in hand has been run and is let go: nothing else about p changes.
LEMMA DropCounts ==
    ASSUME TableInv, QueueInv, NEW p \in Pollers, HasRun(p), ~HasRun(p)',
           Held(p)' = Held(p) \ {Current(p)}, NEW c
    PROVE  /\ One(p \in Will(c)') = One(p \in Will(c))
           /\ One(p \in Ran(c)') = 0 /\ One(p \in Ran(c)) = One(c = Current(p))
<1>1. p \notin Ran(c)' /\ (p \in Will(c)' <=> c \in Held(p)')
  BY DEF Ran, Will
<1>2. (p \in Ran(c) <=> c = Current(p)) /\ (p \in Will(c) <=> c \in Held(p) /\ c # Current(p))
  BY DEF Ran, Will
<1> QED BY <1>1, <1>2 DEF One

\* What the move of one poller must leave true of the order of the commands.
LEMMA OrderKept ==
    ASSUME TableInv, QueueInv, OrderInv, NEW p \in Pollers, Alone(p),
           DOMAIN commands' = DOMAIN commands,
           \A c \in DOMAIN commands : runs'[c] \in Nat /\ runs'[c] >= runs[c],
           \A c, d \in DOMAIN commands : c < d /\ runs[d] = 0 /\ runs'[d] > 0 => runs'[c] > 0,
           \A c, d \in DOMAIN commands : d \in Held(p)' /\ c < d /\ c \notin Held(p)' => runs'[c] > 0,
           \A c \in DOMAIN commands : c \notin Pending' => c \notin Pending \/ runs'[c] > 0,
           HasRun(p)' => runs'[Current(p)'] > 0
    PROVE  OrderInv'
<1>1. \A c \in DOMAIN commands : runs[c] \in Nat
  BY Ids
<1>2. ASSUME NEW o \in Pollers \ {p}
      PROVE  Held(o)' = Held(o) /\ (HasRun(o)' <=> HasRun(o)) /\ Current(o)' = Current(o)
  <2>1. queue'[o] = queue[o] /\ at'[o] = at[o]
    BY DEF Alone
  <2> QED BY <2>1 DEF Held, HasRun, Current
<1>3. \A c, d \in DOMAIN commands' : c < d /\ runs'[d] > 0 => runs'[c] > 0
  BY <1>1 DEF OrderInv
<1>4. ASSUME NEW o \in Pollers, NEW c \in DOMAIN commands', NEW d \in DOMAIN commands',
             d \in Held(o)', c < d, c \notin Held(o)'
      PROVE  runs'[c] > 0
  <2>1. CASE o = p
    BY <1>4, <2>1
  <2>2. CASE o # p
    <3>1. runs[c] > 0
      BY <1>2, <1>4, <2>2 DEF OrderInv
    <3> QED BY <1>1, <3>1
  <2> QED BY <2>1, <2>2
<1>5. \A c \in DOMAIN commands' : c \notin Pending' => runs'[c] > 0
  BY <1>1 DEF OrderInv
<1>6. ASSUME NEW o \in Pollers, HasRun(o)'
      PROVE  runs'[Current(o)'] > 0
  <2>1. CASE o = p
    BY <1>6, <2>1
  <2>2. CASE o # p
    <3>1. HasRun(o) /\ Current(o)' = Current(o)
      BY <1>2, <1>6, <2>2
    <3>2. at[o] # "idle"
      BY <3>1 DEF HasRun
    <3>3. Current(o) \in DOMAIN commands
      BY <3>2, CurrentIsOldest
    <3>4. runs[Current(o)] > 0
      BY <3>1 DEF OrderInv
    <3> QED BY <1>1, <3>1, <3>3, <3>4
  <2> QED BY <2>1, <2>2
<1> QED BY <1>3, <1>4, <1>5, <1>6 DEF OrderInv

----------------------------------------------------------------------------
\* PInv, action by action.

LEMMA PInvInit == Init => PInv
<1> SUFFICES ASSUME Init PROVE PInv
  OBVIOUS
<1>1. /\ commands = <<>> /\ runs = <<>> /\ lost = <<>>
      /\ queue = [p \in Pollers |-> <<>>] /\ at = [p \in Pollers |-> "idle"]
      /\ verdict = [p \in Pollers |-> "none"]
  BY DEF Init, PollerInit
<1>2. DOMAIN commands = {}
  BY <1>1
<1>3. TableInv
  BY <1>1 DEF TableInv
<1>4. QueueInv
  BY <1>1 DEF QueueInv, Sorted
<1>5. \A p \in Pollers : ~HasRun(p)
  BY <1>1 DEF HasRun
<1> QED BY <1>2, <1>3, <1>4, <1>5 DEF PInv, CountInv, OrderInv

\* Nothing but the pollers' own variables and the histories counts.
LEMMA PInvStays ==
    ASSUME PInv, UNCHANGED <<commands, queue, at, verdict, runs, lost>>
    PROVE  PInv'
<1>1. \A p \in Pollers : Held(p)' = Held(p) /\ (HasRun(p)' <=> HasRun(p)) /\ Current(p)' = Current(p)
  BY DEF Held, HasRun, Current
<1>2. Pending' = Pending
  BY DEF Pending
<1>3. \A c : Ran(c)' = Ran(c) /\ Will(c)' = Will(c)
  BY <1>1 DEF Ran, Will
<1>4. TableInv' /\ QueueInv'
  BY DEF PInv, TableInv, QueueInv
<1>5. CountInv'
  BY <1>2, <1>3 DEF PInv, CountInv
<1>6. OrderInv'
  BY <1>1, <1>2 DEF PInv, OrderInv
<1> QED BY <1>4, <1>5, <1>6 DEF PInv

\* A new command: nobody holds it, and nothing has run it.
LEMMA PInvEnqueue == PInv /\ Enqueue => PInv'
<1> SUFFICES ASSUME PInv, Enqueue PROVE PInv'
  OBVIOUS
<1> DEFINE n == Len(commands)
<1>1. PICK q \in Requests : commands' = Append(commands, [req |-> q, status |-> "pending"])
  BY DEF Enqueue
<1>2. runs' = Append(runs, 0) /\ lost' = Append(lost, 0) /\ UNCHANGED <<queue, at, verdict>>
  BY DEF Enqueue
<1>3. n \in Nat /\ DOMAIN commands = 1..n /\ (\A c \in 1..n : runs[c] \in Nat /\ lost[c] \in Nat)
  BY Ids DEF PInv
<1>4. /\ TableInv' /\ DOMAIN commands' = 1..(n + 1)
      /\ \A c \in 1..n : commands'[c] = commands[c] /\ runs'[c] = runs[c] /\ lost'[c] = lost[c]
      /\ commands'[n + 1].status = "pending" /\ runs'[n + 1] = 0 /\ lost'[n + 1] = 0
  <2>1. [req |-> q, status |-> "pending"] \in [req : Requests, status : Marked]
    BY DEF Marked
  <2>2. /\ commands' \in Seq([req : Requests, status : Marked]) /\ Len(commands') = n + 1
        /\ \A c \in 1..n : commands'[c] = commands[c]
        /\ commands'[n + 1] = [req |-> q, status |-> "pending"]
    BY <1>1, <1>3, <2>1, AppendProperties DEF PInv, TableInv
  <2>3. /\ runs' \in Seq(Nat) /\ Len(runs') = n + 1 /\ (\A c \in 1..n : runs'[c] = runs[c])
        /\ runs'[n + 1] = 0
    BY <1>2, <1>3, AppendProperties DEF PInv, TableInv
  <2>4. /\ lost' \in Seq(Nat) /\ Len(lost') = n + 1 /\ (\A c \in 1..n : lost'[c] = lost[c])
        /\ lost'[n + 1] = 0
    BY <1>2, <1>3, AppendProperties DEF PInv, TableInv
  <2>5. DOMAIN commands' = 1..(n + 1)
    BY <2>2
  <2>6. commands'[n + 1].status = "pending"
    BY <2>2
  <2> HIDE DEF n
  <2> QED BY <1>3, <2>2, <2>3, <2>4, <2>5, <2>6 DEF TableInv
<1> HIDE DEF n
<1>5. QueueInv'
  <2>1. ASSUME NEW p \in Pollers
        PROVE  queue[p] \in Seq(DOMAIN commands')
    <3>1. queue[p] \in Seq(1..n)
      BY <1>3 DEF PInv, QueueInv
    <3> QED BY <1>3, <1>4, <3>1, SeqMonotonic
  <2> QED BY <1>2, <2>1 DEF PInv, QueueInv
<1>6. \A p \in Pollers : Held(p)' = Held(p) /\ (HasRun(p)' <=> HasRun(p)) /\ Current(p)' = Current(p)
  BY <1>2 DEF Held, HasRun, Current
<1>7. \A c : Ran(c)' = Ran(c) /\ Will(c)' = Will(c)
  BY <1>6 DEF Ran, Will
<1>8. \A p \in Pollers : \A c \in Held(p) : c \in 1..n
  BY <1>3, HeldAreIds DEF PInv
<1>9. Pending' = Pending \cup {n + 1} /\ Pending \subseteq 1..n
  BY <1>3, <1>4 DEF Pending
<1>10. CountInv'
  <2> SUFFICES ASSUME NEW c \in 1..(n + 1)
               PROVE  /\ runs'[c] + Cardinality(Will(c)) <= lost'[c] + Cardinality(Pollers)
                      /\ c \in Pending' => runs'[c] <= lost'[c] + Cardinality(Ran(c))
    BY <1>4, <1>7 DEF CountInv
  <2>1. CASE c \in 1..n
    BY <1>3, <1>4, <1>9, <2>1 DEF PInv, CountInv
  <2>2. CASE c = n + 1
    <3>1. /\ Cardinality(Ran(c)) \in Nat /\ Cardinality(Will(c)) \in Nat
          /\ Cardinality(Pollers) \in Nat
          /\ Cardinality(Ran(c)) + Cardinality(Will(c)) <= Cardinality(Pollers)
      BY CountedOnce
    <3> QED BY <1>4, <2>2, <3>1
  <2> QED BY <1>3, <2>1, <2>2
<1>11. OrderInv'
  <2>1. ASSUME NEW c \in 1..(n + 1), NEW d \in 1..(n + 1), c < d, runs'[d] > 0
        PROVE  runs'[c] > 0
    <3>1. c \in 1..n /\ d \in 1..n
      BY <1>3, <1>4, <2>1
    <3>2. runs[d] > 0
      BY <1>4, <2>1, <3>1
    <3>3. runs[c] > 0
      BY <1>3, <2>1, <3>1, <3>2 DEF PInv, OrderInv
    <3> QED BY <1>4, <3>1, <3>3
  <2>2. \A p \in Pollers, c, d \in 1..(n + 1) :
            d \in Held(p)' /\ c < d /\ c \notin Held(p)' => runs'[c] > 0
    BY <1>3, <1>4, <1>6, <1>8 DEF PInv, OrderInv
  <2>3. \A c \in 1..(n + 1) : c \notin Pending' => runs'[c] > 0
    BY <1>3, <1>4, <1>9 DEF PInv, OrderInv
  <2>4. ASSUME NEW p \in Pollers, HasRun(p)'
        PROVE  runs'[Current(p)'] > 0
    <3>1. HasRun(p) /\ Current(p)' = Current(p)
      BY <1>6, <2>4
    <3>2. at[p] # "idle"
      BY <3>1 DEF HasRun
    <3>3. Current(p) \in 1..n
      BY <1>3, <3>2, CurrentIsOldest DEF PInv
    <3> QED BY <1>4, <3>1, <3>3 DEF PInv, OrderInv
  <2> QED BY <1>4, <2>1, <2>2, <2>3, <2>4 DEF OrderInv
<1> QED BY <1>4, <1>5, <1>10, <1>11 DEF PInv

\* One more in a history.
LEMMA OneMore ==
    ASSUME NEW s \in Seq(Nat), NEW h \in DOMAIN s, NEW t, t = [s EXCEPT ![h] = @ + 1]
    PROVE  /\ t \in Seq(Nat) /\ Len(t) = Len(s) /\ DOMAIN t = DOMAIN s
           /\ \A c \in DOMAIN s : t[c] = IF c = h THEN s[c] + 1 ELSE s[c]
<1>1. s[h] + 1 \in Nat
  OBVIOUS
<1> DEFINE e == s[h] + 1
<1>2. t = [s EXCEPT ![h] = e]
  OBVIOUS
<1> HIDE DEF e
<1> QED BY <1>1, <1>2 DEF e

LEMMA PInvFetch ==
    ASSUME PInv, NEW p \in Pollers, Fetch(p)
    PROVE  PInv'
<1>1. /\ QueueInv' /\ Alone(p) /\ Held(p)' = Pending /\ Held(p) = {}
      /\ at[p] = "idle" /\ at'[p] = "run"
  BY FetchTakes DEF PInv
<1>2. UNCHANGED <<commands, runs, lost>>
  BY DEF Fetch
<1>3. TableInv' /\ Pending' = Pending
  BY <1>2 DEF PInv, TableInv, Pending
<1>4. ~HasRun(p) /\ ~HasRun(p)'
  BY <1>1 DEF HasRun
<1>5. OrderInv'
  <2>1. /\ \A c \in DOMAIN commands : runs'[c] \in Nat /\ runs'[c] >= runs[c]
        /\ \A c, d \in DOMAIN commands : c < d /\ runs[d] = 0 /\ runs'[d] > 0 => runs'[c] > 0
    BY <1>2, Ids DEF PInv
  <2>2. \A c, d \in DOMAIN commands : d \in Held(p)' /\ c < d /\ c \notin Held(p)' => runs'[c] > 0
    BY <1>1, <1>2 DEF PInv, OrderInv
  <2>3. \A c \in DOMAIN commands : c \notin Pending' => c \notin Pending \/ runs'[c] > 0
    BY <1>3
  <2> QED BY <1>1, <1>2, <1>4, <2>1, <2>2, <2>3, OrderKept DEF PInv
<1>6. CountInv'
  <2> SUFFICES ASSUME NEW c \in DOMAIN commands
               PROVE  /\ runs[c] + Cardinality(Will(c)') <= lost[c] + Cardinality(Pollers)
                      /\ c \in Pending => runs[c] <= lost[c] + Cardinality(Ran(c)')
    BY <1>2, <1>3 DEF CountInv
  <2>1. p \notin Ran(c) /\ p \notin Ran(c)' /\ p \notin Will(c) /\ (p \in Will(c)' <=> c \in Pending)
    BY <1>1, <1>4 DEF Ran, Will
  <2>2. PICK r, w \in Nat : /\ Cardinality(Ran(c)) = r + One(p \in Ran(c))
                            /\ Cardinality(Will(c)) = w + One(p \in Will(c))
                            /\ Cardinality(Ran(c)') = r + One(p \in Ran(c)')
                            /\ Cardinality(Will(c)') = w + One(p \in Will(c)')
    BY <1>1, OneMoves
  <2>3. /\ Cardinality(Ran(c)) = r /\ Cardinality(Ran(c)') = r /\ Cardinality(Will(c)) = w
        /\ c \notin Pending => Cardinality(Will(c)') = w
    BY <2>1, <2>2 DEF One
  <2>4. runs[c] \in Nat /\ lost[c] \in Nat
    BY Ids DEF PInv
  <2>5. /\ runs[c] + Cardinality(Will(c)) <= lost[c] + Cardinality(Pollers)
        /\ c \in Pending => runs[c] <= lost[c] + Cardinality(Ran(c))
    BY DEF PInv, CountInv
  <2>6. /\ Cardinality(Pollers) \in Nat /\ Cardinality(Will(c)') \in Nat
        /\ Cardinality(Ran(c)') + Cardinality(Will(c)') <= Cardinality(Pollers)
    <3>1. Ran(c)' \in SUBSET Pollers /\ Will(c)' \in SUBSET Pollers /\ Ran(c)' \cap Will(c)' = {}
      BY DEF Ran, Will
    <3> QED BY <3>1, DisjointPollers
  <2>7. CASE c \in Pending
    BY <2>3, <2>4, <2>5, <2>6, <2>7
  <2>8. CASE c \notin Pending
    BY <2>3, <2>5, <2>8
  <2> QED BY <2>7, <2>8
<1> QED BY <1>3, <1>1, <1>5, <1>6 DEF PInv

\* The command in hand is run: what p will run it has run.
LEMMA PInvProcess ==
    ASSUME PInv, NEW p \in Pollers, Process(p)
    PROVE  PInv'
<1> DEFINE h == Current(p)
<1>1. /\ at[p] = "run" /\ UNCHANGED <<commands, queue, lost>>
      /\ runs' = [runs EXCEPT ![h] = @ + 1]
      /\ at' = [at EXCEPT ![p] = IF verdict'[p] = "raised" THEN "remark" ELSE "mark"]
  BY DEF Process
<1>2. \E v \in {"ok", "error", "raised"} : verdict' = [verdict EXCEPT ![p] = v]
  <2>1. \A q : Answers(q) \subseteq {"ok", "error", "raised"}
    BY DEF Answers
  <2> QED BY <2>1 DEF Process
<1>3. /\ at[p] # "idle" /\ queue[p] # <<>> /\ h \in DOMAIN commands /\ h \in Held(p)
      /\ \A c \in Held(p) : c # h => h < c
  BY <1>1, CurrentIsOldest DEF PInv
<1>4. /\ runs' \in Seq(Nat) /\ Len(runs') = Len(runs)
      /\ \A c \in DOMAIN commands : runs'[c] = IF c = h THEN runs[c] + 1 ELSE runs[c]
  <2>1. runs \in Seq(Nat) /\ h \in DOMAIN runs /\ DOMAIN runs = DOMAIN commands
    BY <1>3, Ids DEF PInv, TableInv
  <2> HIDE DEF h
  <2> QED BY <1>1, <2>1, OneMore
<1>5. TableInv' /\ Pending' = Pending
  BY <1>1, <1>4 DEF PInv, TableInv, Pending
<1>6. PICK a \in {"mark", "remark"} : at' = [at EXCEPT ![p] = a]
  BY <1>1
<1>7. QueueInv' /\ Alone(p) /\ at'[p] = a /\ Held(p)' = Held(p) /\ Current(p)' = h
  <2>1. PICK v \in {"ok", "error", "raised"} : verdict' = [verdict EXCEPT ![p] = v]
    BY <1>2
  <2>2. /\ queue' = [queue EXCEPT ![p] = queue[p]] /\ queue[p] \in Seq(DOMAIN commands)
        /\ Sorted(queue[p])
    BY <1>1 DEF PInv, QueueInv
  <2>3. QueueInv' /\ Alone(p) /\ at'[p] = a /\ queue'[p] = queue[p]
    <3>1. /\ a \in {"idle", "run", "mark", "remark"} /\ (a = "idle" <=> queue[p] = <<>>)
          /\ v \in {"none", "ok", "error", "raised"} /\ DOMAIN commands' = DOMAIN commands
          /\ TableInv /\ QueueInv
      BY <1>1, <1>3 DEF PInv
    <3> DEFINE q == queue[p]
    <3>2. /\ q \in Seq(DOMAIN commands) /\ Sorted(q) /\ (a = "idle" <=> q = <<>>)
          /\ queue' = [queue EXCEPT ![p] = q]
      BY <2>2, <3>1
    <3> HIDE DEF q
    <3>3. QueueInv' /\ Alone(p) /\ at'[p] = a /\ queue'[p] = q
      BY <1>6, <2>1, <3>1, <3>2, QueueMoves
    <3> QED BY <3>3 DEF q
  <2> QED BY <2>3 DEF Held, Current
<1>8. ~HasRun(p) /\ HasRun(p)'
  BY <1>1, <1>7 DEF HasRun
<1> HIDE DEF h
<1>9. \A c \in DOMAIN commands : runs[c] \in Nat /\ lost[c] \in Nat
  BY Ids DEF PInv
<1>10. OrderInv'
  <2>1. \A c \in DOMAIN commands : runs'[c] \in Nat /\ runs'[c] >= runs[c]
    BY <1>4, <1>9
  <2>2. ASSUME NEW c \in DOMAIN commands, NEW d \in DOMAIN commands, c < d, runs[d] = 0, runs'[d] > 0
        PROVE  runs'[c] > 0
    <3>1. d = h
      BY <1>4, <2>2
    <3>2. c \notin Held(p)
      <4>1. c \in Int /\ d \in Int
        BY Ids DEF PInv
      <4> QED BY <1>3, <2>2, <3>1, <4>1
    <3>3. runs[c] > 0
      BY <1>3, <2>2, <3>1, <3>2 DEF PInv, OrderInv
    <3> QED BY <1>4, <1>9, <3>3
  <2>3. ASSUME NEW c \in DOMAIN commands, NEW d \in DOMAIN commands,
               d \in Held(p)', c < d, c \notin Held(p)'
        PROVE  runs'[c] > 0
    <3>1. runs[c] > 0
      BY <1>7, <2>3 DEF PInv, OrderInv
    <3> QED BY <1>4, <1>9, <3>1
  <2>4. runs'[Current(p)'] > 0
    BY <1>3, <1>4, <1>7, <1>9
  <2> QED BY <1>1, <1>5, <1>7, <2>1, <2>2, <2>3, <2>4, OrderKept DEF PInv
<1>11. CountInv'
  <2> SUFFICES ASSUME NEW c \in DOMAIN commands
               PROVE  /\ runs'[c] + Cardinality(Will(c)') <= lost'[c] + Cardinality(Pollers)
                      /\ c \in Pending' => runs'[c] <= lost'[c] + Cardinality(Ran(c)')
    BY <1>1 DEF CountInv
  <2>1. /\ p \notin Ran(c) /\ (p \in Ran(c)' <=> c = h)
        /\ p \in Will(c) <=> c \in Held(p)
        /\ p \in Will(c)' <=> c \in Held(p) /\ c # h
    BY <1>7, <1>8 DEF Ran, Will
  <2>2. runs'[c] - runs[c] = One(c = h) /\ runs'[c] \in Nat /\ lost'[c] \in Nat /\ lost'[c] - lost[c] = 0
    BY <1>1, <1>4, <1>9 DEF One
  <2>3. /\ One(p \in Ran(c)) = 0 /\ One(p \in Ran(c)') = One(c = h)
        /\ One(c = h) + One(p \in Will(c)') = One(p \in Will(c))
    BY <1>3, <2>1 DEF One
  <2>4. One(c = h) \in Nat /\ One(p \in Will(c)') \in Nat /\ One(p \in Will(c)) \in Nat
    BY DEF One
  <2>5. /\ runs'[c] - runs[c] + One(p \in Will(c)') <= lost'[c] - lost[c] + One(p \in Will(c))
        /\ runs'[c] - runs[c] + One(p \in Ran(c)) <= lost'[c] - lost[c] + One(p \in Ran(c)')
    BY <2>2, <2>3, <2>4
  <2> QED BY <1>5, <1>7, <2>2, <2>5, Balance DEF PInv
<1> QED BY <1>5, <1>7, <1>10, <1>11 DEF PInv

\* The command in hand, which p has run, is let go: marked, or lost once more.
LEMMA PInvDrop ==
    ASSUME PInv, NEW p \in Pollers, HasRun(p), ~HasRun(p)', QueueInv', Alone(p),
           Held(p)' = Held(p) \ {Current(p)}, runs' = runs, TableInv',
           DOMAIN commands' = DOMAIN commands,
           \/ Pending' = Pending \ {Current(p)} /\ lost' = lost
           \/ Pending' = Pending /\ lost' = [lost EXCEPT ![Current(p)] = @ + 1]
    PROVE  PInv'
<1> DEFINE h == Current(p)
<1>1. at[p] # "idle"
  BY DEF HasRun
<1>2. h \in DOMAIN commands /\ runs[h] > 0
  BY <1>1, CurrentIsOldest DEF PInv, OrderInv
<1>3. \A c \in DOMAIN commands : /\ runs[c] \in Nat /\ lost[c] \in Nat
                                 /\ runs'[c] \in Nat /\ lost'[c] \in Nat
  BY Ids DEF PInv, TableInv
<1>4. \A c \in DOMAIN commands : c \notin Pending' => c \notin Pending \/ c = h
  OBVIOUS
<1>5. \A c \in DOMAIN commands : lost'[c] >= lost[c] /\ (h \in Pending' => lost'[h] = lost[h] + 1)
  <2>1. CASE lost' = lost /\ h \notin Pending'
    BY <1>3, <2>1
  <2>2. CASE lost' = [lost EXCEPT ![h] = @ + 1]
    <3>1. lost \in Seq(Nat) /\ h \in DOMAIN lost /\ DOMAIN lost = DOMAIN commands
      BY <1>2, Ids DEF PInv, TableInv
    <3> HIDE DEF h
    <3>2. \A c \in DOMAIN lost : lost'[c] = IF c = h THEN lost[c] + 1 ELSE lost[c]
      BY <2>2, <3>1, OneMore
    <3> QED BY <1>2, <1>3, <3>1, <3>2
  <2> QED BY <2>1, <2>2
<1> HIDE DEF h
<1>6. OrderInv'
  <2>1. /\ \A c \in DOMAIN commands : runs'[c] \in Nat /\ runs'[c] >= runs[c]
        /\ \A c, d \in DOMAIN commands : c < d /\ runs[d] = 0 /\ runs'[d] > 0 => runs'[c] > 0
    BY <1>3
  <2>2. \A c, d \in DOMAIN commands : d \in Held(p)' /\ c < d /\ c \notin Held(p)' => runs'[c] > 0
    BY <1>2 DEF PInv, OrderInv, h
  <2>3. \A c \in DOMAIN commands : c \notin Pending' => c \notin Pending \/ runs'[c] > 0
    BY <1>2, <1>4
  <2> QED BY <2>1, <2>2, <2>3, OrderKept DEF PInv
<1>7. CountInv'
  <2> SUFFICES ASSUME NEW c \in DOMAIN commands
               PROVE  /\ runs'[c] + Cardinality(Will(c)') <= lost'[c] + Cardinality(Pollers)
                      /\ c \in Pending' => runs'[c] <= lost'[c] + Cardinality(Ran(c)')
    BY DEF CountInv
  <2>1. /\ One(p \in Will(c)') = One(p \in Will(c))
        /\ One(p \in Ran(c)') = 0 /\ One(p \in Ran(c)) = One(c = h)
    BY DropCounts DEF PInv, h
  <2>2. One(p \in Will(c)) \in Nat /\ One(c = h) = (IF c = h THEN 1 ELSE 0)
    BY DEF One
  <2>3. runs'[c] - runs[c] + One(p \in Will(c)') <= lost'[c] - lost[c] + One(p \in Will(c))
    BY <1>3, <1>5, <2>1, <2>2
  <2>4. c \in Pending' => /\ c \in Pending
                          /\ runs'[c] - runs[c] + One(p \in Ran(c))
                                 <= lost'[c] - lost[c] + One(p \in Ran(c)')
    <3>1. c \in Pending' => c \in Pending
      OBVIOUS
    <3>2. c \in Pending' /\ c = h => lost'[c] = lost[c] + 1
      BY <1>5
    <3> QED BY <1>3, <1>5, <2>1, <2>2, <3>1, <3>2
  <2> QED BY <1>3, <2>3, <2>4, Balance DEF PInv
<1> QED BY <1>6, <1>7 DEF PInv

LEMMA PInvMark ==
    ASSUME PInv, NEW p \in Pollers, Mark(p) \/ Remark(p)
    PROVE  PInv'
<1>1. /\ HasRun(p) /\ at[p] # "idle" /\ NextCommand(p) /\ UNCHANGED <<runs, lost>>
      /\ \E s \in {"done", "error"} : SetStatus(p, s)
  BY DEF Mark, Remark, HasRun
<1>2. /\ commands' \in Seq([req : Requests, status : Marked])
      /\ Len(commands') = Len(commands) /\ DOMAIN commands' = DOMAIN commands
      /\ Pending' = Pending \ {Current(p)}
  BY <1>1, MarkWrites DEF PInv
<1>3. TableInv'
  BY <1>1, <1>2 DEF PInv, TableInv
<1>4. QueueInv' /\ Alone(p) /\ Held(p)' = Held(p) \ {Current(p)} /\ ~HasRun(p)'
  BY <1>1, <1>2, NextCommandDrops DEF PInv
<1> QED BY <1>1, <1>2, <1>3, <1>4, PInvDrop

LEMMA PInvRemarkFails ==
    ASSUME PInv, NEW p \in Pollers, RemarkFails(p)
    PROVE  PInv'
<1>1. /\ HasRun(p) /\ at[p] # "idle" /\ NextCommand(p) /\ UNCHANGED <<commands, runs>>
      /\ lost' = [lost EXCEPT ![Current(p)] = @ + 1]
  BY DEF RemarkFails, HasRun
<1>2. Pending' = Pending
  BY <1>1 DEF Pending
<1>3. TableInv'
  <2> DEFINE h == Current(p)
  <2>1. lost \in Seq(Nat) /\ h \in DOMAIN lost
    BY <1>1, CurrentIsOldest, Ids DEF PInv, TableInv
  <2> HIDE DEF h
  <2>2. lost' = [lost EXCEPT ![h] = @ + 1]
    BY <1>1 DEF h
  <2>3. lost' \in Seq(Nat) /\ Len(lost') = Len(lost)
    BY <2>1, <2>2, OneMore
  <2> QED BY <1>1, <2>3 DEF PInv, TableInv
<1>4. QueueInv' /\ Alone(p) /\ Held(p)' = Held(p) \ {Current(p)} /\ ~HasRun(p)'
  BY <1>1, NextCommandDrops DEF PInv
<1> QED BY <1>1, <1>2, <1>3, <1>4, PInvDrop

\* The mark raises: p keeps the command in hand, which may have been marked.
LEMMA PInvMarkFails ==
    ASSUME PInv, NEW p \in Pollers, MarkFails(p)
    PROVE  PInv'
<1>1. /\ at[p] = "mark" /\ HasRun(p) /\ UNCHANGED <<queue, verdict, runs, lost>>
      /\ at' = [at EXCEPT ![p] = "remark"]
      /\ commands' = commands \/ \E s \in {"done", "error"} : SetStatus(p, s)
  BY DEF MarkFails, HasRun
<1>2. /\ commands' \in Seq([req : Requests, status : Marked])
      /\ Len(commands') = Len(commands) /\ DOMAIN commands' = DOMAIN commands
      /\ Pending' = Pending \/ Pending' = Pending \ {Current(p)}
  <2>1. CASE commands' = commands
    BY <2>1 DEF PInv, TableInv, Pending
  <2>2. CASE \E s \in {"done", "error"} : SetStatus(p, s)
    BY <1>1, <2>2, MarkWrites DEF PInv
  <2> QED BY <1>1, <2>1, <2>2
<1>3. TableInv'
  BY <1>1, <1>2 DEF PInv, TableInv
<1>4. /\ QueueInv' /\ Alone(p) /\ at'[p] = "remark" /\ queue'[p] = queue[p]
  <2> DEFINE q == queue[p]
             v == verdict[p]
  <2>1. /\ q \in Seq(DOMAIN commands) /\ Sorted(q) /\ q # <<>>
        /\ v \in {"none", "ok", "error", "raised"}
        /\ queue' = [queue EXCEPT ![p] = q] /\ verdict' = [verdict EXCEPT ![p] = v]
    BY <1>1 DEF PInv, QueueInv
  <2> HIDE DEF q, v
  <2>2. QueueInv' /\ Alone(p) /\ at'[p] = "remark" /\ queue'[p] = q
    <3> DEFINE a == "remark"
    <3>1. /\ a \in {"idle", "run", "mark", "remark"} /\ (a = "idle" <=> q = <<>>)
          /\ at' = [at EXCEPT ![p] = a]
      BY <1>1, <2>1
    <3>2. TableInv /\ QueueInv /\ DOMAIN commands' = DOMAIN commands
      BY <1>2 DEF PInv
    <3> HIDE DEF a
    <3>3. QueueInv' /\ Alone(p) /\ at'[p] = a /\ queue'[p] = q
      BY <2>1, <3>1, <3>2, QueueMoves
    <3> QED BY <3>3 DEF a
  <2> QED BY <2>2 DEF q
<1>5. Held(p)' = Held(p) /\ Current(p)' = Current(p) /\ HasRun(p)'
  BY <1>4 DEF Held, Current, HasRun
<1>6. Current(p) \in DOMAIN commands /\ runs[Current(p)] > 0
  BY <1>1, CurrentIsOldest DEF PInv, OrderInv
<1>7. \A c \in DOMAIN commands : runs[c] \in Nat /\ lost[c] \in Nat
  BY Ids DEF PInv
<1>8. OrderInv'
  <2>1. /\ \A c \in DOMAIN commands : runs'[c] \in Nat /\ runs'[c] >= runs[c]
        /\ \A c, d \in DOMAIN commands : c < d /\ runs[d] = 0 /\ runs'[d] > 0 => runs'[c] > 0
    BY <1>1, <1>7
  <2>2. \A c, d \in DOMAIN commands : d \in Held(p)' /\ c < d /\ c \notin Held(p)' => runs'[c] > 0
    BY <1>1, <1>5 DEF PInv, OrderInv
  <2>3. \A c \in DOMAIN commands : c \notin Pending' => c \notin Pending \/ runs'[c] > 0
    BY <1>1, <1>2, <1>6
  <2>4. runs'[Current(p)'] > 0
    BY <1>1, <1>5, <1>6
  <2> QED BY <1>2, <1>4, <2>1, <2>2, <2>3, <2>4, OrderKept DEF PInv
<1>9. CountInv'
  <2> SUFFICES ASSUME NEW c \in DOMAIN commands
               PROVE  /\ runs'[c] + Cardinality(Will(c)') <= lost'[c] + Cardinality(Pollers)
                      /\ c \in Pending' => runs'[c] <= lost'[c] + Cardinality(Ran(c)')
    BY <1>2 DEF CountInv
  <2>1. (p \in Ran(c)' <=> p \in Ran(c)) /\ (p \in Will(c)' <=> p \in Will(c))
    BY <1>1, <1>5 DEF Ran, Will
  <2>2. One(p \in Ran(c)') = One(p \in Ran(c)) /\ One(p \in Will(c)') = One(p \in Will(c))
    BY <2>1 DEF One
  <2>3. One(p \in Ran(c)) \in Nat /\ One(p \in Will(c)) \in Nat
    BY DEF One
  <2>4. /\ runs'[c] \in Nat /\ lost'[c] \in Nat /\ runs'[c] = runs[c] /\ lost'[c] = lost[c]
    BY <1>1, <1>7
  <2>5. c \in Pending' => c \in Pending
    BY <1>2
  <2>6. /\ runs'[c] - runs[c] + One(p \in Will(c)') <= lost'[c] - lost[c] + One(p \in Will(c))
        /\ runs'[c] - runs[c] + One(p \in Ran(c)) <= lost'[c] - lost[c] + One(p \in Ran(c)')
    BY <2>2, <2>3, <2>4
  <2> QED BY <1>4, <2>4, <2>5, <2>6, Balance DEF PInv
<1> QED BY <1>3, <1>4, <1>8, <1>9 DEF PInv

\* The poller dies: what it would have run it will not, what it ran is lost once more.
LEMMA PInvCrash ==
    ASSUME PInv, NEW p \in Pollers, PollerCrash(p)
    PROVE  PInv'
<1> DEFINE h == Current(p)
<1>1. /\ at[p] # "idle" /\ UNCHANGED <<commands, runs>>
      /\ lost' = IF at[p] = "run" THEN lost ELSE [lost EXCEPT ![h] = @ + 1]
      /\ at' = [at EXCEPT ![p] = "idle"] /\ queue' = [queue EXCEPT ![p] = <<>>]
      /\ verdict' = [verdict EXCEPT ![p] = "none"]
  BY DEF PollerCrash
<1>2. HasRun(p) <=> at[p] # "run"
  BY <1>1 DEF HasRun, PInv, QueueInv
<1>3. h \in DOMAIN commands /\ h \in Held(p) /\ Pending' = Pending /\ DOMAIN commands' = DOMAIN commands
  BY <1>1, CurrentIsOldest DEF PInv, Pending
<1>4. \A c \in DOMAIN commands : runs[c] \in Nat /\ lost[c] \in Nat
  BY Ids DEF PInv
<1>5. /\ lost' \in Seq(Nat) /\ Len(lost') = Len(lost)
      /\ \A c \in DOMAIN commands : lost'[c] = lost[c] + One(HasRun(p) /\ c = h)
  <2>1. CASE at[p] = "run"
    BY <1>1, <1>2, <1>4, <2>1 DEF PInv, TableInv, One
  <2>2. CASE at[p] # "run"
    <3>1. lost \in Seq(Nat) /\ h \in DOMAIN lost /\ DOMAIN lost = DOMAIN commands
      BY <1>3, Ids DEF PInv, TableInv
    <3> HIDE DEF h
    <3>2. /\ lost' \in Seq(Nat) /\ Len(lost') = Len(lost)
          /\ \A c \in DOMAIN lost : lost'[c] = IF c = h THEN lost[c] + 1 ELSE lost[c]
      BY <1>1, <2>2, <3>1, OneMore
    <3> QED BY <1>2, <1>4, <2>2, <3>1, <3>2 DEF One
  <2> QED BY <2>1, <2>2
<1>6. TableInv'
  BY <1>1, <1>5 DEF PInv, TableInv
<1>7. QueueInv' /\ Alone(p) /\ at'[p] = "idle" /\ Held(p)' = {}
  <2>1. <<>> \in Seq(DOMAIN commands) /\ Sorted(<<>>) /\ Elements(<<>>) = {}
    BY DEF Sorted, Elements
  <2>2. QueueInv' /\ Alone(p) /\ at'[p] = "idle" /\ Held(p)' = Elements(<<>>)
    BY <1>1, <1>3, <2>1, QueueMoves DEF PInv
  <2> QED BY <2>1, <2>2
<1>8. ~HasRun(p)'
  BY <1>7 DEF HasRun
<1> HIDE DEF h
<1>9. OrderInv'
  <2>1. /\ \A c \in DOMAIN commands : runs'[c] \in Nat /\ runs'[c] >= runs[c]
        /\ \A c, d \in DOMAIN commands : c < d /\ runs[d] = 0 /\ runs'[d] > 0 => runs'[c] > 0
    BY <1>1, <1>4
  <2>2. \A c, d \in DOMAIN commands : d \in Held(p)' /\ c < d /\ c \notin Held(p)' => runs'[c] > 0
    BY <1>7
  <2>3. \A c \in DOMAIN commands : c \notin Pending' => c \notin Pending \/ runs'[c] > 0
    BY <1>3
  <2> QED BY <1>3, <1>7, <1>8, <2>1, <2>2, <2>3, OrderKept DEF PInv
<1>10. CountInv'
  <2> SUFFICES ASSUME NEW c \in DOMAIN commands
               PROVE  /\ runs'[c] + Cardinality(Will(c)') <= lost'[c] + Cardinality(Pollers)
                      /\ c \in Pending' => runs'[c] <= lost'[c] + Cardinality(Ran(c)')
    BY <1>1 DEF CountInv
  <2>1. /\ p \notin Ran(c)' /\ p \notin Will(c)' /\ (p \in Ran(c) <=> HasRun(p) /\ c = h)
    BY <1>7, <1>8 DEF Ran, Will, h
  <2>2. /\ One(p \in Ran(c)') = 0 /\ One(p \in Will(c)') = 0
        /\ One(p \in Ran(c)) = One(HasRun(p) /\ c = h)
    BY <2>1 DEF One
  <2>3. One(HasRun(p) /\ c = h) \in Nat /\ One(p \in Will(c)) \in Nat
    BY DEF One
  <2>4. /\ runs'[c] \in Nat /\ lost'[c] \in Nat /\ runs'[c] = runs[c]
        /\ lost'[c] = lost[c] + One(HasRun(p) /\ c = h)
    BY <1>1, <1>4, <1>5, <2>3
  <2>5. /\ runs'[c] - runs[c] + One(p \in Will(c)') <= lost'[c] - lost[c] + One(p \in Will(c))
        /\ runs'[c] - runs[c] + One(p \in Ran(c)) <= lost'[c] - lost[c] + One(p \in Ran(c)')
    BY <1>4, <2>2, <2>3, <2>4
  <2> QED BY <1>3, <1>7, <2>4, <2>5, Balance DEF PInv
<1> QED BY <1>6, <1>7, <1>9, <1>10 DEF PInv

\* PInv is inductive.
LEMMA PInvNext == PInv /\ [Next]_vars => PInv'
<1> SUFFICES ASSUME PInv, [Next]_vars PROVE PInv'
  OBVIOUS
<1>1. CASE BoardNext /\ UNCHANGED <<founderSet, pollVars>>
  BY <1>1, PInvStays DEF pollVars
<1>2. CASE Enqueue
  BY <1>2, PInvEnqueue
<1>3. ASSUME NEW r \in Refs, RequestApproval(r) \/ Reply(r)
      PROVE  PInv'
  BY <1>3, PInvStays DEF RequestApproval, Reply
<1>4. ASSUME NEW p \in Pollers, Poll(p) \/ MarkFails(p) \/ RemarkFails(p) \/ PollerCrash(p)
      PROVE  PInv'
  BY <1>4, PInvFetch, PInvProcess, PInvMark, PInvMarkFails, PInvRemarkFails, PInvCrash DEF Poll
<1>5. CASE UNCHANGED vars
  BY <1>5, PInvStays DEF vars, pollVars
<1> QED BY <1>1, <1>2, <1>3, <1>4, <1>5 DEF Next

THEOREM QueueShape == Spec => []PInv
<1> QED BY PInvInit, PInvNext, PTL DEF Spec

\* Whatever overlaps, dies or is lost, a command runs at most once for each poller and
\* once more for each of its runs that ended without a mark.
THEOREM EveryRunIsExplained == Spec => []RunsExplained
<1>1. PInv => RunsExplained
  <2> SUFFICES ASSUME PInv, NEW c \in DOMAIN commands
               PROVE  runs[c] <= Cardinality(Pollers) + lost[c]
    BY DEF RunsExplained
  <2>1. runs[c] + Cardinality(Will(c)) <= lost[c] + Cardinality(Pollers)
    BY DEF PInv, CountInv
  <2>2. runs[c] \in Nat /\ lost[c] \in Nat
    BY Ids DEF PInv
  <2> QED BY <2>1, <2>2, CountedOnce
<1> QED BY <1>1, QueueShape, PTL

----------------------------------------------------------------------------
\* What the approvals read.

\* LastWordStands of one reference, which no other reference is about.
WordStands(r) ==
    (latest[r] # "none" /\ said[r] # <<>> /\ \A i \in DOMAIN said[r] : runs[said[r][i]] = 1) =>
        /\ \A i, j \in DOMAIN said[r] : i < j => said[r][i] < said[r][j]
        /\ latest[r] = IF commands[Last(said[r])].req.type = "approve" THEN "approved" ELSE "vetoed"

RefInv(r) ==
    /\ latest[r] \in {"none", "pending", "approved", "vetoed"}
    /\ said[r] \in Seq(DOMAIN commands)
    /\ \A i \in DOMAIN said[r] : runs[said[r][i]] > 0
    /\ WordStands(r)

LEMMA WordsByRef ==
    ASSUME WordsInv
    PROVE  /\ latest = [r \in Refs |-> latest[r]] /\ said = [r \in Refs |-> said[r]]
           /\ \A r \in Refs : RefInv(r)
<1>1. latest = [r \in Refs |-> latest[r]] /\ said = [r \in Refs |-> said[r]]
  BY DEF WordsInv
<1>2. \A r \in Refs : RefInv(r)
  BY DEF WordsInv, LastWordStands, RefInv, WordStands
<1> QED BY <1>1, <1>2

\* And back, after a step.
LEMMA WordsAfter ==
    ASSUME latest' = [r \in Refs |-> latest'[r]], said' = [r \in Refs |-> said'[r]],
           \A r \in Refs : RefInv(r)'
    PROVE  WordsInv'
<1>1. latest' \in [Refs -> {"none", "pending", "approved", "vetoed"}]
  BY DEF RefInv
<1>2. said' \in [Refs -> Seq(DOMAIN commands')]
  BY DEF RefInv
<1>3. /\ \A r \in Refs : \A i \in DOMAIN said'[r] : runs'[said'[r][i]] > 0
      /\ LastWordStands'
  BY DEF RefInv, WordStands, LastWordStands
<1> QED BY <1>1, <1>2, <1>3 DEF WordsInv

\* No row is lost or rewritten, and no run is forgotten.
Grown == /\ \A c \in DOMAIN commands : /\ c \in DOMAIN commands'
                                       /\ commands'[c].req = commands[c].req
                                       /\ runs'[c] \in Nat /\ runs'[c] >= runs[c]

\* A reference nobody speaks of stays as it is, whatever else is run.
LEMMA RefStays ==
    ASSUME TableInv, NEW r \in Refs, RefInv(r), Grown, latest'[r] = latest[r], said'[r] = said[r]
    PROVE  RefInv(r)'
<1>1. \A c \in DOMAIN commands : runs[c] \in Nat
  BY Ids
<1>2. \A i \in DOMAIN said[r] : said[r][i] \in DOMAIN commands
  BY DEF RefInv
<1>3. said[r] \in Seq(DOMAIN commands')
  <2> DEFINE s == said[r]
             D == DOMAIN commands
             E == DOMAIN commands'
  <2>1. s \in Seq(D) /\ D \subseteq E
    BY DEF RefInv, Grown
  <2> HIDE DEF s, D, E
  <2>2. s \in Seq(E)
    BY <2>1, SeqMonotonic
  <2> QED BY <2>2 DEF s, E
<1>4. \A i \in DOMAIN said[r] : runs'[said[r][i]] > 0
  BY <1>1, <1>2 DEF RefInv, Grown
<1>5. ASSUME latest[r] # "none", said[r] # <<>>, \A i \in DOMAIN said[r] : runs'[said[r][i]] = 1
      PROVE  /\ \A i, j \in DOMAIN said[r] : i < j => said[r][i] < said[r][j]
             /\ latest[r] = IF commands'[Last(said[r])].req.type = "approve" THEN "approved"
                                                                            ELSE "vetoed"
  <2>1. \A i \in DOMAIN said[r] : runs[said[r][i]] = 1
    BY <1>1, <1>2, <1>5 DEF RefInv, Grown
  <2>2. /\ \A i, j \in DOMAIN said[r] : i < j => said[r][i] < said[r][j]
        /\ latest[r] = IF commands[Last(said[r])].req.type = "approve" THEN "approved" ELSE "vetoed"
    BY <1>5, <2>1 DEF RefInv, WordStands
  <2>3. Last(said[r]) \in DOMAIN commands
    BY <1>5 DEF RefInv, Last
  <2> QED BY <2>2, <2>3 DEF Grown
<1> QED BY <1>3, <1>4, <1>5 DEF RefInv, WordStands

LEMMA WordsStay ==
    ASSUME TableInv, WordsInv, Grown, UNCHANGED <<latest, said>>
    PROVE  WordsInv'
<1>1. \A r \in Refs : RefInv(r)'
  BY WordsByRef, RefStays
<1>2. latest' = [r \in Refs |-> latest'[r]] /\ said' = [r \in Refs |-> said'[r]]
  BY WordsByRef
<1> QED BY <1>1, <1>2, WordsAfter

\* A request or a direct reply: what was said before no longer counts.
LEMMA WordsErased ==
    ASSUME TableInv, WordsInv, Grown, NEW r \in Refs,
           NEW v \in {"none", "pending", "approved", "vetoed"},
           latest' = [latest EXCEPT ![r] = v], said' = [said EXCEPT ![r] = <<>>]
    PROVE  WordsInv'
<1>1. /\ latest' = [x \in Refs |-> latest'[x]] /\ said' = [x \in Refs |-> said'[x]]
      /\ latest'[r] = v /\ said'[r] = <<>>
      /\ \A x \in Refs \ {r} : latest'[x] = latest[x] /\ said'[x] = said[x]
  BY DEF WordsInv
<1>2. RefInv(r)'
  <2>1. /\ <<>> \in Seq(DOMAIN commands')
        /\ \A i \in DOMAIN <<>> : FALSE
    OBVIOUS
  <2> QED BY <1>1, <2>1 DEF RefInv, WordStands
<1>3. ASSUME NEW x \in Refs \ {r}
      PROVE  RefInv(x)'
  BY <1>1, WordsByRef, RefStays
<1>4. \A x \in Refs : RefInv(x)'
  BY <1>2, <1>3
<1> QED BY <1>1, <1>4, WordsAfter

\* A decision by the command that p has just run for the first time is the newest word.
LEMMA WordSpoken ==
    ASSUME PInv, WordsInv, Grown, NEW p \in Pollers, at[p] = "run",
           \A c \in DOMAIN commands : runs'[c] = IF c = Current(p) THEN runs[c] + 1 ELSE runs[c],
           Req(p).type \in {"approve", "veto"},
           Decide(Req(p).arg, Req(p).type = "approve"),
           said' = [said EXCEPT ![Req(p).arg] = Append(@, Current(p))]
    PROVE  WordsInv'
<1> DEFINE h == Current(p)
           r == Req(p).arg
           yes == IF Req(p).type = "approve" THEN "approved" ELSE "vetoed"
           s == Append(said[r], h)
<1>1. /\ h \in DOMAIN commands /\ h \in Held(p)
      /\ \A c \in Held(p) : c # h => h < c
  BY CurrentIsOldest DEF PInv
<1>2. \A c \in DOMAIN commands : runs[c] \in Nat /\ c \in Int
  BY Ids DEF PInv
<1>3. /\ latest' = [latest EXCEPT ![r] = IF latest[r] = "none" THEN "none" ELSE yes]
      /\ said' = [said EXCEPT ![r] = s]
  BY DEF Decide
<1>4. latest' = [x \in Refs |-> latest'[x]] /\ said' = [x \in Refs |-> said'[x]]
  BY <1>3 DEF WordsInv
<1>5. ASSUME NEW x \in Refs, x # r
      PROVE  RefInv(x)'
  <2>1. latest'[x] = latest[x] /\ said'[x] = said[x]
    BY <1>3, <1>5 DEF WordsInv
  <2> HIDE DEF r
  <2> QED BY <2>1, WordsByRef, RefStays DEF PInv
<1>6. ASSUME NEW x \in Refs, x = r
      PROVE  RefInv(x)'
  <2>1. /\ latest'[r] = (IF latest[r] = "none" THEN "none" ELSE yes) /\ said'[r] = s
        /\ latest[r] \in {"none", "pending", "approved", "vetoed"}
        /\ said[r] \in Seq(DOMAIN commands)
        /\ RefInv(r)
    BY <1>3, <1>6, WordsByRef DEF WordsInv
  <2>2. yes \in {"approved", "vetoed"}
    OBVIOUS
  <2>3. commands'[h].req.type = "approve" <=> Req(p).type = "approve"
    BY <1>1 DEF Grown, Req
  <2> DEFINE n == Len(said[r])
             t == said[r]
  <2> HIDE DEF h
  <2>4. /\ s \in Seq(DOMAIN commands) /\ Len(s) = n + 1 /\ n \in Nat /\ DOMAIN s = 1..(n + 1)
        /\ s[n + 1] = h /\ \A i \in 1..n : s[i] = t[i]
    BY <1>1, <2>1, AppendProperties
  <2>5. \A i \in 1..n : t[i] \in DOMAIN commands /\ runs[t[i]] > 0
    BY <2>1 DEF RefInv
  <2> HIDE DEF r, s, n, t, yes
  <2>6. /\ s \in Seq(DOMAIN commands') /\ s # <<>> /\ Last(s) = h
    <3>1. DOMAIN commands \subseteq DOMAIN commands'
      BY DEF Grown
    <3>2. s \in Seq(DOMAIN commands')
      BY <2>4, <3>1, SeqMonotonic
    <3> QED BY <2>4, <3>2 DEF Last
  <2>7. \A i \in DOMAIN s : runs'[s[i]] > 0
    <3>1. runs'[h] > 0
      BY <1>1, <1>2 DEF h
    <3>2. \A i \in 1..n : runs'[t[i]] > 0
      BY <1>2, <2>5 DEF Grown
    <3> QED BY <2>4, <3>1, <3>2
  <2>8. ASSUME latest'[r] # "none", \A i \in DOMAIN s : runs'[s[i]] = 1
        PROVE  /\ \A i, j \in DOMAIN s : i < j => s[i] < s[j]
               /\ latest'[r] = IF commands'[Last(s)].req.type = "approve" THEN "approved" ELSE "vetoed"
    <3>1. runs[h] = 0
      <4>1. runs'[h] = 1
        BY <2>4, <2>8
      <4>2. runs'[h] = runs[h] + 1
        BY <1>1 DEF h
      <4> QED BY <1>1, <1>2, <4>1, <4>2 DEF h
    <3>2. h \in DOMAIN commands /\ h \in Int
      BY <1>1, <1>2 DEF h
    <3>3. ASSUME NEW i \in 1..n
          PROVE  t[i] < h /\ runs[t[i]] = 1
      <4>1. t[i] # h
        BY <2>5, <3>1
      <4>2. ~(h < t[i])
        BY <2>5, <3>1, <3>2 DEF PInv, OrderInv
      <4>3. runs[t[i]] = runs'[t[i]]
        BY <2>5, <4>1 DEF h
      <4>4. runs'[t[i]] = 1
        BY <2>4, <2>8
      <4> QED BY <1>2, <2>5, <3>2, <4>1, <4>2, <4>3, <4>4
    <3>4. \A i, j \in 1..n : i < j => t[i] < t[j]
      <4>1. CASE n = 0
        BY <4>1
      <4>2. CASE n # 0
        <5>1. t # <<>> /\ DOMAIN t = 1..n
          BY <2>1, <2>4, <4>2 DEF n, t
        <5>2. latest[r] # "none"
          BY <2>1, <2>8
        <5> QED BY <2>1, <3>3, <5>1, <5>2 DEF RefInv, WordStands, t
      <4> QED BY <4>1, <4>2
    <3>5. \A i, j \in DOMAIN s : i < j => s[i] < s[j]
      BY <2>4, <3>3, <3>4
    <3>6. latest'[r] = yes
      BY <2>1, <2>8
    <3> QED BY <2>3, <2>6, <3>5, <3>6 DEF yes
  <2>9. latest'[r] \in {"none", "pending", "approved", "vetoed"}
    BY <2>1, <2>2
  <2>10. /\ latest'[x] \in {"none", "pending", "approved", "vetoed"} /\ said'[x] = s
         /\ s \in Seq(DOMAIN commands') /\ \A i \in DOMAIN s : runs'[s[i]] > 0
    BY <1>6, <2>1, <2>6, <2>7, <2>9
  <2>11. (latest'[x] # "none" /\ \A i \in DOMAIN s : runs'[s[i]] = 1) =>
            /\ \A i, j \in DOMAIN s : i < j => s[i] < s[j]
            /\ latest'[x] = IF commands'[Last(s)].req.type = "approve" THEN "approved" ELSE "vetoed"
    BY <1>6, <2>8
  <2> QED BY <2>10, <2>11 DEF RefInv, WordStands
<1> HIDE DEF r
<1>7. \A x \in Refs : RefInv(x)'
  BY <1>5, <1>6
<1> QED BY <1>4, <1>7, WordsAfter

\* What running one command may touch, by its type.
LEMMA ProcessDoes ==
    ASSUME PInv, NEW p \in Pollers, Process(p)
    PROVE  /\ at[p] = "run" /\ UNCHANGED <<commands, queue, founderSet>>
           /\ \A c \in DOMAIN commands : runs'[c] = IF c = Current(p) THEN runs[c] + 1 ELSE runs[c]
           /\ \/ /\ Req(p).type \in {"approve", "veto"}
                 /\ Decide(Req(p).arg, Req(p).type = "approve")
                 /\ said' = [said EXCEPT ![Req(p).arg] = Append(@, Current(p))]
                 /\ UNCHANGED <<boardVars, paused>>
              \/ /\ Req(p).type \in {"pause_desk", "resume_desk"} /\ MayRun(Req(p))
                 /\ paused' = IF Req(p).type = "pause_desk" THEN paused \cup {Req(p).arg}
                                                             ELSE paused \ {Req(p).arg}
                 /\ UNCHANGED <<boardVars, latest, said>>
              \/ /\ Req(p).type \in ProposalTypes /\ MayRun(Req(p))
                 /\ \E took \in BOOLEAN :
                       /\ IF Req(p).type = "prioritize_proposal"
                          THEN PrioritizeProposal(Req(p).arg, took)
                          ELSE DecideProposal(Req(p).arg, Req(p).type = "approve_proposal", took)
                       /\ verdict'[p] = IF took THEN "ok" ELSE "error"
                 /\ UNCHANGED <<latest, said, paused>>
              \/ /\ verdict'[p] = "ok" => Req(p).type \notin ProposalTypes
                 /\ UNCHANGED <<boardVars, latest, said, paused>>
<1> DEFINE h == Current(p)
           q == Req(p)
           steers == q.type \in ProposalTypes /\ MayRun(q) /\ q.arg # NoArg
<1>1. /\ at[p] = "run" /\ UNCHANGED <<commands, queue, founderSet>>
      /\ runs' = [runs EXCEPT ![h] = @ + 1]
      /\ \/ /\ ~steers
            /\ \E v \in Answers(q) : verdict' = [verdict EXCEPT ![p] = v] /\ Effect(p, q, v)
         \/ /\ steers
            /\ \E took \in BOOLEAN :
                  /\ IF q.type = "prioritize_proposal" THEN PrioritizeProposal(q.arg, took)
                     ELSE DecideProposal(q.arg, q.type = "approve_proposal", took)
                  /\ verdict' = [verdict EXCEPT ![p] = IF took THEN "ok" ELSE "error"]
            /\ UNCHANGED <<latest, said, paused>>
  BY DEF Process
<1>2. \A c \in DOMAIN commands : runs'[c] = IF c = h THEN runs[c] + 1 ELSE runs[c]
  <2>1. h \in DOMAIN commands /\ runs \in Seq(Nat) /\ DOMAIN runs = DOMAIN commands
    BY <1>1, CurrentIsOldest, Ids DEF PInv, TableInv
  <2> HIDE DEF h
  <2> QED BY <1>1, <2>1, OneMore
<1> HIDE DEF h, q
<1>3. CASE steers
  <2>1. PICK took \in BOOLEAN :
           /\ IF q.type = "prioritize_proposal" THEN PrioritizeProposal(q.arg, took)
              ELSE DecideProposal(q.arg, q.type = "approve_proposal", took)
           /\ verdict' = [verdict EXCEPT ![p] = IF took THEN "ok" ELSE "error"]
    BY <1>1, <1>3
  <2>2. verdict'[p] = IF took THEN "ok" ELSE "error"
    BY <2>1 DEF PInv, QueueInv
  <2>3. UNCHANGED <<latest, said, paused>> /\ q.type \in ProposalTypes /\ MayRun(q)
    BY <1>1, <1>3
  <2> QED BY <1>1, <1>2, <2>1, <2>2, <2>3 DEF q, h
<1>4. CASE ~steers
  <2>1. PICK v \in Answers(q) : verdict' = [verdict EXCEPT ![p] = v] /\ Effect(p, q, v)
    BY <1>1, <1>4
  <2>2. verdict'[p] = v
    BY <2>1 DEF PInv, QueueInv
  <2>3. v = "ok" => MayRun(q) /\ (q.arg # NoArg \/ q.type = "run_tick")
    <3>1. ASSUME ~MayRun(q) \/ (q.arg = NoArg /\ q.type # "run_tick")
          PROVE  v = "error"
      <4>1. Answers(q) = {"error"}
        BY <3>1 DEF Answers
      <4> QED BY <2>1, <4>1
    <3> QED BY <3>1
  <2>4. v = "ok" => q.type \notin ProposalTypes
    BY <1>4, <2>3 DEF ProposalTypes
  <2>5. CASE v = "ok" /\ q.type \in {"approve", "veto"}
    <3>1. /\ Decide(q.arg, q.type = "approve")
          /\ said' = [said EXCEPT ![q.arg] = Append(@, Current(p))]
          /\ UNCHANGED <<boardVars, paused>>
      BY <2>1, <2>5 DEF Effect
    <3> QED BY <1>1, <1>2, <2>5, <3>1 DEF q, h
  <2>6. CASE v = "ok" /\ q.type \in {"pause_desk", "resume_desk"}
    <3>1. /\ paused' = IF q.type = "pause_desk" THEN paused \cup {q.arg} ELSE paused \ {q.arg}
          /\ UNCHANGED <<boardVars, latest, said>>
      BY <2>1, <2>6 DEF Effect
    <3> QED BY <1>1, <1>2, <2>3, <2>6, <3>1 DEF q, h
  <2>7. CASE /\ ~(v = "ok" /\ q.type \in {"approve", "veto"})
             /\ ~(v = "ok" /\ q.type \in {"pause_desk", "resume_desk"})
    <3>1. UNCHANGED <<boardVars, latest, said, paused>>
      BY <2>1, <2>7 DEF Effect
    <3> QED BY <1>1, <1>2, <2>2, <2>4, <3>1 DEF q, h
  <2> QED BY <2>5, <2>6, <2>7
<1> QED BY <1>3, <1>4

\* No step loses a command, rewrites one, or configures another founder.
LEMMA TableGrows ==
    ASSUME PInv, [Next]_vars
    PROVE  Grown /\ founderSet' = founderSet
<1>0. \A c \in DOMAIN commands : runs[c] \in Nat
  BY Ids DEF PInv
<1>1. ASSUME UNCHANGED <<commands, runs>>
      PROVE  Grown
  BY <1>0, <1>1 DEF Grown
<1>2. CASE Enqueue
  <2>1. commands \in Seq([req : Requests, status : Marked]) /\ runs \in Seq(Nat) /\ Len(runs) = Len(commands)
    BY DEF PInv, TableInv
  <2>2. PICK row : commands' = Append(commands, row) /\ runs' = Append(runs, 0)
    BY <1>2 DEF Enqueue
  <2>3. \A c \in DOMAIN commands : c \in DOMAIN commands' /\ commands'[c] = commands[c] /\ runs'[c] = runs[c]
    BY <2>1, <2>2
  <2>4. Grown
    BY <1>0, <2>3 DEF Grown
  <2>5. founderSet' = founderSet
    BY <1>2 DEF Enqueue
  <2> QED BY <2>4, <2>5
<1>3. ASSUME NEW p \in Pollers, Process(p)
      PROVE  Grown /\ founderSet' = founderSet
  BY <1>0, <1>3, ProcessDoes DEF Grown
<1>4. ASSUME NEW p \in Pollers, Mark(p) \/ Remark(p) \/ MarkFails(p)
      PROVE  Grown /\ founderSet' = founderSet
  <2>1. /\ at[p] # "idle" /\ runs' = runs /\ founderSet' = founderSet
        /\ commands' = commands \/ \E s \in {"done", "error"} : SetStatus(p, s)
    BY <1>4 DEF Mark, Remark, MarkFails
  <2>2. ASSUME NEW s \in {"done", "error"}, SetStatus(p, s)
        PROVE  Grown
    BY <1>0, <2>1, <2>2, MarkWrites DEF Grown, PInv
  <2> QED BY <1>1, <2>1, <2>2
<1>5. ASSUME NEW p \in Pollers, Fetch(p) \/ RemarkFails(p) \/ PollerCrash(p)
      PROVE  Grown /\ founderSet' = founderSet
  BY <1>1, <1>5 DEF Fetch, RemarkFails, PollerCrash
<1>6. ASSUME NEW r \in Refs, RequestApproval(r) \/ Reply(r)
      PROVE  Grown /\ founderSet' = founderSet
  BY <1>1, <1>6 DEF RequestApproval, Reply
<1>7. CASE BoardNext /\ UNCHANGED <<founderSet, pollVars>>
  BY <1>1, <1>7 DEF pollVars
<1>8. CASE UNCHANGED vars
  BY <1>1, <1>8 DEF vars, pollVars
<1> QED BY <1>2, <1>3, <1>4, <1>5, <1>6, <1>7, <1>8 DEF Next, Poll

LEMMA WordsInvInit == Init => WordsInv
<1> SUFFICES ASSUME Init PROVE WordsInv
  OBVIOUS
<1>1. latest \in [Refs -> {"none", "pending"}] /\ said = [r \in Refs |-> <<>>]
  BY DEF Init, PollerInit
<1>2. said \in [Refs -> Seq(DOMAIN commands)] /\ \A r \in Refs : said[r] = <<>>
  BY <1>1
<1>3. latest \in [Refs -> {"none", "pending", "approved", "vetoed"}]
  BY <1>1
<1>4. \A r \in Refs : \A i \in DOMAIN said[r] : FALSE
  BY <1>2
<1> QED BY <1>2, <1>3, <1>4 DEF WordsInv, LastWordStands

LEMMA WordsInvNext == PInv /\ WordsInv /\ [Next]_vars => WordsInv'
<1> SUFFICES ASSUME PInv, WordsInv, [Next]_vars PROVE WordsInv'
  OBVIOUS
<1>1. Grown /\ TableInv
  BY TableGrows DEF PInv
<1>2. ASSUME NEW r \in Refs, RequestApproval(r)
      PROVE  WordsInv'
  <2>1. latest' = [latest EXCEPT ![r] = "pending"] /\ said' = [said EXCEPT ![r] = <<>>]
    BY <1>2 DEF RequestApproval
  <2> QED BY <1>1, <2>1, WordsErased
<1>3. ASSUME NEW r \in Refs, Reply(r)
      PROVE  WordsInv'
  <2>1. PICK yes \in BOOLEAN : Decide(r, yes) /\ said' = [said EXCEPT ![r] = <<>>]
    BY <1>3 DEF Reply
  <2> DEFINE v == IF latest[r] = "none" THEN "none" ELSE IF yes THEN "approved" ELSE "vetoed"
  <2>2. latest' = [latest EXCEPT ![r] = v] /\ v \in {"none", "pending", "approved", "vetoed"}
    BY <2>1 DEF Decide
  <2> HIDE DEF v
  <2> QED BY <1>1, <2>1, <2>2, WordsErased
<1>4. ASSUME NEW p \in Pollers, Process(p)
      PROVE  WordsInv'
  <2>1. CASE UNCHANGED <<latest, said>>
    BY <1>1, <2>1, WordsStay
  <2>2. CASE /\ Req(p).type \in {"approve", "veto"}
             /\ Decide(Req(p).arg, Req(p).type = "approve")
             /\ said' = [said EXCEPT ![Req(p).arg] = Append(@, Current(p))]
    BY <1>1, <1>4, <2>2, ProcessDoes, WordSpoken
  <2> QED BY <1>4, <2>1, <2>2, ProcessDoes
<1>5. CASE UNCHANGED <<latest, said>>
  BY <1>1, <1>5, WordsStay
<1>6. ASSUME NEW p \in Pollers,
             Fetch(p) \/ Mark(p) \/ Remark(p) \/ MarkFails(p) \/ RemarkFails(p) \/ PollerCrash(p)
      PROVE  UNCHANGED <<latest, said>>
  BY <1>6 DEF Fetch, Mark, Remark, MarkFails, RemarkFails, PollerCrash
<1>7. Enqueue \/ (BoardNext /\ UNCHANGED <<founderSet, pollVars>>) \/ UNCHANGED vars =>
          UNCHANGED <<latest, said>>
  BY DEF Enqueue, pollVars, vars
<1> QED BY <1>2, <1>3, <1>4, <1>5, <1>6, <1>7 DEF Next, Poll

----------------------------------------------------------------------------
\* What the founder steers.

AskedFor(t, x) == founderSet /\ \E c \in DOMAIN commands :
                      commands[c].req = [type |-> t, arg |-> x, from |-> "founder"]

\* Rows stay, and so do a decision and a rank; what is new is one of: nothing, a decision
\* or a rank of row x.
Onward(x) ==
    /\ \A i \in DOMAIN board :
          /\ i \in DOMAIN board'
          /\ board[i].status \in {"approved", "vetoed"} => board'[i].status = board[i].status
          /\ board[i].rank = TRUE => board'[i].rank = TRUE
    /\ \A i \in DOMAIN board' :
          /\ board'[i].status \in {"approved", "vetoed"} =>
                i = x \/ (i \in DOMAIN board /\ board[i].status = board'[i].status)
          /\ board'[i].rank = TRUE => i = x \/ (i \in DOMAIN board /\ board[i].rank = TRUE)

LEMMA RowTypes == BInv => \A i \in DOMAIN board : board[i] \in BoardRows
BY DEF BInv

LEMMA BuildsGoOn ==
    ASSUME BInv, [BoardNext]_boardVars, NEW x
    PROVE  BInv' /\ Onward(x)
<1>1. BInv'
  BY BInvNext DEF BoardStep
<1>2. UNCHANGED board => Onward(x)
  BY DEF Onward
<1>3. ASSUME NEW b \in Builders, Persist(b)
      PROVE  Onward(x)
  <2>1. \A i \in DOMAIN board : /\ i \in DOMAIN board' /\ board'[i].rank = board[i].rank
                                /\ board'[i].status \in {board[i].status, "expired"} \ {"proposed"}
                                /\ board[i].status # "proposed" => board'[i] = board[i]
    BY <1>3, PersistWrites
  <2>2. \A i \in DOMAIN board' \ DOMAIN board : board'[i].status = "proposed" /\ board'[i].rank = FALSE
    BY <1>3, PersistWrites
  <2>3. ASSUME NEW i \in DOMAIN board
        PROVE  /\ i \in DOMAIN board'
               /\ board[i].status \in {"approved", "vetoed"} => board'[i].status = board[i].status
               /\ board[i].rank = TRUE => board'[i].rank = TRUE
    BY <2>1
  <2>4. ASSUME NEW i \in DOMAIN board'
        PROVE  /\ board'[i].status \in {"approved", "vetoed"} =>
                     i = x \/ (i \in DOMAIN board /\ board[i].status = board'[i].status)
               /\ board'[i].rank = TRUE => i = x \/ (i \in DOMAIN board /\ board[i].rank = TRUE)
    <3>1. CASE i \in DOMAIN board
      BY <2>1, <3>1
    <3>2. CASE i \notin DOMAIN board
      BY <2>2, <3>2
    <3> QED BY <3>1, <3>2
  <2> QED BY <2>3, <2>4 DEF Onward
<1>4. ASSUME NEW b \in Builders, StartBuild(b) \/ Propose(b) \/ AbandonBuild(b)
      PROVE  UNCHANGED board
  BY <1>4 DEF StartBuild, Propose, AbandonBuild
<1>5. Turn \/ UNCHANGED boardVars => UNCHANGED board
  BY DEF Turn, boardVars
<1> QED BY <1>1, <1>2, <1>3, <1>4, <1>5 DEF BoardNext

\* A decision that takes is what it says, and touches nothing else.
LEMMA DecisionTakes ==
    ASSUME BInv, NEW x, NEW yes \in BOOLEAN, NEW took \in BOOLEAN, DecideProposal(x, yes, took)
    PROVE  /\ BInv' /\ Onward(x)
           /\ took => x \in DOMAIN board' /\ board'[x].status = IF yes THEN "approved" ELSE "vetoed"
           /\ \A i \in DOMAIN board' : i \in DOMAIN board /\ board'[i].rank = board[i].rank
           /\ \A i \in DOMAIN board' : board'[i].status # board[i].status => took /\ i = x
<1>1. CASE ~took
  <2>1. UNCHANGED boardVars
    BY <1>1 DEF DecideProposal, boardVars
  <2>2. BInv'
    BY <2>1, BInvNext
  <2> QED BY <1>1, <2>1, <2>2 DEF Onward, boardVars
<1>2. CASE took
  <2>1. /\ x \in DOMAIN board /\ board[x].status = "proposed" /\ DecideProposal(x, yes, Live(x))
        /\ board' = [board EXCEPT ![x].status = IF yes THEN "approved" ELSE "vetoed"]
    BY <1>2 DEF DecideProposal, Live
  <2>2. BInv'
    BY <2>1, BInvNext DEF BoardStep
  <2> DEFINE row == [board[x] EXCEPT !.status = IF yes THEN "approved" ELSE "vetoed"]
  <2>3. board[x] \in BoardRows
    BY <2>1, RowTypes
  <2>4. row.status = (IF yes THEN "approved" ELSE "vetoed") /\ row.rank = board[x].rank
    BY <2>3 DEF BoardRows
  <2>5. board' = [board EXCEPT ![x] = row]
    BY <2>1
  <2> HIDE DEF row
  <2>6. DOMAIN board' = DOMAIN board /\ \A i \in DOMAIN board : board'[i] = IF i = x THEN row ELSE board[i]
    BY <2>5 DEF BInv
  <2> QED BY <1>2, <2>1, <2>2, <2>4, <2>6 DEF Onward
<1> QED BY <1>1, <1>2

LEMMA RankTakes ==
    ASSUME BInv, NEW x, NEW took \in BOOLEAN, PrioritizeProposal(x, took)
    PROVE  /\ BInv' /\ Onward(x)
           /\ took => x \in DOMAIN board' /\ board'[x].rank = TRUE
           /\ \A i \in DOMAIN board' : i \in DOMAIN board /\ board'[i].status = board[i].status
<1>1. CASE ~took
  <2>1. UNCHANGED boardVars
    BY <1>1 DEF PrioritizeProposal, boardVars
  <2>2. BInv'
    BY <2>1, BInvNext
  <2> QED BY <1>1, <2>1, <2>2 DEF Onward, boardVars
<1>2. CASE took
  <2>1. /\ x \in DOMAIN board /\ PrioritizeProposal(x, Live(x))
        /\ board' = [board EXCEPT ![x].rank = TRUE]
    BY <1>2 DEF PrioritizeProposal, Live
  <2>2. BInv'
    BY <2>1, BInvNext DEF BoardStep
  <2> DEFINE row == [board[x] EXCEPT !.rank = TRUE]
  <2>3. board[x] \in BoardRows
    BY <2>1, RowTypes
  <2>4. row.rank = TRUE /\ row.status = board[x].status
    BY <2>3 DEF BoardRows
  <2>5. board' = [board EXCEPT ![x] = row]
    BY <2>1
  <2> HIDE DEF row
  <2>6. DOMAIN board' = DOMAIN board /\ \A i \in DOMAIN board : board'[i] = IF i = x THEN row ELSE board[i]
    BY <2>5 DEF BInv
  <2> QED BY <1>2, <2>1, <2>2, <2>4, <2>6 DEF Onward
<1> QED BY <1>1, <1>2

\* What was asked for has been asked for.
LEMMA AskedStays ==
    ASSUME Grown, founderSet' = founderSet, NEW t, NEW x, AskedFor(t, x)
    PROVE  AskedFor(t, x)'
BY DEF Grown, AskedFor

\* What a command has settled stays so.
LEMMA SettledStays ==
    ASSUME Grown, NEW x, Onward(x), NEW c \in DOMAIN commands, Settled(c)
    PROVE  Settled(c)'
BY DEF Grown, Onward, Settled, ProposalTypes

\* OnlyFounderSteers, row by row and desk by desk.
AskedRow(i) ==
    /\ board[i].status = "approved" => AskedFor("approve_proposal", i)
    /\ board[i].status = "vetoed" => AskedFor("veto_proposal", i)
    /\ board[i].rank = TRUE => AskedFor("prioritize_proposal", i)

LEMMA SteersByRow ==
    BInv /\ OnlyFounderSteers => /\ \A i \in DOMAIN board : AskedRow(i)
                                 /\ \A d \in paused : AskedFor("pause_desk", d)
BY DEF OnlyFounderSteers, AskedRow, AskedFor

LEMMA SteersAfter ==
    ASSUME BInv', \A i \in DOMAIN board' : AskedRow(i)', \A d \in paused' : AskedFor("pause_desk", d)'
    PROVE  OnlyFounderSteers'
<1>1. \A i \in DOMAIN board' : board'[i].rank \in BOOLEAN
  <2>1. \A i \in DOMAIN board' : board'[i] \in BoardRows
    BY DEF BInv
  <2> QED BY <2>1, Zenon DEF BoardRows
<1> QED BY <1>1 DEF OnlyFounderSteers, AskedRow, AskedFor

\* A step that decides nothing and ranks nothing leaves what was asked for.
LEMMA RowStays ==
    ASSUME BInv, \A i \in DOMAIN board : AskedRow(i), Grown, founderSet' = founderSet,
           NEW x, Onward(x), NEW i \in DOMAIN board', i # x
    PROVE  AskedRow(i)'
BY DEF AskedRow, AskedFor, Grown, Onward

\* What a step of one poller, or of nobody, leaves of SteersInv: its own verdict, the row
\* it was about, and what it paused are still to be shown.
LEMMA SteersKept ==
    ASSUME PInv, SteersInv, Grown, founderSet' = founderSet, BInv', NEW x, Onward(x),
           \A c \in DOMAIN commands' : commands'[c].status = "done" =>
               /\ c \in DOMAIN commands
               /\ commands[c].status = "done" \/ Settled(c),
           \A q \in Pollers : at'[q] = "mark" /\ verdict'[q] = "ok" =>
               \/ /\ at[q] = "mark" /\ verdict[q] = "ok" /\ queue'[q] = queue[q]
               \/ Settled(Current(q))',
           x \in DOMAIN board' => AskedRow(x)',
           \A d \in paused' : d \in paused \/ AskedFor("pause_desk", d)'
    PROVE  SteersInv'
<1>1. \A c \in DOMAIN commands' : commands'[c].status = "done" => Settled(c)'
  BY SettledStays DEF SteersInv
<1>2. ASSUME NEW q \in Pollers, at'[q] = "mark", verdict'[q] = "ok"
      PROVE  Settled(Current(q))'
  <2>1. CASE at[q] = "mark" /\ verdict[q] = "ok" /\ queue'[q] = queue[q]
    <3>1. Settled(Current(q)) /\ Current(q) \in DOMAIN commands
      BY <2>1, CurrentIsOldest DEF SteersInv, PInv
    <3>2. \A c \in DOMAIN commands : c = Current(q) => Settled(c)'
      BY <3>1, SettledStays
    <3>3. \A c \in DOMAIN commands : c = Current(q)' => Settled(c)'
      BY <2>1, <3>2 DEF Current
    <3>4. Current(q)' \in DOMAIN commands
      BY <2>1, <3>1 DEF Current
    <3> QED BY <3>3, <3>4 DEF Settled
  <2> QED BY <1>2, <2>1
<1>3. \A i \in DOMAIN board' : AskedRow(i)'
  BY SteersByRow, RowStays DEF SteersInv
<1>4. \A d \in paused' : AskedFor("pause_desk", d)'
  BY SteersByRow, AskedStays DEF SteersInv
<1>5. OnlyFounderSteers'
  BY <1>3, <1>4, SteersAfter
<1> QED BY <1>1, <1>2, <1>5 DEF SteersInv

\* A step that leaves the board, the desks and every mark alone.
LEMMA SteersStay ==
    ASSUME PInv, SteersInv, Grown, founderSet' = founderSet, [BoardNext]_boardVars, paused' = paused,
           \A c \in DOMAIN commands' : commands'[c].status = "done" =>
               /\ c \in DOMAIN commands
               /\ commands[c].status = "done" \/ Settled(c),
           \A q \in Pollers : at'[q] = "mark" /\ verdict'[q] = "ok" =>
               at[q] = "mark" /\ verdict[q] = "ok" /\ queue'[q] = queue[q]
    PROVE  SteersInv'
<1>1. BInv' /\ Onward(0)
  BY BuildsGoOn DEF SteersInv
<1>2. 0 \notin DOMAIN board'
  BY <1>1 DEF BInv
<1>3. /\ 0 \in DOMAIN board' => AskedRow(0)'
      /\ \A d \in paused' : d \in paused \/ AskedFor("pause_desk", d)'
  BY <1>2
<1> QED BY <1>1, <1>3, SteersKept

\* The pollers that do not move.
Still(p) == \A o \in Pollers \ {p} : queue'[o] = queue[o] /\ at'[o] = at[o] /\ verdict'[o] = verdict[o]

LEMMA SteersInvMark ==
    ASSUME PInv, SteersInv, Grown, founderSet' = founderSet, NEW p \in Pollers,
           Mark(p) \/ Remark(p) \/ MarkFails(p)
    PROVE  SteersInv'
<1>1. /\ at[p] # "idle" /\ paused' = paused /\ UNCHANGED boardVars
      /\ \/ commands' = commands
         \/ SetStatus(p, "error")
         \/ at[p] = "mark" /\ SetStatus(p, IF verdict[p] = "ok" THEN "done" ELSE "error")
  BY DEF Mark, Remark, MarkFails
<1>2. Still(p) /\ at'[p] # "mark"
  <2>1. CASE MarkFails(p)
    BY <2>1 DEF MarkFails, PInv, QueueInv, Still
  <2>2. CASE Mark(p) \/ Remark(p)
    <3>1. NextCommand(p)
      BY <2>2 DEF Mark, Remark
    <3> QED BY <3>1 DEF NextCommand, PInv, QueueInv, Still
  <2> QED BY <2>1, <2>2
<1>3. ASSUME NEW c \in DOMAIN commands', commands'[c].status = "done"
      PROVE  c \in DOMAIN commands /\ (commands[c].status = "done" \/ Settled(c))
  <2>1. CASE commands' = commands
    BY <1>3, <2>1
  <2>2. ASSUME NEW s \in {"done", "error"}, SetStatus(p, s),
               s = "done" => at[p] = "mark" /\ verdict[p] = "ok"
        PROVE  c \in DOMAIN commands /\ (commands[c].status = "done" \/ Settled(c))
    <3>1. c \in DOMAIN commands /\ commands'[c].status = IF c = Current(p) THEN s ELSE commands[c].status
      BY <1>1, <1>3, <2>2, MarkWrites DEF PInv
    <3>2. c = Current(p) => Settled(Current(p))
      BY <1>3, <2>2, <3>1 DEF SteersInv
    <3>3. c = Current(p) => Settled(c)
      BY <3>2 DEF Settled
    <3> QED BY <1>3, <3>1, <3>3
  <2>3. CASE SetStatus(p, "error")
    BY <2>2, <2>3
  <2>4. CASE at[p] = "mark" /\ SetStatus(p, IF verdict[p] = "ok" THEN "done" ELSE "error")
    <3> DEFINE s == IF verdict[p] = "ok" THEN "done" ELSE "error"
    <3>1. s \in {"done", "error"} /\ SetStatus(p, s) /\ (s = "done" => at[p] = "mark" /\ verdict[p] = "ok")
      BY <2>4
    <3> HIDE DEF s
    <3> QED BY <2>2, <3>1
  <2> QED BY <1>1, <2>1, <2>3, <2>4
<1>4. \A q \in Pollers : at'[q] = "mark" /\ verdict'[q] = "ok" =>
          at[q] = "mark" /\ verdict[q] = "ok" /\ queue'[q] = queue[q]
  BY <1>2 DEF Still
<1> QED BY <1>1, <1>3, <1>4, SteersStay

\* A command about the board or a desk: what it did is what it asked, and it was heard
\* because the founder asked.
LEMMA SteersInvProcess ==
    ASSUME PInv, SteersInv, Grown, founderSet' = founderSet, NEW p \in Pollers, Process(p)
    PROVE  SteersInv'
<1> DEFINE h == Current(p)
           a == Req(p).arg
<1>1. at[p] = "run" /\ UNCHANGED <<commands, queue, founderSet>>
  BY ProcessDoes
<1>2. /\ h \in DOMAIN commands /\ Req(p) = commands[h].req /\ Req(p) \in Requests
      /\ Current(p)' = h
  <2>1. h \in DOMAIN commands
    BY <1>1, CurrentIsOldest DEF PInv
  <2>2. commands[h] \in [req : Requests, status : Marked]
    BY <2>1, Ids DEF PInv
  <2> QED BY <1>1, <2>1, <2>2 DEF Req, Current
<1>3. Still(p)
  <2>1. /\ \E v : verdict' = [verdict EXCEPT ![p] = v]
        /\ \E v : at' = [at EXCEPT ![p] = v]
        /\ queue' = queue
    BY DEF Process
  <2> QED BY <2>1 DEF PInv, QueueInv, Still
<1>4. \A c \in DOMAIN commands' : commands'[c].status = "done" =>
          c \in DOMAIN commands /\ (commands[c].status = "done" \/ Settled(c))
  BY <1>1
<1>5. \A q \in Pollers \ {p} : at'[q] = "mark" /\ verdict'[q] = "ok" =>
          at[q] = "mark" /\ verdict[q] = "ok" /\ queue'[q] = queue[q]
  BY <1>3 DEF Still
<1>6. ASSUME MayRun(Req(p)), Req(p).type \in FounderTypes
      PROVE  \A x : x = a => AskedFor(Req(p).type, x)'
  <2>1. founderSet /\ Req(p) = [type |-> Req(p).type, arg |-> a, from |-> "founder"]
    BY <1>2, <1>6, PollerConstants DEF MayRun
  <2>2. \A x : x = a => commands[h].req = [type |-> Req(p).type, arg |-> x, from |-> "founder"]
    BY <1>2, <2>1
  <2>3. Req(p)' = Req(p)
    BY <1>1, <1>2 DEF Req
  <2> HIDE DEF a, h
  <2>4. \A x : x = a => commands'[h].req = [type |-> Req(p)'.type, arg |-> x, from |-> "founder"]
    BY <1>1, <2>2, <2>3
  <2> QED BY <1>1, <1>2, <2>1, <2>4 DEF AskedFor
<1> HIDE DEF a
<1>7. ASSUME UNCHANGED boardVars, verdict'[p] = "ok" => Req(p).type \notin ProposalTypes,
             \A d \in paused' : d \in paused \/ AskedFor("pause_desk", d)'
      PROVE  SteersInv'
  <2>1. BInv' /\ Onward(0) /\ 0 \notin DOMAIN board'
    <3>1. BInv' /\ Onward(0)
      BY <1>7, BuildsGoOn DEF SteersInv
    <3> QED BY <3>1 DEF BInv
  <2>2. verdict'[p] = "ok" => Settled(Current(p))'
    <3>1. commands'[Current(p)'].req = Req(p)
      BY <1>1, <1>2
    <3> QED BY <1>7, <3>1 DEF Settled, ProposalTypes
  <2>3. 0 \in DOMAIN board' => AskedRow(0)'
    BY <2>1
  <2> QED BY <1>4, <1>5, <1>7, <2>1, <2>2, <2>3, SteersKept
<1>8. ASSUME Req(p).type \in ProposalTypes, MayRun(Req(p)), paused' = paused, NEW took \in BOOLEAN,
             IF Req(p).type = "prioritize_proposal" THEN PrioritizeProposal(a, took)
             ELSE DecideProposal(a, Req(p).type = "approve_proposal", took),
             verdict'[p] = IF took THEN "ok" ELSE "error"
      PROVE  SteersInv'
  <2>1. PICK x : x = a
    OBVIOUS
  <2>2. AskedFor(Req(p).type, x)'
    BY <1>6, <1>8, <2>1 DEF ProposalTypes, FounderTypes
  <2>3. Req(p)' = Req(p) /\ commands'[Current(p)'].req = Req(p)
    BY <1>1, <1>2 DEF Req
  <2>4. Req(p).arg = x
    BY <2>1 DEF a
  <2>5. CASE Req(p).type = "prioritize_proposal"
    <3>1. PrioritizeProposal(x, took)
      BY <1>8, <2>1, <2>5
    <3>2. /\ BInv' /\ Onward(x)
          /\ took => x \in DOMAIN board' /\ board'[x].rank = TRUE
          /\ \A i \in DOMAIN board' : i \in DOMAIN board /\ board'[i].status = board[i].status
      BY <3>1, RankTakes DEF SteersInv
    <3>3. verdict'[p] = "ok" => Settled(Current(p))'
      BY <1>8, <2>3, <2>4, <2>5, <3>2 DEF Settled, ProposalTypes
    <3>4. ASSUME x \in DOMAIN board'
          PROVE  AskedRow(x)'
      <4>1. x \in DOMAIN board /\ board'[x].status = board[x].status
        BY <3>2, <3>4
      <4>2. AskedRow(x)
        BY <4>1, SteersByRow DEF SteersInv
      <4>3. board'[x].status = "approved" => AskedFor("approve_proposal", x)'
        BY <4>1, <4>2, AskedStays DEF AskedRow
      <4>4. board'[x].status = "vetoed" => AskedFor("veto_proposal", x)'
        BY <4>1, <4>2, AskedStays DEF AskedRow
      <4>5. AskedFor("prioritize_proposal", x)'
        BY <2>2, <2>3, <2>5 DEF AskedFor
      <4> QED BY <4>3, <4>4, <4>5 DEF AskedRow
    <3> QED BY <1>4, <1>5, <1>8, <3>2, <3>3, <3>4, SteersKept
  <2>6. CASE Req(p).type # "prioritize_proposal"
    <3> DEFINE yes == Req(p).type = "approve_proposal"
    <3>1. DecideProposal(x, yes, took) /\ yes \in BOOLEAN
      BY <1>8, <2>1, <2>6
    <3> HIDE DEF yes
    <3>2. /\ BInv' /\ Onward(x)
          /\ took => x \in DOMAIN board' /\ board'[x].status = IF yes THEN "approved" ELSE "vetoed"
          /\ \A i \in DOMAIN board' : i \in DOMAIN board /\ board'[i].rank = board[i].rank
          /\ \A i \in DOMAIN board' : board'[i].status # board[i].status => took /\ i = x
      BY <3>1, DecisionTakes DEF SteersInv
    <3>3. verdict'[p] = "ok" => Settled(Current(p))'
      BY <1>8, <2>3, <2>4, <2>6, <3>2 DEF Settled, ProposalTypes, yes
    <3>4. ASSUME x \in DOMAIN board'
          PROVE  AskedRow(x)'
      <4>1. x \in DOMAIN board /\ board'[x].rank = board[x].rank
        BY <3>2, <3>4
      <4>2. AskedRow(x)
        BY <4>1, SteersByRow DEF SteersInv
      <4>3. board'[x].rank = TRUE => AskedFor("prioritize_proposal", x)'
        BY <4>1, <4>2, AskedStays DEF AskedRow
      <4>4. CASE board'[x].status = board[x].status
        <5>1. board'[x].status = "approved" => AskedFor("approve_proposal", x)'
          BY <4>2, <4>4, AskedStays DEF AskedRow
        <5>2. board'[x].status = "vetoed" => AskedFor("veto_proposal", x)'
          BY <4>2, <4>4, AskedStays DEF AskedRow
        <5> QED BY <4>3, <5>1, <5>2 DEF AskedRow
      <4>5. CASE board'[x].status # board[x].status
        <5>1. board'[x].status = IF yes THEN "approved" ELSE "vetoed"
          BY <3>2, <3>4, <4>5
        <5>2. Req(p).type = IF yes THEN "approve_proposal" ELSE "veto_proposal"
          BY <1>8, <2>6 DEF ProposalTypes, yes
        <5>3. CASE yes
          <6>1. AskedFor("approve_proposal", x)'
            BY <2>2, <2>3, <5>2, <5>3 DEF AskedFor
          <6>2. board'[x].status = "approved"
            BY <5>1, <5>3
          <6> QED BY <4>3, <6>1, <6>2 DEF AskedRow
        <5>4. CASE ~yes
          <6>1. AskedFor("veto_proposal", x)'
            BY <2>2, <2>3, <5>2, <5>4 DEF AskedFor
          <6>2. board'[x].status = "vetoed"
            BY <5>1, <5>4
          <6> QED BY <4>3, <6>1, <6>2 DEF AskedRow
        <5> QED BY <3>1, <5>3, <5>4
      <4> QED BY <4>4, <4>5
    <3> QED BY <1>4, <1>5, <1>8, <3>2, <3>3, <3>4, SteersKept
  <2> QED BY <2>5, <2>6
<1>9. ASSUME Req(p).type \in {"pause_desk", "resume_desk"}, MayRun(Req(p)),
             paused' = IF Req(p).type = "pause_desk" THEN paused \cup {a} ELSE paused \ {a}
      PROVE  \A d \in paused' : d \in paused \/ AskedFor("pause_desk", d)'
  <2>1. CASE Req(p).type = "resume_desk"
    BY <1>9, <2>1
  <2>2. CASE Req(p).type = "pause_desk"
    <3>1. Req(p)' = Req(p)
      BY <1>1, <1>2 DEF Req
    <3>2. \A x : x = a => AskedFor("pause_desk", x)'
      BY <1>6, <1>9, <2>2, <3>1 DEF AskedFor, FounderTypes
    <3> QED BY <1>9, <2>2, <3>2
  <2> QED BY <1>9, <2>1, <2>2
<1>10. {"approve", "veto", "pause_desk", "resume_desk"} \cap ProposalTypes = {}
  BY DEF ProposalTypes
<1>11. CASE /\ Req(p).type \in {"approve", "veto"} /\ UNCHANGED <<boardVars, paused>>
  BY <1>7, <1>10, <1>11
<1>12. CASE /\ Req(p).type \in {"pause_desk", "resume_desk"} /\ MayRun(Req(p))
            /\ paused' = IF Req(p).type = "pause_desk" THEN paused \cup {a} ELSE paused \ {a}
            /\ UNCHANGED boardVars
  BY <1>7, <1>9, <1>10, <1>12
<1>13. CASE /\ verdict'[p] = "ok" => Req(p).type \notin ProposalTypes
            /\ UNCHANGED <<boardVars, paused>>
  BY <1>7, <1>13
<1>14. CASE /\ Req(p).type \in ProposalTypes /\ MayRun(Req(p)) /\ paused' = paused
            /\ \E took \in BOOLEAN :
                  /\ IF Req(p).type = "prioritize_proposal" THEN PrioritizeProposal(a, took)
                     ELSE DecideProposal(a, Req(p).type = "approve_proposal", took)
                  /\ verdict'[p] = IF took THEN "ok" ELSE "error"
  BY <1>8, <1>14
<1> QED BY <1>11, <1>12, <1>13, <1>14, ProcessDoes DEF a

LEMMA SteersInvInit == Init => SteersInv
<1> SUFFICES ASSUME Init PROVE SteersInv
  OBVIOUS
<1>1. BInv
  BY BInvInit DEF Init
<1>2. /\ board = <<>> /\ commands = <<>> /\ paused = {} /\ at = [p \in Pollers |-> "idle"]
  BY DEF Init, BoardInit, PollerInit
<1>3. DOMAIN board = {} /\ DOMAIN commands = {} /\ \A p \in Pollers : at[p] # "mark"
  BY <1>2
<1>4. OnlyFounderSteers
  BY <1>2, <1>3 DEF OnlyFounderSteers
<1> QED BY <1>1, <1>3, <1>4 DEF SteersInv

LEMMA SteersInvNext == PInv /\ SteersInv /\ [Next]_vars => SteersInv'
<1> SUFFICES ASSUME PInv, SteersInv, [Next]_vars PROVE SteersInv'
  OBVIOUS
<1>1. Grown /\ founderSet' = founderSet
  BY TableGrows
<1>2. ASSUME [BoardNext]_boardVars, UNCHANGED <<commands, queue, at, verdict, paused>>
      PROVE  SteersInv'
  <2>1. /\ \A c \in DOMAIN commands' : commands'[c].status = "done" =>
               c \in DOMAIN commands /\ (commands[c].status = "done" \/ Settled(c))
        /\ \A q \in Pollers : at'[q] = "mark" /\ verdict'[q] = "ok" =>
               at[q] = "mark" /\ verdict[q] = "ok" /\ queue'[q] = queue[q]
        /\ paused' = paused
    BY <1>2
  <2> QED BY <1>1, <1>2, <2>1, SteersStay
<1>3. CASE BoardNext /\ UNCHANGED <<founderSet, pollVars>>
  BY <1>2, <1>3 DEF pollVars
<1>4. CASE UNCHANGED vars
  <2>1. UNCHANGED boardVars /\ UNCHANGED <<commands, queue, at, verdict, paused>>
    BY <1>4 DEF vars, pollVars
  <2> QED BY <1>2, <2>1
<1>5. ASSUME NEW r \in Refs, RequestApproval(r) \/ Reply(r)
      PROVE  SteersInv'
  <2>1. UNCHANGED boardVars /\ UNCHANGED <<commands, queue, at, verdict, paused>>
    BY <1>5 DEF RequestApproval, Reply
  <2> QED BY <1>2, <2>1
<1>6. CASE Enqueue
  <2>1. UNCHANGED <<boardVars, queue, at, verdict, paused>>
    BY <1>6 DEF Enqueue
  <2>2. PICK q \in Requests : commands' = Append(commands, [req |-> q, status |-> "pending"])
    BY <1>6 DEF Enqueue
  <2> DEFINE R == [req : Requests, status : Marked]
             row == [req |-> q, status |-> "pending"]
  <2>3. commands \in Seq(R) /\ row \in R /\ row.status = "pending"
    BY DEF PInv, TableInv, Marked
  <2> HIDE DEF R, row
  <2>4. \A c \in DOMAIN commands' : \/ c \in DOMAIN commands /\ commands'[c] = commands[c]
                                    \/ commands'[c] = row
    BY <2>2, <2>3 DEF row
  <2>5. \A c \in DOMAIN commands' : commands'[c].status = "done" =>
            c \in DOMAIN commands /\ (commands[c].status = "done" \/ Settled(c))
    BY <2>3, <2>4
  <2>6. \A o \in Pollers : at'[o] = "mark" /\ verdict'[o] = "ok" =>
            at[o] = "mark" /\ verdict[o] = "ok" /\ queue'[o] = queue[o]
    BY <2>1
  <2> QED BY <1>1, <2>1, <2>5, <2>6, SteersStay
<1>7. ASSUME NEW p \in Pollers, Fetch(p) \/ RemarkFails(p) \/ PollerCrash(p)
      PROVE  SteersInv'
  <2>1. UNCHANGED <<boardVars, commands, paused>>
    BY <1>7 DEF Fetch, RemarkFails, PollerCrash
  <2>2. Still(p) /\ at'[p] # "mark"
    BY <1>7 DEF Fetch, RemarkFails, PollerCrash, NextCommand, PInv, QueueInv, Still
  <2>3. \A c \in DOMAIN commands' : commands'[c].status = "done" =>
            c \in DOMAIN commands /\ (commands[c].status = "done" \/ Settled(c))
    BY <2>1
  <2>4. \A o \in Pollers : at'[o] = "mark" /\ verdict'[o] = "ok" =>
            at[o] = "mark" /\ verdict[o] = "ok" /\ queue'[o] = queue[o]
    BY <2>2 DEF Still
  <2> QED BY <1>1, <2>1, <2>3, <2>4, SteersStay
<1>8. ASSUME NEW p \in Pollers, Mark(p) \/ Remark(p) \/ MarkFails(p)
      PROVE  SteersInv'
  BY <1>1, <1>8, SteersInvMark
<1>9. ASSUME NEW p \in Pollers, Process(p)
      PROVE  SteersInv'
  BY <1>1, <1>9, SteersInvProcess
<1> QED BY <1>3, <1>4, <1>5, <1>6, <1>7, <1>8, <1>9 DEF Next, Poll

\* Unless a command ran twice, what an approval reads is the newest word; what the web
\* reads as done is done and stays so; and whatever is decided, ranked or paused, the
\* configured founder asked for it: with any overlap of pollers and any faults.
THEOREM FounderIsHeard == Spec => []FoundersWordStands
<1>1. Init => PInv /\ WordsInv /\ SteersInv
  BY PInvInit, WordsInvInit, SteersInvInit
<1>2. PInv /\ WordsInv /\ SteersInv /\ [Next]_vars => (PInv /\ WordsInv /\ SteersInv)'
  BY PInvNext, WordsInvNext, SteersInvNext
<1>3. PInv /\ WordsInv /\ SteersInv => FoundersWordStands
  <2> SUFFICES ASSUME PInv, WordsInv, SteersInv PROVE FoundersWordStands
    OBVIOUS
  <2>1. DoneIsDone
    <3> SUFFICES ASSUME NEW c \in DOMAIN commands, commands[c].status = "done"
                 PROVE  CASE commands[c].req.type = "approve_proposal" ->
                               board[commands[c].req.arg].status = "approved"
                          [] commands[c].req.type = "veto_proposal" ->
                               board[commands[c].req.arg].status = "vetoed"
                          [] commands[c].req.type = "prioritize_proposal" ->
                               board[commands[c].req.arg].rank
                          [] OTHER -> TRUE
      BY DEF DoneIsDone
    <3> QED BY DEF SteersInv, Settled
  <2> QED BY <2>1 DEF FoundersWordStands, WordsInv, SteersInv
<1> QED BY <1>1, <1>2, <1>3, PTL DEF Spec

\* To the board, any number of overlapping pollers are the founder at it: what was proved
\* of the board by itself (LiveBoardSound, DecidedStays) holds with the pollers around it.
THEOREM KitchenImplementsBoard == Spec => BoardSpec
<1>1. Init => BoardInit
  BY DEF Init
<1>2. PInv /\ [Next]_vars => [BoardStep]_boardVars
  <2> SUFFICES ASSUME PInv, [Next]_vars PROVE [BoardStep]_boardVars
    OBVIOUS
  <2>1. ASSUME NEW p \in Pollers, Process(p)
        PROVE  [BoardStep]_boardVars
    <3>1. CASE UNCHANGED boardVars
      BY <3>1
    <3>2. ASSUME NEW x, NEW took \in BOOLEAN,
                 \/ PrioritizeProposal(x, took)
                 \/ \E yes \in BOOLEAN : DecideProposal(x, yes, took)
          PROVE  [BoardStep]_boardVars
      <4>1. CASE took
        BY <3>2, <4>1 DEF PrioritizeProposal, DecideProposal, Live, BoardStep
      <4>2. CASE ~took
        BY <3>2, <4>2 DEF PrioritizeProposal, DecideProposal, boardVars
      <4> QED BY <4>1, <4>2
    <3>3. ASSUME NEW took \in BOOLEAN,
                 IF Req(p).type = "prioritize_proposal" THEN PrioritizeProposal(Req(p).arg, took)
                 ELSE DecideProposal(Req(p).arg, Req(p).type = "approve_proposal", took)
          PROVE  [BoardStep]_boardVars
      <4>1. CASE Req(p).type = "prioritize_proposal"
        <5>1. PrioritizeProposal(Req(p).arg, took)
          BY <3>3, <4>1
        <5> QED BY <5>1, <3>2
      <4>2. CASE Req(p).type # "prioritize_proposal"
        <5>1. (Req(p).type = "approve_proposal") \in BOOLEAN
          OBVIOUS
        <5>2. DecideProposal(Req(p).arg, Req(p).type = "approve_proposal", took)
          BY <3>3, <4>2
        <5>3. \E yes \in BOOLEAN : DecideProposal(Req(p).arg, yes, took)
          BY <5>1, <5>2
        <5> QED BY <5>3, <3>2
      <4> QED BY <4>1, <4>2
    <3>4. \/ UNCHANGED boardVars
          \/ \E took \in BOOLEAN :
                IF Req(p).type = "prioritize_proposal" THEN PrioritizeProposal(Req(p).arg, took)
                ELSE DecideProposal(Req(p).arg, Req(p).type = "approve_proposal", took)
      BY <2>1, ProcessDoes
    <3> QED BY <3>1, <3>3, <3>4
  <2>2. ASSUME NEW p \in Pollers, Poll(p) \/ MarkFails(p) \/ RemarkFails(p) \/ PollerCrash(p)
        PROVE  [BoardStep]_boardVars
    <3>1. CASE Process(p)
      BY <2>1, <3>1
    <3>2. CASE Fetch(p) \/ Mark(p) \/ Remark(p) \/ MarkFails(p) \/ RemarkFails(p) \/ PollerCrash(p)
      BY <3>2 DEF Fetch, Mark, Remark, MarkFails, RemarkFails, PollerCrash
    <3> QED BY <2>2, <3>1, <3>2 DEF Poll
  <2>3. ASSUME NEW r \in Refs, RequestApproval(r) \/ Reply(r)
        PROVE  [BoardStep]_boardVars
    BY <2>3 DEF RequestApproval, Reply
  <2>4. Enqueue => UNCHANGED boardVars
    BY DEF Enqueue
  <2>5. BoardNext => BoardStep
    BY DEF BoardStep
  <2>6. UNCHANGED vars => UNCHANGED boardVars
    BY DEF vars
  <2> QED BY <2>2, <2>3, <2>4, <2>5, <2>6 DEF Next
<1> QED BY <1>1, <1>2, QueueShape, PTL DEF Spec, BoardSpec

----------------------------------------------------------------------------
\* The promise of the queue.

\* A run is lost once at most, and not while its poller is still to answer for it.
LostInv == \A c \in DOMAIN commands : lost[c] + Cardinality(Ran(c)) <= runs[c]

\* The step of one poller loses no run it did not let go of.
LEMMA LostKept ==
    ASSUME LostInv, NEW p \in Pollers, Alone(p), DOMAIN commands' = DOMAIN commands,
           \A c \in DOMAIN commands :
              /\ runs[c] \in Nat /\ lost[c] \in Nat /\ runs'[c] \in Nat /\ lost'[c] \in Nat
              /\ lost'[c] - lost[c] + One(p \in Ran(c)') <= runs'[c] - runs[c] + One(p \in Ran(c))
    PROVE  LostInv'
<1> SUFFICES ASSUME NEW c \in DOMAIN commands
             PROVE  lost'[c] + Cardinality(Ran(c)') <= runs'[c]
  BY DEF LostInv
<1>1. PICK r \in Nat : /\ Cardinality(Ran(c)) = r + One(p \in Ran(c))
                       /\ Cardinality(Ran(c)') = r + One(p \in Ran(c)')
  BY OneMoves
<1>2. One(p \in Ran(c)) \in Nat /\ One(p \in Ran(c)') \in Nat
  BY DEF One
<1>3. lost[c] + Cardinality(Ran(c)) <= runs[c]
  BY DEF LostInv
<1> QED BY <1>1, <1>2, <1>3

\* The command in hand of a poller at work is one of the table.
LEMMA HandIsKnown ==
    ASSUME PInv, NEW p \in Pollers, NEW c
    PROVE  /\ p \in Ran(c) <=> HasRun(p) /\ c = Current(p)
           /\ HasRun(p) => Current(p) \in DOMAIN commands
<1>1. HasRun(p) => at[p] # "idle"
  BY DEF HasRun
<1> QED BY <1>1, CurrentIsOldest DEF Ran, PInv

LEMMA LostInvPoller ==
    ASSUME PInv, PInv', LostInv, NEW p \in Pollers,
           Poll(p) \/ MarkFails(p) \/ RemarkFails(p) \/ PollerCrash(p)
    PROVE  LostInv'
<1> DEFINE h == Current(p)
<1>1. \A c \in DOMAIN commands : runs[c] \in Nat /\ lost[c] \in Nat
  BY Ids DEF PInv
<1>2. \A c \in DOMAIN commands' : runs'[c] \in Nat /\ lost'[c] \in Nat
  <2>1. /\ commands' \in Seq([req : Requests, status : Marked])
        /\ runs' \in Seq(Nat) /\ Len(runs') = Len(commands')
        /\ lost' \in Seq(Nat) /\ Len(lost') = Len(commands')
    BY DEF PInv, TableInv
  <2>2. DOMAIN runs' = DOMAIN commands' /\ DOMAIN lost' = DOMAIN commands'
    BY <2>1
  <2> QED BY <2>1, <2>2
<1>3. at[p] # "idle" => h \in DOMAIN commands
  BY CurrentIsOldest DEF PInv
<1>4. DOMAIN commands' = DOMAIN commands
  BY DEF Poll, Fetch, Process, Mark, Remark, MarkFails, RemarkFails, PollerCrash, SetStatus
<1>5. Alone(p)
  BY DEF Poll, Fetch, Process, Mark, Remark, MarkFails, RemarkFails, PollerCrash, NextCommand,
         Alone, PInv, QueueInv
<1>6. at \in [Pollers -> {"idle", "run", "mark", "remark"}]
  BY DEF PInv, QueueInv
<1>7. /\ runs \in Seq(Nat) /\ lost \in Seq(Nat)
      /\ DOMAIN runs = DOMAIN commands /\ DOMAIN lost = DOMAIN commands
  BY Ids DEF PInv, TableInv
<1>8. CASE Fetch(p)
  <2>1. ~HasRun(p) /\ ~HasRun(p)' /\ UNCHANGED <<runs, lost>>
    BY <1>6, <1>8 DEF Fetch, HasRun
  <2>2. \A c : One(p \in Ran(c)) = 0 /\ One(p \in Ran(c)') = 0
    BY <2>1 DEF Ran, One
  <2> QED BY <1>1, <1>4, <1>5, <2>1, <2>2, LostKept
<1>9. CASE Process(p)
  <2>1. /\ ~HasRun(p) /\ h \in DOMAIN runs /\ lost' = lost /\ Current(p)' = h
        /\ runs' = [runs EXCEPT ![h] = @ + 1]
    BY <1>3, <1>7, <1>9 DEF Process, HasRun, Current
  <2> HIDE DEF h
  <2>2. \A c \in DOMAIN commands : runs'[c] = IF c = h THEN runs[c] + 1 ELSE runs[c]
    BY <1>7, <2>1, OneMore
  <2>3. \A c : One(p \in Ran(c)) = 0 /\ One(p \in Ran(c)') <= One(c = h)
    BY <2>1 DEF Ran, One
  <2>4. \A c \in DOMAIN commands : runs'[c] - runs[c] = One(c = h)
    BY <1>1, <2>2 DEF One
  <2>5. \A c : One(p \in Ran(c)') \in Nat /\ One(c = h) \in Nat
    BY DEF One
  <2> QED BY <1>1, <1>2, <1>4, <1>5, <2>1, <2>3, <2>4, <2>5, LostKept
<1>10. CASE Mark(p) \/ Remark(p)
  <2>1. ~HasRun(p)' /\ UNCHANGED <<runs, lost>>
    BY <1>6, <1>10 DEF Mark, Remark, NextCommand, HasRun
  <2>2. \A c : One(p \in Ran(c)') = 0 /\ One(p \in Ran(c)) \in Nat
    BY <2>1 DEF Ran, One
  <2> QED BY <1>1, <1>4, <1>5, <2>1, <2>2, LostKept
<1>11. CASE MarkFails(p)
  <2>1. HasRun(p) /\ Current(p)' = h /\ UNCHANGED <<runs, lost>>
    BY <1>11 DEF MarkFails, HasRun, Current
  <2>2. \A c : /\ One(p \in Ran(c)') <= One(p \in Ran(c))
               /\ One(p \in Ran(c)') \in Nat /\ One(p \in Ran(c)) \in Nat
    BY <2>1 DEF Ran, One
  <2> QED BY <1>1, <1>4, <1>5, <2>1, <2>2, LostKept
<1>12. CASE RemarkFails(p) \/ PollerCrash(p)
  <2>1. /\ runs' = runs /\ ~HasRun(p)'
        /\ HasRun(p) => h \in DOMAIN lost /\ lost' = [lost EXCEPT ![h] = @ + 1]
        /\ ~HasRun(p) => lost' = lost
    BY <1>3, <1>6, <1>7, <1>12 DEF RemarkFails, PollerCrash, NextCommand, HasRun
  <2>2. \A c : One(p \in Ran(c)') = 0 /\ One(p \in Ran(c)) = One(HasRun(p) /\ c = h)
    BY <2>1 DEF Ran, One
  <2> HIDE DEF h
  <2>3. HasRun(p) => \A c \in DOMAIN commands : lost'[c] = IF c = h THEN lost[c] + 1 ELSE lost[c]
    BY <1>7, <2>1, OneMore
  <2>4. \A c \in DOMAIN commands : lost'[c] - lost[c] = One(HasRun(p) /\ c = h)
    BY <1>1, <2>1, <2>3 DEF One
  <2>5. \A c : One(HasRun(p) /\ c = h) \in Nat
    BY DEF One
  <2> QED BY <1>1, <1>2, <1>4, <1>5, <2>1, <2>2, <2>4, <2>5, LostKept
<1> QED BY <1>8, <1>9, <1>10, <1>11, <1>12 DEF Poll

LEMMA LostInvNext == PInv /\ PInv' /\ LostInv /\ [Next]_vars => LostInv'
<1> SUFFICES ASSUME PInv, PInv', LostInv, [Next]_vars PROVE LostInv'
  OBVIOUS
<1>1. ASSUME UNCHANGED <<commands, queue, at, runs, lost>>
      PROVE  LostInv'
  <2>1. \A c : Ran(c)' = Ran(c)
    BY <1>1 DEF Ran, HasRun, Current
  <2> QED BY <1>1, <2>1 DEF LostInv
<1>2. CASE Enqueue
  <2> DEFINE n == Len(commands)
  <2>1. n \in Nat /\ DOMAIN commands = 1..n
    BY Ids DEF PInv
  <2>2. PICK row : commands' = Append(commands, row)
    BY <1>2 DEF Enqueue
  <2>3. /\ runs' = Append(runs, 0) /\ lost' = Append(lost, 0) /\ UNCHANGED <<queue, at>>
        /\ runs \in Seq(Nat) /\ Len(runs) = n /\ lost \in Seq(Nat) /\ Len(lost) = n
        /\ commands \in Seq([req : Requests, status : Marked])
    BY <1>2 DEF Enqueue, PInv, TableInv
  <2>4. \A c : Ran(c)' = Ran(c)
    BY <2>3 DEF Ran, HasRun, Current
  <2>5. Ran(n + 1) = {}
    <3>1. ASSUME NEW p \in Pollers, p \in Ran(n + 1) PROVE FALSE
      BY <2>1, <3>1, HandIsKnown
    <3> QED BY <3>1 DEF Ran
  <2>6. Cardinality(Ran(n + 1)) = 0
    BY <2>5, FS_EmptySet
  <2>7. /\ \A c \in 1..n : runs'[c] = runs[c] /\ lost'[c] = lost[c]
        /\ runs'[n + 1] = 0 /\ lost'[n + 1] = 0
    BY <2>1, <2>3
  <2>8. DOMAIN commands' = 1..(n + 1)
    BY <2>1, <2>2, <2>3
  <2> HIDE DEF n
  <2>9. \A c \in 1..(n + 1) : c \in 1..n \/ c = n + 1
    BY <2>1
  <2> QED BY <2>1, <2>4, <2>6, <2>7, <2>8, <2>9 DEF LostInv
<1>3. CASE BoardNext /\ UNCHANGED <<founderSet, pollVars>>
  BY <1>1, <1>3 DEF pollVars
<1>4. ASSUME NEW r \in Refs, RequestApproval(r) \/ Reply(r)
      PROVE  LostInv'
  BY <1>1, <1>4 DEF RequestApproval, Reply
<1>5. CASE UNCHANGED vars
  BY <1>1, <1>5 DEF vars, pollVars
<1> QED BY <1>2, <1>3, <1>4, <1>5, LostInvPoller DEF Next

\* A poller that has run its command answers for it, or for nothing.
LEMMA AnswerIsPromised ==
    ASSUME PInv, NEW p \in Pollers, HasRun(p), NEW s \in {"done", "error"},
           SetStatus(p, s), UNCHANGED <<runs, lost>>
    PROVE  Promised!Next
<1>1. at[p] # "idle"
  BY DEF HasRun
<1>2. Current(p) \in DOMAIN commands
  BY <1>1, CurrentIsOldest DEF PInv
<1>3. runs[Current(p)] > 0
  BY DEF PInv, OrderInv
<1>4. Promised!Answer(Current(p), s)
  BY <1>3 DEF Promised!Answer, SetStatus
<1> QED BY <1>2, <1>4 DEF Promised!Next

\* A run whose poller dies, or gives up on the mark, is lost, and was not lost before.
LEMMA LossIsPromised ==
    ASSUME PInv, LostInv, NEW p \in Pollers, HasRun(p), UNCHANGED <<commands, runs>>,
           lost' = [lost EXCEPT ![Current(p)] = @ + 1]
    PROVE  Promised!Next
<1> DEFINE h == Current(p)
<1>1. h \in DOMAIN commands /\ p \in Ran(h)
  BY HandIsKnown
<1>2. lost[h] + Cardinality(Ran(h)) <= runs[h] /\ lost[h] \in Nat /\ runs[h] \in Nat
  BY <1>1, Ids DEF LostInv, PInv
<1>3. Cardinality(Ran(h)) > 0
  <2>2. Ran(h) \in SUBSET Pollers /\ IsFiniteSet(Pollers)
    BY PollerConstants DEF Ran
  <2>3. IsFiniteSet(Ran(h)) /\ Ran(h) # {}
    BY <1>1, <2>2, FS_Subset
  <2>4. Cardinality(Ran(h)) \in Nat /\ Cardinality(Ran(h)) # 0
    BY <2>3, FS_EmptySet, FS_CardinalityType
  <2> QED BY <2>4
<1>4. Cardinality(Ran(h)) \in Nat
  BY CountedOnce
<1>5. Promised!Lose(h)
  BY <1>2, <1>3, <1>4 DEF Promised!Lose
<1> QED BY <1>1, <1>5 DEF Promised!Next

\* The command in hand runs when every older one has begun: those in the same page were
\* run before it, and the page holds every one that was pending.  Its poller is among
\* those that have yet to run it, so that it has not run as often as it may.
LEMMA RunIsPromised ==
    ASSUME PInv, NEW p \in Pollers, Process(p)
    PROVE  Promised!Next
<1> DEFINE h == Current(p)
<1>1. /\ at[p] = "run" /\ UNCHANGED <<commands, lost>>
      /\ runs' = [runs EXCEPT ![h] = @ + 1]
  BY DEF Process
<1>2. /\ h \in DOMAIN commands /\ h \in Held(p)
      /\ \A c \in Held(p) : c # h => h < c
  BY <1>1, CurrentIsOldest DEF PInv
<1>3. Len(commands) \in Nat /\ DOMAIN commands = 1..Len(commands)
  BY Ids DEF PInv
<1>4. ASSUME NEW older \in 1..(h - 1)
      PROVE  runs[older] > 0
  <2>1. older \in DOMAIN commands /\ older < h /\ older \in Int /\ h \in Int
    BY <1>2, <1>3
  <2>2. older \notin Held(p)
    BY <1>2, <2>1
  <2> QED BY <1>2, <2>1, <2>2 DEF PInv, OrderInv
<1>5. runs[h] < Cardinality(Pollers) + lost[h]
  <2>1. p \in Will(h)
    BY <1>1, <1>2 DEF Will, Ran, HasRun
  <2>2. Will(h) \in SUBSET Pollers /\ IsFiniteSet(Pollers)
    BY PollerConstants DEF Will
  <2>3. IsFiniteSet(Will(h)) /\ Will(h) # {}
    BY <2>1, <2>2, FS_Subset
  <2>4. Cardinality(Will(h)) \in Nat /\ Cardinality(Will(h)) # 0
    BY <2>3, FS_EmptySet, FS_CardinalityType
  <2>5. runs[h] + Cardinality(Will(h)) <= lost[h] + Cardinality(Pollers)
    BY <1>2 DEF PInv, CountInv
  <2>6. runs[h] \in Nat /\ lost[h] \in Nat /\ Cardinality(Pollers) \in Nat
    BY <1>2, Ids, CountedOnce DEF PInv
  <2> QED BY <2>4, <2>5, <2>6
<1>6. Promised!Run(h)
  BY <1>1, <1>4, <1>5 DEF Promised!Run
<1> QED BY <1>2, <1>6 DEF Promised!Next

\* Each command is begun in its turn, answered for only after it has run, and run no more
\* often than pollers overlap and runs are lost, whatever dies and whatever is lost.
THEOREM PollersKeepQueue == Spec => QueueKept
<1>1. Init => Promised!Init
  BY DEF Init, PollerInit, Promised!Init
<1>2. PInv /\ LostInv /\ [Next]_vars => [Promised!Next]_Promised!qvars
  <2> SUFFICES ASSUME PInv, LostInv, [Next]_vars
               PROVE  Promised!Next \/ UNCHANGED Promised!qvars
    OBVIOUS
  <2>1. Enqueue => Promised!Next
    BY DEF Enqueue, Promised!Insert, Promised!Next
  <2>2. ASSUME NEW p \in Pollers, Process(p)
        PROVE  Promised!Next
    BY <2>2, RunIsPromised
  <2>3. ASSUME NEW p \in Pollers, Mark(p)
        PROVE  Promised!Next
    <3>1. /\ HasRun(p) /\ UNCHANGED <<runs, lost>>
          /\ SetStatus(p, IF verdict[p] = "ok" THEN "done" ELSE "error")
      BY <2>3 DEF Mark, HasRun
    <3> QED BY <3>1, AnswerIsPromised
  <2>4. ASSUME NEW p \in Pollers, Remark(p)
        PROVE  Promised!Next
    <3>1. HasRun(p) /\ UNCHANGED <<runs, lost>> /\ SetStatus(p, "error")
      BY <2>4 DEF Remark, HasRun
    <3> QED BY <3>1, AnswerIsPromised
  <2>5. ASSUME NEW p \in Pollers, MarkFails(p)
        PROVE  Promised!Next \/ UNCHANGED Promised!qvars
    <3>1. /\ HasRun(p) /\ UNCHANGED <<runs, lost>>
          /\ \/ UNCHANGED commands
             \/ SetStatus(p, IF verdict[p] = "ok" THEN "done" ELSE "error")
      BY <2>5 DEF MarkFails, HasRun
    <3>2. CASE UNCHANGED commands
      BY <3>1, <3>2 DEF Promised!qvars
    <3>3. CASE SetStatus(p, IF verdict[p] = "ok" THEN "done" ELSE "error")
      BY <3>1, <3>3, AnswerIsPromised
    <3> QED BY <3>1, <3>2, <3>3
  <2>6. ASSUME NEW p \in Pollers, RemarkFails(p) \/ PollerCrash(p)
        PROVE  Promised!Next \/ UNCHANGED Promised!qvars
    <3>1. /\ UNCHANGED <<commands, runs>>
          /\ \/ lost' = lost
             \/ HasRun(p) /\ lost' = [lost EXCEPT ![Current(p)] = @ + 1]
      BY <2>6 DEF RemarkFails, PollerCrash, HasRun, PInv, QueueInv
    <3> QED BY <3>1, LossIsPromised DEF Promised!qvars
  <2>7. ASSUME NEW p \in Pollers, Fetch(p)
        PROVE  UNCHANGED Promised!qvars
    BY <2>7 DEF Fetch, Promised!qvars
  <2>8. ASSUME NEW r \in Refs, RequestApproval(r) \/ Reply(r)
        PROVE  UNCHANGED Promised!qvars
    BY <2>8 DEF RequestApproval, Reply, Promised!qvars
  <2>9. UNCHANGED pollVars => UNCHANGED Promised!qvars
    BY DEF pollVars, Promised!qvars
  <2>10. UNCHANGED vars => UNCHANGED pollVars
    BY DEF vars
  <2> QED BY <2>1, <2>2, <2>3, <2>4, <2>5, <2>6, <2>7, <2>8, <2>9, <2>10 DEF Next, Poll
<1>3. Init => LostInv
  BY DEF Init, PollerInit, LostInv
<1> QED BY <1>1, <1>2, <1>3, QueueShape, LostInvNext, PTL DEF Spec, QueueKept, Promised!Spec
=============================================================================

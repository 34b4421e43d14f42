------------------------------- MODULE Books -------------------------------
(***************************************************************************)
(* The books of the fund (camel_portfolio.db) and the three kinds of       *)
(* caller that write them, statement by statement:                         *)
(*   - a broker filling an order: broker/paper.py PaperBroker.submit and   *)
(*     broker/realistic.py RealisticPaperBroker.submit;                    *)
(*   - the founder recording a fill: broker/manual.py record_fill;         *)
(*   - a tick process seeding the opening balance: loop/jobs.py            *)
(*     ensure_opening_balance.                                             *)
(* They are separate processes on one SQLite file (db/sqlite.py names "a   *)
(* manual run-brain during the scheduled one").  Under Python's sqlite3 a  *)
(* transaction opens at the first INSERT, not at a SELECT: from there the  *)
(* connection holds the write lock and works on `view', which becomes `db' *)
(* at commit and is thrown away by a rollback or a crash.  A SELECT before *)
(* it reads the committed `db' and its answer may be stale when used.      *)
(*                                                                         *)
(* Quantities are whole units, so the 1e-9 tolerances of the quantity      *)
(* guards vanish; the relative 1e-6 of the full-close clamp is ClampWindow *)
(* units.                                                                  *)
(***************************************************************************)
EXTENDS Integers, Sequences

CONSTANTS Brokers, Recorders, Depositors,   \* the processes of each kind
          Symbols, Portfolios, Coids, Quantities, Prices, Fees,
          NoSymbol, NoPortfolio, NoOne,
          NoCoid,         \* a manual entry has no client_order_id
          ClampWindow,    \* how close to the whole position a sell is a full close
          OpeningCash,    \* the --open-cash amount
          MaxCalls        \* bound: calls made in one behaviour

ASSUME BooksConstants ==
    /\ Quantities \subseteq Nat \ {0} /\ Prices \subseteq Nat \ {0} /\ Fees \subseteq Nat
    /\ 0 \in Fees
    /\ ClampWindow \in Nat /\ OpeningCash \in Nat \ {0} /\ MaxCalls \in Nat
    /\ NoSymbol \notin Symbols /\ NoPortfolio \notin Portfolios

ASSUME BooksProcesses ==
    /\ Brokers \cap Recorders = {} /\ Brokers \cap Depositors = {}
    /\ Recorders \cap Depositors = {}
    /\ NoOne \notin Brokers \cup Recorders \cup Depositors

Writers == Brokers \cup Recorders \cup Depositors

VARIABLES
    db,      \* the committed tables
    view,    \* what the holder of the write lock sees: db with its own writes
    lock,    \* who holds the write lock
    pc,      \* pc[w]: the next statement of writer w
    call,    \* call[w]: the arguments of the call w is serving, as worked out so far
    tail,    \* tail[w]: the last ledger row w has read
    calls    \* calls made so far

books == <<db, view, lock, pc, call, tail, calls>>

\* The promise: INSTANCE with the committed tables for the abstract ones.
Promise == INSTANCE AtomicBooks WITH
    orders <- db.orders, ledger <- db.ledger,
    positions <- db.positions, holdings <- db.holdings

----------------------------------------------------------------------------
\* `exec' is the executor: last close, the realistic engine, or the founder's hand.
Execs == {"paper", "realistic", "manual"}

Calls == [symbol : Symbols, side : Promise!Sides, qty : Nat, price : Prices, fee : Fees,
          coid : Coids \cup {NoCoid}, portfolio : Portfolios \cup {NoPortfolio},
          exec : Execs]

NoCall == [exec |-> "none"]

Statements == {"idle", "preflight", "snapshot", "quote", "order", "append", "tail",
               "insert", "fill", "portfolio", "commit"}

Tables == [orders : Seq(Promise!Orders), ledger : Seq(Promise!Rows),
           positions : [Symbols -> Int],
           holdings : [Portfolios -> [Symbols -> Int]]]

Max0(a, b) == IF a > b THEN a ELSE b
Distance(a, b) == Max0(a - b, b - a)

\* (Mutant: what is left after a full close is sold, not the whole.)
ClampSellsRest(q, have) ==
    IF have > 0 /\ Distance(q, have) <= ClampWindow THEN q - have ELSE q

\* A sell within a hair of the whole position is a full close.
Clamp(q, have) == IF have > 0 /\ Distance(q, have) <= ClampWindow THEN have ELSE q

\* verify_hash_chain: a row's stored hash is the recomputed one exactly when the
\* row was chained to the row before it.
VerifyHashChain(l) == {i \in DOMAIN l : l[i].prev # i - 1}

GetLedgerBalance(l) == Promise!LastRow(l).balance

----------------------------------------------------------------------------
EmptyTables == [orders |-> <<>>, ledger |-> <<>>,
                positions |-> [s \in Symbols |-> 0],
                holdings |-> [p \in Portfolios |-> [s \in Symbols |-> 0]]]

\* The books are empty, or hold the opening balance of an earlier run.
Init ==
    /\ db \in {EmptyTables,
               [EmptyTables EXCEPT !.ledger = <<Promise!DepositRow(OpeningCash, Promise!Tail0)>>]}
    /\ view = db
    /\ lock = NoOne
    /\ pc = [w \in Writers |-> "idle"]
    /\ call = [w \in Writers |-> NoCall]
    /\ tail = [w \in Writers |-> Promise!Tail0]
    /\ calls = 0

Goto(w, s) == pc' = [pc EXCEPT ![w] = s]

\* (Mutant: the handle is not closed.)
FinishKeepsLock(w) ==
    /\ Goto(w, "idle")
    /\ call' = [call EXCEPT ![w] = NoCall]
    /\ tail' = [tail EXCEPT ![w] = Promise!Tail0]
    /\ UNCHANGED <<lock, calls>>

\* The call returns, raises or dies: nothing of it is left but what it committed.
Finish(w) ==
    /\ Goto(w, "idle")
    /\ call' = [call EXCEPT ![w] = NoCall]
    /\ tail' = [tail EXCEPT ![w] = Promise!Tail0]
    /\ lock' = IF lock = w THEN NoOne ELSE lock
    /\ UNCHANGED calls

\* connection(): an exception rolls the transaction back and closes the handle.
Rollback(w) ==
    /\ Finish(w)
    /\ view' = IF lock = w THEN db ELSE view
    /\ UNCHANGED db

----------------------------------------------------------------------------
\* A broker's submit(), after the decision was found to allow it.

Submit(w) ==
    /\ pc[w] = "idle" /\ calls < MaxCalls
    /\ \E c \in [symbol : Symbols, side : Promise!Sides, qty : Quantities, price : Prices,
                 fee : {0}, coid : Coids, portfolio : Portfolios \cup {NoPortfolio},
                 exec : {"paper", "realistic"}] :
          \* the realistic broker delegates sells to the last-close one
          /\ c.side = "sell" => c.exec = "paper"
          /\ call' = [call EXCEPT ![w] = c]
          /\ Goto(w, IF c.exec = "paper" THEN "preflight" ELSE "snapshot")
    /\ calls' = calls + 1
    /\ UNCHANGED <<db, view, lock, tail>>

\* The realistic engine: no bar, a stale one or less than a whole share is a
\* non-fill; else it fills what is displayed, at a fee.
Snapshot(w) ==
    /\ pc[w] = "snapshot"
    /\ \/ Rollback(w)
       \/ /\ \E q \in 1..call[w].qty, e \in Fees :
                call' = [call EXCEPT ![w].qty = q, ![w].fee = e]
          /\ Goto(w, "preflight")
          /\ UNCHANGED <<db, view, lock, tail, calls>>

\* pre_flight_execution_check: a repeated client_order_id is refused.
PreFlight(w) ==
    /\ pc[w] = "preflight"
    /\ IF Promise!Submitted(db.orders, call[w].coid)
         THEN Rollback(w)
         ELSE /\ Goto(w, IF call[w].exec = "paper" THEN "quote" ELSE "order")
              /\ UNCHANGED <<db, view, lock, call, tail, calls>>

\* The last close, or NoMarketPriceError; then, for a sell, the held quantity,
\* the full-close clamp and the phantom-sell guard, all before the transaction.
Quote(w) ==
    /\ pc[w] = "quote"
    /\ LET have == db.positions[call[w].symbol]
           q == IF call[w].side = "sell" THEN Clamp(call[w].qty, have) ELSE call[w].qty
       IN  \/ Rollback(w)
           \/ /\ call[w].side = "sell" => q <= have
              /\ call' = [call EXCEPT ![w].qty = q]
              /\ Goto(w, "order")
              /\ UNCHANGED <<db, view, lock, tail, calls>>

\* (Mutant: no UNIQUE constraint behind the pre-flight check.)
InsertOrderNotUnique(w) ==
    /\ pc[w] = "order" /\ lock = NoOne
    /\ lock' = w
    /\ view' = [db EXCEPT !.orders = Append(@, Promise!OrderOf(call[w]))]
    /\ Goto(w, "append")
    /\ UNCHANGED <<db, call, tail, calls>>

\* INSERT INTO orders: opens the transaction; the UNIQUE column backs the
\* pre-flight check when another writer committed the same id since.
InsertOrder(w) ==
    /\ pc[w] = "order" /\ lock = NoOne
    /\ IF Promise!Submitted(db.orders, call[w].coid)
         THEN Rollback(w)
         ELSE /\ lock' = w
              /\ view' = [db EXCEPT !.orders = Append(@, Promise!OrderOf(call[w]))]
              /\ Goto(w, "append")
              /\ UNCHANGED <<db, call, tail, calls>>

\* (Mutant: the entry is not chained to the row before it.)
AppendUnlinked(w) ==
    /\ pc[w] = "append"
    /\ view' = [view EXCEPT !.ledger = Append(@,
                   Promise!FillRow(call[w], Len(view.orders), Promise!Tail0))]
    /\ Goto(w, "fill")
    /\ UNCHANGED <<db, lock, call, tail, calls>>

\* (Mutant: chained to the last row, on a balance that is not the last one.)
AppendStaleBalance(w) ==
    /\ pc[w] = "append"
    /\ view' = [view EXCEPT !.ledger = Append(@,
                   Promise!FillRow(call[w], Len(view.orders),
                                   [Promise!LastRow(@) EXCEPT !.balance = 0]))]
    /\ Goto(w, "fill")
    /\ UNCHANGED <<db, lock, call, tail, calls>>

\* append_entry on the open connection: the last row is read inside the transaction.
AppendEntry(w) ==
    /\ pc[w] = "append"
    /\ view' = [view EXCEPT !.ledger = Append(@,
                   Promise!FillRow(call[w], Len(view.orders), Promise!LastRow(@)))]
    /\ Goto(w, "fill")
    /\ UNCHANGED <<db, lock, call, tail, calls>>

----------------------------------------------------------------------------
\* record_fill() and ensure_opening_balance(): the ledger entry comes first, so
\* the row it chains to is read before the transaction opens.

RecordFill(w) ==
    /\ pc[w] = "idle" /\ calls < MaxCalls
    /\ \E c \in [symbol : Symbols, side : Promise!Sides, qty : Quantities, price : Prices,
                 fee : {0}, coid : {NoCoid}, portfolio : {NoPortfolio}, exec : {"manual"}] :
          call' = [call EXCEPT ![w] = c]
    /\ calls' = calls + 1
    /\ Goto(w, "tail")
    /\ UNCHANGED <<db, view, lock, tail>>

\* SELECT 1 FROM ledger: a one-time deposit, on a connection of its own.
CheckEmpty(w) ==
    /\ pc[w] = "idle" /\ calls < MaxCalls
    /\ db.ledger = <<>>
    /\ calls' = calls + 1
    /\ Goto(w, "tail")
    /\ UNCHANGED <<db, view, lock, call, tail>>

ReadTail(w) ==
    /\ pc[w] = "tail"
    /\ tail' = [tail EXCEPT ![w] = Promise!LastRow(db.ledger)]
    /\ Goto(w, "insert")
    /\ UNCHANGED <<db, view, lock, call, calls>>

\* (Mutant: the entry takes the number after the row that was read.)
InsertEntryReplaces(w) ==
    /\ pc[w] = "insert" /\ lock = NoOne
    /\ lock' = w
    /\ view' = [db EXCEPT !.ledger = Append(SubSeq(@, 1, tail[w].row),
                   IF w \in Depositors THEN Promise!DepositRow(OpeningCash, tail[w])
                                       ELSE Promise!FillRow(call[w], 0, tail[w]))]
    /\ Goto(w, IF w \in Depositors THEN "commit" ELSE "fill")
    /\ UNCHANGED <<db, call, tail, calls>>

InsertEntry(w) ==
    /\ pc[w] = "insert" /\ lock = NoOne
    /\ lock' = w
    /\ view' = [db EXCEPT !.ledger = Append(@,
                   IF w \in Depositors THEN Promise!DepositRow(OpeningCash, tail[w])
                                       ELSE Promise!FillRow(call[w], 0, tail[w]))]
    /\ Goto(w, IF w \in Depositors THEN "commit" ELSE "fill")
    /\ UNCHANGED <<db, call, tail, calls>>

----------------------------------------------------------------------------
\* (Mutant: no phantom-sell re-check inside the transaction.)
ApplyFillUnguarded(w) ==
    /\ pc[w] = "fill"
    /\ view' = [view EXCEPT !.positions[call[w].symbol] = @ + Promise!SignedShares(call[w])]
    /\ Goto(w, IF call[w].portfolio \in Portfolios THEN "portfolio" ELSE "commit")
    /\ UNCHANGED <<db, lock, call, tail, calls>>

\* (Mutant: a buy replaces the position.)
ApplyFillReplaces(w) ==
    /\ pc[w] = "fill"
    /\ IF call[w].side = "sell" /\ call[w].qty > view.positions[call[w].symbol]
         THEN Rollback(w)
         ELSE /\ view' = [view EXCEPT !.positions[call[w].symbol] =
                             IF call[w].side = "buy" THEN call[w].qty ELSE @ - call[w].qty]
              /\ Goto(w, IF call[w].portfolio \in Portfolios THEN "portfolio" ELSE "commit")
              /\ UNCHANGED <<db, lock, call, tail, calls>>

\* apply_fill on the open connection: an oversell raises, and the order and
\* ledger rows go with it.
ApplyFill(w) ==
    /\ pc[w] = "fill"
    /\ IF call[w].side = "sell" /\ call[w].qty > view.positions[call[w].symbol]
         THEN Rollback(w)
         ELSE /\ view' = [view EXCEPT !.positions[call[w].symbol] =
                             @ + Promise!SignedShares(call[w])]
              /\ Goto(w, IF call[w].portfolio \in Portfolios THEN "portfolio" ELSE "commit")
              /\ UNCHANGED <<db, lock, call, tail, calls>>

\* (Mutant: the portfolio book is written on a connection of its own.)
ApplyPortfolioFillApart(w) ==
    /\ pc[w] = "portfolio"
    /\ LET c == call[w]
           book(t) == [t EXCEPT !.holdings[c.portfolio][c.symbol] =
                          @ + Promise!SignedShares(c)]
       IN  IF c.side = "sell" /\ c.qty > view.holdings[c.portfolio][c.symbol]
             THEN Rollback(w)
             ELSE /\ view' = book(view)
                  /\ db' = book(db)
                  /\ Goto(w, "commit")
                  /\ UNCHANGED <<lock, call, tail, calls>>

\* apply_portfolio_fill, in the same transaction: no phantom sell per portfolio.
ApplyPortfolioFill(w) ==
    /\ pc[w] = "portfolio"
    /\ LET c == call[w]
       IN  IF c.side = "sell" /\ c.qty > view.holdings[c.portfolio][c.symbol]
             THEN Rollback(w)
             ELSE /\ view' = [view EXCEPT !.holdings[c.portfolio][c.symbol] =
                                 @ + Promise!SignedShares(c)]
                  /\ Goto(w, "commit")
                  /\ UNCHANGED <<db, lock, call, tail, calls>>

Commit(w) ==
    /\ pc[w] = "commit"
    /\ db' = view
    /\ Finish(w)
    /\ UNCHANGED view

\* "database is locked": the busy timeout ran out while another writer held the lock.
Busy(w) ==
    /\ pc[w] \in {"order", "insert"} /\ lock # NoOne
    /\ Rollback(w)

\* The process dies; SQLite discards its open transaction.
Crash(w) == pc[w] # "idle" /\ Rollback(w)

----------------------------------------------------------------------------
BrokerStep(w) == PreFlight(w) \/ Snapshot(w) \/ Quote(w) \/ InsertOrder(w) \/ AppendEntry(w)

EntryStep(w) == ReadTail(w) \/ InsertEntry(w)

BookStep(w) == ApplyFill(w) \/ ApplyPortfolioFill(w) \/ Commit(w)

Next ==
    \/ \E w \in Brokers : Submit(w) \/ BrokerStep(w)
    \/ \E w \in Recorders : RecordFill(w)
    \/ \E w \in Depositors : CheckEmpty(w)
    \/ \E w \in Recorders \cup Depositors : EntryStep(w)
    \/ \E w \in Writers : BookStep(w) \/ Busy(w) \/ Crash(w)

Spec == Init /\ [][Next]_books

\* A call that was made goes on to its end: the scheduler runs every process and
\* busy_timeout bounds the wait for the lock.  Nobody has to call or to crash.
FairSpec == /\ Spec
            /\ \A w \in Writers :
                  WF_books(BrokerStep(w) \/ EntryStep(w) \/ BookStep(w) \/ Busy(w))
----------------------------------------------------------------------------
\* Properties.

TypeOK ==
    /\ db \in Tables /\ view \in Tables
    /\ lock \in Writers \cup {NoOne}
    /\ pc \in [Writers -> Statements]
    /\ call \in [Writers -> Calls \cup {NoCall}]
    /\ tail \in [Writers -> [row : Nat, balance : Int]]
    /\ calls \in 0..MaxCalls

\* An intent is filled once: however often a client_order_id is submitted, by
\* whichever processes, at most one order row carries it.
IntentFilledOnce ==
    \A i, j \in DOMAIN db.orders : db.orders[i].coid = db.orders[j].coid => i = j

\* The fund never sells shares it does not hold, in the fund's book or a
\* portfolio's, though held_qty is read before the transaction that uses it.
NoPhantomShares ==
    /\ \A s \in Symbols : db.positions[s] >= 0
    /\ \A p \in Portfolios, s \in Symbols : db.holdings[p][s] >= 0

\* Every filled order has its one ledger row, for the same shares, and no ledger
\* row names an order that is not on record.
OrdersMatchLedger ==
    /\ \A i \in DOMAIN db.orders :
          \E r \in DOMAIN db.ledger :
             /\ db.ledger[r].ref = i
             /\ db.ledger[r].symbol = db.orders[i].symbol
             /\ db.ledger[r].shares = Promise!SignedShares(db.orders[i])
    /\ \A r \in DOMAIN db.ledger :
          /\ db.ledger[r].ref \in 0..Len(db.orders)
          /\ \A q \in DOMAIN db.ledger :
                db.ledger[q].ref = db.ledger[r].ref => q = r \/ db.ledger[r].ref = 0

\* The ledger's own promise: each balance is the previous one plus the amount, and
\* each hash chains to the previous row.
BalanceRunsAndChains ==
    /\ VerifyHashChain(db.ledger) = {}
    /\ \A r \in DOMAIN db.ledger :
          db.ledger[r].balance =
              (IF r = 1 THEN 0 ELSE db.ledger[r - 1].balance) + db.ledger[r].amount

\* The same, of the rows the brokers write, whoever else writes beside them.
BrokerRowsChain ==
    \A r \in DOMAIN db.ledger : db.ledger[r].ref # 0 =>
        /\ db.ledger[r].prev = r - 1
        /\ db.ledger[r].balance =
              (IF r = 1 THEN 0 ELSE db.ledger[r - 1].balance) + db.ledger[r].amount

\* The sum of a sequence of numbers.
Total(f) ==
    LET upto[n \in 0..Len(f)] == IF n = 0 THEN 0 ELSE upto[n - 1] + f[n]
    IN  upto[Len(f)]

\* Two columns of a ledger: the shares of s that its rows moved in the books ps, and the amounts.
SharesOf(l, s, ps) ==
    [i \in DOMAIN l |-> IF l[i].symbol = s /\ l[i].portfolio \in ps THEN l[i].shares ELSE 0]
AmountsOf(l) == [i \in DOMAIN l |-> l[i].amount]

\* Orders, ledger and the two position books tell one story: what the fund holds
\* is the sum of the fills the ledger has, what a portfolio holds the sum of its
\* own, and a ledger that verifies has the sum of the amounts as its balance.
BooksAgree ==
    /\ \A s \in Symbols :
          db.positions[s] = Total(SharesOf(db.ledger, s, Portfolios \cup {NoPortfolio}))
    /\ \A p \in Portfolios, s \in Symbols :
          db.holdings[p][s] = Total(SharesOf(db.ledger, s, {p}))
    /\ VerifyHashChain(db.ledger) = {} =>
          GetLedgerBalance(db.ledger) = Total(AmountsOf(db.ledger))

\* The same of every statement of a broker's fill, whoever else writes beside it: its
\* order, its ledger row in the chain, and both position books are one story.
TablesAgree == BooksAgree /\ OrdersMatchLedger /\ BrokerRowsChain

\* A balance that lost an amount is never silent: where a row's balance does not
\* continue the row before it, verify_hash_chain reports that row.
LostAmountIsReported ==
    \A r \in DOMAIN db.ledger :
        \/ r \in VerifyHashChain(db.ledger)
        \/ db.ledger[r].balance =
              (IF r = 1 THEN 0 ELSE db.ledger[r - 1].balance) + db.ledger[r].amount

\* A commit never loses what another writer committed: the tables only grow.
CommitsAreKept ==
    [][/\ SubSeq(db'.ledger, 1, Len(db.ledger)) = db.ledger
       /\ SubSeq(db'.orders, 1, Len(db.orders)) = db.orders]_books

\* A refused, timed-out or crashed fill never leaves the database locked.
LockIsReleased == \A w \in Writers : lock = w ~> lock # w

\* Broker fills are atomic: the brokers implement the promise of AtomicBooks.
PromiseKept == Promise!Spec

\* jobs.py: "never double-deposit".  No run checks it: two processes started on
\* empty books do (README, 4).
OneOpeningDeposit ==
    \A q, r \in DOMAIN db.ledger :
        db.ledger[q].symbol = NoSymbol /\ db.ledger[r].symbol = NoSymbol => q = r

----------------------------------------------------------------------------
(***************************************************************************)
(* The inductive invariant behind the safety properties.  Its heart is     *)
(* `Written': while a writer holds the lock, `view' is `db' with exactly   *)
(* the statements that writer has run so far.  So `db' changes at a commit *)
(* only, by one whole fill or deposit, and a rollback undoes it whole.     *)
(***************************************************************************)
InTransaction == {"append", "fill", "portfolio", "commit"}

LockInv == \A w \in Writers : lock = w <=> pc[w] \in InTransaction

\* Which statements each kind of writer runs, and what its call holds meanwhile.
CallInv ==
    /\ \A w \in Brokers :
          /\ pc[w] \in Statements \ {"tail", "insert"}
          /\ pc[w] # "idle" => call[w] \in Calls /\ call[w].coid \in Coids
          /\ pc[w] = "portfolio" => call[w].portfolio \in Portfolios
    /\ \A w \in Recorders :
          /\ pc[w] \in {"idle", "tail", "insert", "fill", "commit"}
          /\ pc[w] # "idle" => call[w] \in Calls /\ call[w].portfolio = NoPortfolio
    /\ \A w \in Depositors : pc[w] \in {"idle", "tail", "insert", "commit"}

\* The ledger row of the call that w is serving.
RowOf(w) == IF w \in Depositors THEN Promise!DepositRow(OpeningCash, tail[w])
            ELSE IF w \in Recorders THEN Promise!FillRow(call[w], 0, tail[w])
            ELSE Promise!FillRow(call[w], Len(db.orders) + 1, Promise!LastRow(db.ledger))

FillApplied(w) == w \notin Depositors /\ pc[w] \in {"portfolio", "commit"}

HoldingApplied(w) ==
    w \in Brokers /\ pc[w] = "commit" /\ call[w].portfolio \in Portfolios

Written(w) ==
    [orders |-> IF w \in Brokers THEN Append(db.orders, Promise!OrderOf(call[w]))
                                 ELSE db.orders,
     ledger |-> IF pc[w] = "append" THEN db.ledger ELSE Append(db.ledger, RowOf(w)),
     positions |-> IF FillApplied(w)
                     THEN [db.positions EXCEPT ![call[w].symbol] =
                              @ + Promise!SignedShares(call[w])]
                     ELSE db.positions,
     holdings |-> IF HoldingApplied(w)
                    THEN [db.holdings EXCEPT ![call[w].portfolio][call[w].symbol] =
                             @ + Promise!SignedShares(call[w])]
                    ELSE db.holdings]

\* What the statements already run have checked still holds: nobody else commits.
Checked(w) ==
    /\ w \in Brokers => ~Promise!Submitted(db.orders, call[w].coid)
    /\ FillApplied(w) =>
          db.positions[call[w].symbol] + Promise!SignedShares(call[w]) >= 0
    /\ HoldingApplied(w) =>
          db.holdings[call[w].portfolio][call[w].symbol]
              + Promise!SignedShares(call[w]) >= 0

TransactionInv == \A w \in Writers : lock = w => view = Written(w) /\ Checked(w)

\* A tail that was read may be stale, but it is the number and balance of one row.
TailInv ==
    \A w \in Writers :
        /\ tail[w].row \in 0..Len(db.ledger)
        /\ tail[w].balance =
              IF tail[w].row = 0 THEN 0 ELSE db.ledger[tail[w].row].balance

IInv == TypeOK /\ LockInv /\ CallInv /\ NoPhantomShares /\ TransactionInv /\ TailInv

============================================================================

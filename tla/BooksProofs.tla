---------------------------- MODULE BooksProofs ----------------------------
(***************************************************************************)
(* Theorems about Books, for any sets of processes, symbols, portfolios,   *)
(* ids, quantities and prices, and any number of calls.                    *)
(***************************************************************************)
EXTENDS Books, NumberLemmas

\* The shares and the cash of a call are numbers, and its order row is an order.
LEMMA FillTypes ==
    ASSUME NEW c \in Calls
    PROVE  /\ Promise!SignedShares(c) \in Int
           /\ Promise!CashAmount(c) \in Int
           /\ c.coid \in Coids => Promise!OrderOf(c) \in Promise!Orders
<1>1. c.qty \in Nat /\ c.price \in Nat /\ c.fee \in Nat /\ c.side \in Promise!Sides
  BY BooksConstants DEF Calls
<1>2. c.qty * c.price \in Int
  BY <1>1
<1> QED
  BY <1>1, <1>2 DEF Calls, Promise!SignedShares, Promise!CashAmount,
                    Promise!OrderOf, Promise!Orders

\* What the last row tells the appender is a row number and a balance.
LEMMA LastRowType ==
    ASSUME NEW l \in Seq(Promise!Rows)
    PROVE  /\ Promise!LastRow(l) \in [row : Nat, balance : Int]
           /\ Promise!LastRow(l).row \in 0..Len(l)
           /\ Promise!LastRow(l).balance =
                 IF Promise!LastRow(l).row = 0 THEN 0
                                               ELSE l[Promise!LastRow(l).row].balance
<1>1. CASE l = <<>>
  BY <1>1 DEF Promise!LastRow, Promise!Tail0
<1>2. CASE l # <<>>
  <2>1. Len(l) \in 1..Len(l) /\ l[Len(l)] \in Promise!Rows
    BY <1>2
  <2>2. l[Len(l)].balance \in Int
    BY <2>1 DEF Promise!Rows
  <2> QED
    BY <1>2, <2>1, <2>2 DEF Promise!LastRow
<1> QED
  BY <1>1, <1>2

\* The row of a fill and the row of a deposit are rows of the ledger.
LEMMA RowTypes ==
    ASSUME NEW t \in [row : Nat, balance : Int]
    PROVE  /\ Promise!DepositRow(OpeningCash, t) \in Promise!Rows
           /\ \A c \in Calls, n \in Nat : Promise!FillRow(c, n, t) \in Promise!Rows
<1>1. Promise!DepositRow(OpeningCash, t) \in Promise!Rows
  BY BooksConstants DEF Promise!DepositRow, Promise!Rows
<1>2. ASSUME NEW c \in Calls, NEW n \in Nat
      PROVE  Promise!FillRow(c, n, t) \in Promise!Rows
  BY FillTypes DEF Promise!FillRow, Promise!Rows, Calls
<1> QED
  BY <1>1, <1>2

----------------------------------------------------------------------------
\* Type correctness.

\* The end of a call leaves every variable in its type.
LEMMA RollbackTypes ==
    ASSUME TypeOK, NEW w \in Writers, Rollback(w)
    PROVE  TypeOK'
<1>1. db' \in Tables /\ view' \in Tables
  BY DEF TypeOK, Rollback
<1>2. lock' \in Writers \cup {NoOne} /\ calls' \in 0..MaxCalls
  BY DEF TypeOK, Rollback, Finish
<1>3. pc' \in [Writers -> Statements] /\ call' \in [Writers -> Calls \cup {NoCall}]
  BY DEF TypeOK, Rollback, Finish, Goto, Statements
<1>4. tail' \in [Writers -> [row : Nat, balance : Int]]
  BY DEF TypeOK, Rollback, Finish, Promise!Tail0
<1> QED
  BY <1>1, <1>2, <1>3, <1>4 DEF TypeOK

\* What replacing one table writes, with the whole record spelled out.
LEMMA TableUpdates ==
    ASSUME NEW t \in Tables, NEW x
    PROVE  /\ [t EXCEPT !.orders = x] =
                 [orders |-> x, ledger |-> t.ledger,
                  positions |-> t.positions, holdings |-> t.holdings]
           /\ [t EXCEPT !.ledger = x] =
                 [orders |-> t.orders, ledger |-> x,
                  positions |-> t.positions, holdings |-> t.holdings]
           /\ [t EXCEPT !.positions = x] =
                 [orders |-> t.orders, ledger |-> t.ledger,
                  positions |-> x, holdings |-> t.holdings]
           /\ [t EXCEPT !.holdings = x] =
                 [orders |-> t.orders, ledger |-> t.ledger,
                  positions |-> t.positions, holdings |-> x]
BY DEF Tables

\* A transaction's writes keep its view in the tables' type.
LEMMA ViewTypes ==
    ASSUME NEW t \in Tables
    PROVE  /\ \A o \in Promise!Orders : [t EXCEPT !.orders = Append(@, o)] \in Tables
           /\ \A r \in Promise!Rows : [t EXCEPT !.ledger = Append(@, r)] \in Tables
           /\ \A s \in Symbols, n \in Int : [t EXCEPT !.positions[s] = @ + n] \in Tables
           /\ \A p \in Portfolios, s \in Symbols, n \in Int :
                 [t EXCEPT !.holdings[p][s] = @ + n] \in Tables
<1>1. /\ t.orders \in Seq(Promise!Orders) /\ t.ledger \in Seq(Promise!Rows)
      /\ t.positions \in [Symbols -> Int] /\ t.holdings \in [Portfolios -> [Symbols -> Int]]
  BY DEF Tables
<1>2. ASSUME NEW o \in Promise!Orders
      PROVE  Append(t.orders, o) \in Seq(Promise!Orders)
  BY <1>1
<1>3. ASSUME NEW r \in Promise!Rows
      PROVE  Append(t.ledger, r) \in Seq(Promise!Rows)
  BY <1>1
<1>4. ASSUME NEW s \in Symbols, NEW n \in Int
      PROVE  [t.positions EXCEPT ![s] = @ + n] \in [Symbols -> Int]
  BY <1>1
<1>5. ASSUME NEW p \in Portfolios, NEW s \in Symbols, NEW n \in Int
      PROVE  [t.holdings EXCEPT ![p][s] = @ + n] \in [Portfolios -> [Symbols -> Int]]
  BY <1>1
<1> QED
  BY <1>1, <1>2, <1>3, <1>4, <1>5, TableUpdates DEF Tables

\* Replacing the quantity and the fee of a call by numbers gives a call.
LEMMA CallUpdates ==
    ASSUME NEW c \in Calls, NEW q \in Nat, NEW e \in Fees
    PROVE  /\ [c EXCEPT !.qty = q] \in Calls
           /\ [c EXCEPT !.qty = q, !.fee = e] \in Calls
<1>1. ASSUME NEW d \in Calls
      PROVE  /\ [d EXCEPT !.qty = q] =
                   [symbol |-> d.symbol, side |-> d.side, qty |-> q, price |-> d.price,
                    fee |-> d.fee, coid |-> d.coid, portfolio |-> d.portfolio,
                    exec |-> d.exec]
             /\ [d EXCEPT !.fee = e] =
                   [symbol |-> d.symbol, side |-> d.side, qty |-> d.qty,
                    price |-> d.price, fee |-> e, coid |-> d.coid,
                    portfolio |-> d.portfolio, exec |-> d.exec]
  BY DEF Calls
<1>2. ASSUME NEW d \in Calls
      PROVE  [d EXCEPT !.qty = q] \in Calls /\ [d EXCEPT !.fee = e] \in Calls
  <2>1. /\ d.symbol \in Symbols /\ d.side \in Promise!Sides /\ d.price \in Prices
        /\ d.fee \in Fees /\ d.qty \in Nat /\ d.coid \in Coids \cup {NoCoid}
        /\ d.portfolio \in Portfolios \cup {NoPortfolio} /\ d.exec \in Execs
    BY DEF Calls
  <2> QED
    BY <1>1, <2>1 DEF Calls
<1> DEFINE cq == [c EXCEPT !.qty = q]
<1>3. cq \in Calls
  BY <1>2
<1>4. [cq EXCEPT !.fee = e] \in Calls
  BY <1>2, <1>3
<1> QED
  BY <1>3, <1>4

\* What the clamp sells is a quantity, not more than is held when it clamps.
LEMMA ClampType ==
    ASSUME NEW q \in Nat, NEW have \in Int
    PROVE  Clamp(q, have) \in Nat
BY DEF Clamp

\* Every step keeps the types.
LEMMA TypeStep ==
    ASSUME TypeOK, CallInv, [Next]_books
    PROVE  TypeOK'
<1> USE DEF Writers
<1>1. ASSUME NEW w \in Brokers, Submit(w) PROVE TypeOK'
  <2>1. call' \in [Writers -> Calls \cup {NoCall}]
    <3>1. PICK c \in [symbol : Symbols, side : Promise!Sides, qty : Quantities,
                      price : Prices, fee : {0}, coid : Coids,
                      portfolio : Portfolios \cup {NoPortfolio},
                      exec : {"paper", "realistic"}] : call' = [call EXCEPT ![w] = c]
      BY <1>1 DEF Submit
    <3>2. c \in Calls
      BY BooksConstants DEF Calls, Execs
    <3> QED
      BY <3>1, <3>2 DEF TypeOK
  <2>2. pc' \in [Writers -> Statements]
    BY <1>1 DEF Submit, TypeOK, Goto, Statements
  <2>3. calls' \in 0..MaxCalls
    BY <1>1, BooksConstants DEF Submit, TypeOK
  <2> QED
    BY <1>1, <2>1, <2>2, <2>3 DEF Submit, TypeOK
<1>2. ASSUME NEW w \in Brokers, Snapshot(w) PROVE TypeOK'
  <2>1. CASE Rollback(w)
    BY <2>1, RollbackTypes
  <2>2. CASE ~Rollback(w)
    <3>1. call[w] \in Calls
      BY <1>2 DEF Snapshot, CallInv
    <3>2. PICK q \in 1..call[w].qty, e \in Fees :
             call' = [call EXCEPT ![w].qty = q, ![w].fee = e]
      BY <1>2, <2>2 DEF Snapshot
    <3>3. call[w].qty \in Nat
      BY <3>1 DEF Calls
    <3>4. q \in Nat
      BY <3>3
    <3>5. [call[w] EXCEPT !.qty = q, !.fee = e] \in Calls
      BY <3>1, <3>4, CallUpdates
    <3>6. call' \in [Writers -> Calls \cup {NoCall}]
      BY <3>2, <3>5 DEF TypeOK
    <3> QED
      BY <1>2, <2>2, <3>6 DEF Snapshot, TypeOK, Goto, Statements
  <2> QED
    BY <2>1, <2>2
<1>3. ASSUME NEW w \in Brokers, PreFlight(w) PROVE TypeOK'
  BY <1>3, RollbackTypes DEF PreFlight, TypeOK, Goto, Statements
<1>4. ASSUME NEW w \in Brokers, Quote(w) PROVE TypeOK'
  <2>1. CASE Rollback(w)
    BY <2>1, RollbackTypes
  <2>2. CASE ~Rollback(w)
    <3> DEFINE have == db.positions[call[w].symbol]
               q == IF call[w].side = "sell" THEN Clamp(call[w].qty, have)
                                             ELSE call[w].qty
    <3>1. call[w] \in Calls
      BY <1>4 DEF Quote, CallInv
    <3>2. have \in Int /\ call[w].qty \in Nat
      BY <3>1 DEF TypeOK, Tables, Calls
    <3>3. q \in Nat
      BY <3>2, ClampType
    <3>4. call' = [call EXCEPT ![w].qty = q] /\ Goto(w, "order")
      BY <1>4, <2>2 DEF Quote
    <3>5. call' \in [Writers -> Calls \cup {NoCall}]
      BY <3>1, <3>3, <3>4, CallUpdates DEF TypeOK, Calls
    <3> QED
      BY <1>4, <2>2, <3>4, <3>5 DEF Quote, TypeOK, Goto, Statements
  <2> QED
    BY <2>1, <2>2
<1>5. ASSUME NEW w \in Brokers, InsertOrder(w) PROVE TypeOK'
  <2>1. CASE Rollback(w)
    BY <2>1, RollbackTypes
  <2>2. CASE ~Rollback(w)
    <3>1. call[w] \in Calls /\ call[w].coid \in Coids
      BY <1>5 DEF InsertOrder, CallInv
    <3>2. view' = [db EXCEPT !.orders = Append(@, Promise!OrderOf(call[w]))]
      BY <1>5, <2>2 DEF InsertOrder
    <3>3. view' \in Tables
      BY <3>1, <3>2, FillTypes, ViewTypes DEF TypeOK
    <3> QED
      BY <1>5, <2>2, <3>3 DEF InsertOrder, TypeOK, Goto, Statements
  <2> QED
    BY <2>1, <2>2
<1>6. ASSUME NEW w \in Brokers, AppendEntry(w) PROVE TypeOK'
  <2>1. call[w] \in Calls
    BY <1>6 DEF AppendEntry, CallInv
  <2>2. Len(view.orders) \in Nat /\ Promise!LastRow(view.ledger) \in [row : Nat, balance : Int]
    BY LastRowType DEF TypeOK, Tables
  <2>3. view' \in Tables
    BY <1>6, <2>1, <2>2, RowTypes, ViewTypes DEF AppendEntry, TypeOK
  <2> QED
    BY <1>6, <2>3 DEF AppendEntry, TypeOK, Goto, Statements
<1>7. ASSUME NEW w \in Recorders, RecordFill(w) PROVE TypeOK'
  <2>1. call' \in [Writers -> Calls \cup {NoCall}]
    <3>1. PICK c \in [symbol : Symbols, side : Promise!Sides, qty : Quantities,
                      price : Prices, fee : {0}, coid : {NoCoid},
                      portfolio : {NoPortfolio}, exec : {"manual"}] :
             call' = [call EXCEPT ![w] = c]
      BY <1>7 DEF RecordFill
    <3>2. c \in Calls
      BY BooksConstants DEF Calls, Execs
    <3> QED
      BY <3>1, <3>2 DEF TypeOK
  <2>2. calls' \in 0..MaxCalls
    BY <1>7, BooksConstants DEF RecordFill, TypeOK
  <2> QED
    BY <1>7, <2>1, <2>2 DEF RecordFill, TypeOK, Goto, Statements
<1>8. ASSUME NEW w \in Depositors, CheckEmpty(w) PROVE TypeOK'
  <2>1. calls' \in 0..MaxCalls
    BY <1>8, BooksConstants DEF CheckEmpty, TypeOK
  <2> QED
    BY <1>8, <2>1 DEF CheckEmpty, TypeOK, Goto, Statements
<1>9. ASSUME NEW w \in Recorders \cup Depositors, ReadTail(w) PROVE TypeOK'
  <2>1. Promise!LastRow(db.ledger) \in [row : Nat, balance : Int]
    BY LastRowType DEF TypeOK, Tables
  <2> QED
    BY <1>9, <2>1 DEF ReadTail, TypeOK, Goto, Statements
<1>10. ASSUME NEW w \in Recorders \cup Depositors, InsertEntry(w) PROVE TypeOK'
  <2>1. tail[w] \in [row : Nat, balance : Int]
    BY DEF TypeOK
  <2>2. w \in Depositors \/ call[w] \in Calls
    BY <1>10 DEF InsertEntry, CallInv
  <2>3. view' \in Tables
    BY <1>10, <2>1, <2>2, RowTypes, ViewTypes DEF InsertEntry, TypeOK
  <2> QED
    BY <1>10, <2>3 DEF InsertEntry, TypeOK, Goto, Statements
<1>11. ASSUME NEW w \in Writers, ApplyFill(w) PROVE TypeOK'
  <2>1. CASE Rollback(w)
    BY <2>1, RollbackTypes
  <2>2. CASE ~Rollback(w)
    <3>1. call[w] \in Calls
      BY <1>11 DEF ApplyFill, CallInv
    <3>2. call[w].symbol \in Symbols /\ Promise!SignedShares(call[w]) \in Int
      BY <3>1, FillTypes DEF Calls
    <3>3. view' \in Tables
      BY <1>11, <2>2, <3>2, ViewTypes DEF ApplyFill, TypeOK
    <3> QED
      BY <1>11, <2>2, <3>3 DEF ApplyFill, TypeOK, Goto, Statements
  <2> QED
    BY <2>1, <2>2
<1>12. ASSUME NEW w \in Writers, ApplyPortfolioFill(w) PROVE TypeOK'
  <2>1. CASE Rollback(w)
    BY <2>1, RollbackTypes
  <2>2. CASE ~Rollback(w)
    <3>1. w \in Brokers /\ call[w] \in Calls /\ call[w].portfolio \in Portfolios
      BY <1>12 DEF ApplyPortfolioFill, CallInv
    <3>2. call[w].symbol \in Symbols /\ Promise!SignedShares(call[w]) \in Int
      BY <3>1, FillTypes DEF Calls
    <3>3. view' \in Tables
      BY <1>12, <2>2, <3>1, <3>2, ViewTypes DEF ApplyPortfolioFill, TypeOK
    <3> QED
      BY <1>12, <2>2, <3>3 DEF ApplyPortfolioFill, TypeOK, Goto, Statements
  <2> QED
    BY <2>1, <2>2
<1>13. ASSUME NEW w \in Writers, Commit(w) PROVE TypeOK'
  BY <1>13 DEF Commit, Finish, TypeOK, Goto, Statements, Promise!Tail0
<1>14. ASSUME NEW w \in Writers, Busy(w) \/ Crash(w) PROVE TypeOK'
  BY <1>14, RollbackTypes DEF Busy, Crash
<1>15. CASE UNCHANGED books
  BY <1>15 DEF books, TypeOK
<1> QED
  BY <1>1, <1>2, <1>3, <1>4, <1>5, <1>6, <1>7, <1>8, <1>9, <1>10, <1>11, <1>12,
     <1>13, <1>14, <1>15 DEF Next, BrokerStep, EntryStep, BookStep

----------------------------------------------------------------------------
\* Who holds the lock, and what a call carries.

\* A writer holds the lock exactly from its first write to its commit or rollback.
LEMMA LockStep ==
    ASSUME TypeOK, CallInv, LockInv, [Next]_books
    PROVE  LockInv'
<1> USE DEF LockInv, InTransaction, Goto, TypeOK
<1>1. ASSUME NEW w \in Writers, Rollback(w) PROVE LockInv'
  BY <1>1, BooksProcesses DEF Rollback, Finish, Writers
<1>2. ASSUME NEW w \in Brokers, Submit(w) PROVE LockInv'
  BY <1>2 DEF Submit, Writers
<1>3. ASSUME NEW w \in Brokers, Snapshot(w) PROVE LockInv'
  BY <1>1, <1>3 DEF Snapshot, Writers
<1>4. ASSUME NEW w \in Brokers, PreFlight(w) PROVE LockInv'
  BY <1>1, <1>4 DEF PreFlight, Writers
<1>5. ASSUME NEW w \in Brokers, Quote(w) PROVE LockInv'
  BY <1>1, <1>5 DEF Quote, Writers
<1>6. ASSUME NEW w \in Brokers, InsertOrder(w) PROVE LockInv'
  BY <1>1, <1>6, BooksProcesses DEF InsertOrder, Writers
<1>7. ASSUME NEW w \in Brokers, AppendEntry(w) PROVE LockInv'
  BY <1>7 DEF AppendEntry, Writers
<1>8. ASSUME NEW w \in Recorders, RecordFill(w) PROVE LockInv'
  BY <1>8 DEF RecordFill, Writers
<1>9. ASSUME NEW w \in Depositors, CheckEmpty(w) PROVE LockInv'
  BY <1>9 DEF CheckEmpty, Writers
<1>10. ASSUME NEW w \in Recorders \cup Depositors, ReadTail(w) PROVE LockInv'
  BY <1>10 DEF ReadTail, Writers
<1>11. ASSUME NEW w \in Recorders \cup Depositors, InsertEntry(w) PROVE LockInv'
  BY <1>11, BooksProcesses DEF InsertEntry, Writers
<1>12. ASSUME NEW w \in Writers, ApplyFill(w) PROVE LockInv'
  BY <1>1, <1>12 DEF ApplyFill
<1>13. ASSUME NEW w \in Writers, ApplyPortfolioFill(w) PROVE LockInv'
  BY <1>1, <1>13 DEF ApplyPortfolioFill
<1>14. ASSUME NEW w \in Writers, Commit(w) PROVE LockInv'
  BY <1>14, BooksProcesses DEF Commit, Finish, Writers
<1>15. ASSUME NEW w \in Writers, Busy(w) \/ Crash(w) PROVE LockInv'
  BY <1>1, <1>15 DEF Busy, Crash
<1>16. CASE UNCHANGED books
  BY <1>16 DEF books
<1> QED
  BY <1>2, <1>3, <1>4, <1>5, <1>6, <1>7, <1>8, <1>9, <1>10, <1>11, <1>12, <1>13,
     <1>14, <1>15, <1>16 DEF Next, BrokerStep, EntryStep, BookStep, Writers

\* Each kind of writer stays on its own statements, and its call keeps its shape.
LEMMA CallStep ==
    ASSUME TypeOK, CallInv, [Next]_books
    PROVE  CallInv'
<1> USE DEF CallInv, Goto, TypeOK, Statements
<1>1. ASSUME NEW w \in Writers, Rollback(w) PROVE CallInv'
  BY <1>1 DEF Rollback, Finish, Writers
<1>2. ASSUME NEW w \in Brokers, Submit(w) PROVE CallInv'
  <2>1. PICK c \in [symbol : Symbols, side : Promise!Sides, qty : Quantities,
                    price : Prices, fee : {0}, coid : Coids,
                    portfolio : Portfolios \cup {NoPortfolio},
                    exec : {"paper", "realistic"}] :
           call' = [call EXCEPT ![w] = c] /\ pc'[w] \in {"preflight", "snapshot"}
    BY <1>2 DEF Submit, Writers
  <2>2. c \in Calls /\ c.coid \in Coids
    BY BooksConstants DEF Calls, Execs
  <2> QED
    BY <1>2, <2>1, <2>2, BooksProcesses DEF Submit, Writers
<1>3. ASSUME NEW w \in Brokers, Snapshot(w) PROVE CallInv'
  <2>1. CASE Rollback(w)
    BY <1>1, <2>1 DEF Writers
  <2>2. CASE ~Rollback(w)
    <3>1. PICK q \in 1..call[w].qty, e \in Fees :
             call' = [call EXCEPT ![w].qty = q, ![w].fee = e]
      BY <1>3, <2>2 DEF Snapshot
    <3>2. call[w] \in Calls /\ call[w].coid \in Coids
      BY <1>3 DEF Snapshot
    <3>3. call[w].qty \in Nat
      BY <3>2 DEF Calls
    <3>4. q \in Nat
      BY <3>3
    <3>5. [call[w] EXCEPT !.qty = q, !.fee = e] \in Calls
      BY <3>2, <3>4, CallUpdates
    <3>6. call'[w] \in Calls /\ call'[w].coid \in Coids
      BY <3>1, <3>2, <3>5 DEF Writers, Calls
    <3>7. \A v \in Writers : v # w => call'[v] = call[v]
      BY <3>1 DEF Writers
    <3> QED
      BY <1>3, <2>2, <3>6, <3>7, BooksProcesses DEF Snapshot, Writers
  <2> QED
    BY <2>1, <2>2
<1>4. ASSUME NEW w \in Brokers, PreFlight(w) PROVE CallInv'
  BY <1>1, <1>4, BooksProcesses DEF PreFlight, Writers
<1>5. ASSUME NEW w \in Brokers, Quote(w) PROVE CallInv'
  <2>1. CASE Rollback(w)
    BY <1>1, <2>1 DEF Writers
  <2>2. CASE ~Rollback(w)
    <3> DEFINE have == db.positions[call[w].symbol]
               q == IF call[w].side = "sell" THEN Clamp(call[w].qty, have)
                                             ELSE call[w].qty
    <3>1. call[w] \in Calls /\ call[w].coid \in Coids
      BY <1>5 DEF Quote
    <3>2. have \in Int /\ call[w].qty \in Nat
      BY <3>1 DEF Tables, Calls
    <3>3. q \in Nat
      BY <3>2, ClampType
    <3>4. call' = [call EXCEPT ![w].qty = q] /\ Goto(w, "order")
      BY <1>5, <2>2 DEF Quote
    <3>5. [call[w] EXCEPT !.qty = q] \in Calls
      BY <3>1, <3>3, CallUpdates, BooksConstants
    <3>6. call'[w] \in Calls /\ call'[w].coid \in Coids
      BY <3>1, <3>4, <3>5 DEF Writers, Calls
    <3>7. \A v \in Writers : v # w => call'[v] = call[v]
      BY <3>4 DEF Writers
    <3> HIDE DEF q
    <3> QED
      BY <1>5, <3>4, <3>6, <3>7, BooksProcesses DEF Writers
  <2> QED
    BY <2>1, <2>2
<1>6. ASSUME NEW w \in Brokers, InsertOrder(w) PROVE CallInv'
  BY <1>1, <1>6, BooksProcesses DEF InsertOrder, Writers
<1>7. ASSUME NEW w \in Brokers, AppendEntry(w) PROVE CallInv'
  BY <1>7, BooksProcesses DEF AppendEntry, Writers
<1>8. ASSUME NEW w \in Recorders, RecordFill(w) PROVE CallInv'
  <2>1. PICK c \in [symbol : Symbols, side : Promise!Sides, qty : Quantities,
                    price : Prices, fee : {0}, coid : {NoCoid},
                    portfolio : {NoPortfolio}, exec : {"manual"}] :
           call' = [call EXCEPT ![w] = c]
    BY <1>8 DEF RecordFill
  <2>2. c \in Calls /\ c.portfolio = NoPortfolio
    BY BooksConstants DEF Calls, Execs
  <2> QED
    BY <1>8, <2>1, <2>2, BooksProcesses DEF RecordFill, Writers
<1>9. ASSUME NEW w \in Depositors, CheckEmpty(w) PROVE CallInv'
  BY <1>9, BooksProcesses DEF CheckEmpty, Writers
<1>10. ASSUME NEW w \in Recorders \cup Depositors, ReadTail(w) PROVE CallInv'
  BY <1>10, BooksProcesses DEF ReadTail, Writers
<1>11. ASSUME NEW w \in Recorders \cup Depositors, InsertEntry(w) PROVE CallInv'
  BY <1>11, BooksProcesses DEF InsertEntry, Writers
<1>12. ASSUME NEW w \in Writers, ApplyFill(w) PROVE CallInv'
  <2>1. w \in Recorders => call[w].portfolio \notin Portfolios
    BY <1>12, BooksConstants DEF ApplyFill
  <2> QED
    BY <1>1, <1>12, <2>1, BooksProcesses DEF ApplyFill, Writers
<1>13. ASSUME NEW w \in Writers, ApplyPortfolioFill(w) PROVE CallInv'
  BY <1>1, <1>13, BooksProcesses DEF ApplyPortfolioFill, Writers
<1>14. ASSUME NEW w \in Writers, Commit(w) PROVE CallInv'
  BY <1>14, BooksProcesses DEF Commit, Finish, Writers
<1>15. ASSUME NEW w \in Writers, Busy(w) \/ Crash(w) PROVE CallInv'
  BY <1>1, <1>15 DEF Busy, Crash
<1>16. CASE UNCHANGED books
  BY <1>16 DEF books
<1> QED
  BY <1>2, <1>3, <1>4, <1>5, <1>6, <1>7, <1>8, <1>9, <1>10, <1>11, <1>12, <1>13,
     <1>14, <1>15, <1>16 DEF Next, BrokerStep, EntryStep, BookStep, Writers

----------------------------------------------------------------------------
\* The transaction: view is db with what the holder of the lock has written.

\* A transaction is not touched by a step that leaves its tables and its call alone.
LEMMA TransactionUntouched ==
    ASSUME TransactionInv, NEW v \in Writers, lock = v, db' = db, view' = view,
           pc'[v] = pc[v], call'[v] = call[v], tail'[v] = tail[v]
    PROVE  (view = Written(v) /\ Checked(v))'
<1>1. Written(v)' = Written(v)
  BY DEF Written, RowOf, FillApplied, HoldingApplied
<1>2. Checked(v)' <=> Checked(v)
  BY DEF Checked, FillApplied, HoldingApplied
<1> QED
  BY <1>1, <1>2 DEF TransactionInv

\* The order row is the first write of a broker's transaction.
LEMMA InsertOrderWrites ==
    ASSUME IInv, NEW w \in Brokers, InsertOrder(w), ~Rollback(w)
    PROVE  (view = Written(w) /\ Checked(w))'
<1>1. /\ ~Promise!Submitted(db.orders, call[w].coid)
      /\ view' = [db EXCEPT !.orders = Append(@, Promise!OrderOf(call[w]))]
      /\ pc'[w] = "append" /\ db' = db /\ call' = call /\ tail' = tail
  BY DEF InsertOrder, Goto, IInv, TypeOK, Writers
<1>2. view' = [orders |-> Append(db.orders, Promise!OrderOf(call[w])),
               ledger |-> db.ledger, positions |-> db.positions, holdings |-> db.holdings]
  BY <1>1, TableUpdates DEF IInv, TypeOK
<1>3. ~FillApplied(w)' /\ ~HoldingApplied(w)'
  BY <1>1 DEF FillApplied, HoldingApplied
<1>4. view' = Written(w)'
  BY <1>1, <1>2, <1>3 DEF Written
<1> QED
  BY <1>1, <1>3, <1>4 DEF Checked

\* The ledger row comes next, chained to the last committed row.
LEMMA AppendEntryWrites ==
    ASSUME IInv, NEW w \in Brokers, AppendEntry(w)
    PROVE  (view = Written(w) /\ Checked(w))'
<1>1. /\ pc[w] = "append" /\ pc'[w] = "fill"
      /\ view' = [view EXCEPT !.ledger = Append(@,
                     Promise!FillRow(call[w], Len(view.orders), Promise!LastRow(@)))]
      /\ db' = db /\ call' = call /\ tail' = tail
  BY DEF AppendEntry, Goto, IInv, TypeOK, Writers
<1>2. view = Written(w) /\ Checked(w)
  BY <1>1 DEF IInv, LockInv, InTransaction, TransactionInv, Writers
<1>3. /\ view.orders = Append(db.orders, Promise!OrderOf(call[w]))
      /\ view.ledger = db.ledger /\ view.positions = db.positions
      /\ view.holdings = db.holdings
  BY <1>1, <1>2 DEF Written, FillApplied, HoldingApplied
<1>4. Len(view.orders) = Len(db.orders) + 1
  BY <1>3 DEF IInv, TypeOK, Tables
<1>5. view' = [orders |-> view.orders, ledger |-> Append(view.ledger,
                     Promise!FillRow(call[w], Len(view.orders), Promise!LastRow(view.ledger))),
               positions |-> view.positions, holdings |-> view.holdings]
  BY <1>1, TableUpdates DEF IInv, TypeOK
<1>6. ~FillApplied(w)' /\ ~HoldingApplied(w)'
  BY <1>1 DEF FillApplied, HoldingApplied
<1>7. RowOf(w)' = Promise!FillRow(call[w], Len(db.orders) + 1, Promise!LastRow(db.ledger))
  BY <1>1, BooksProcesses DEF RowOf
<1>8. view' = Written(w)'
  BY <1>1, <1>3, <1>4, <1>5, <1>6, <1>7 DEF Written
<1> QED
  BY <1>1, <1>2, <1>6, <1>8 DEF Checked

\* A manual entry or a deposit writes its ledger row first.
LEMMA InsertEntryWrites ==
    ASSUME IInv, NEW w \in Recorders \cup Depositors, InsertEntry(w)
    PROVE  (view = Written(w) /\ Checked(w))'
<1>1. /\ pc'[w] = IF w \in Depositors THEN "commit" ELSE "fill"
      /\ view' = [db EXCEPT !.ledger = Append(@,
                     IF w \in Depositors THEN Promise!DepositRow(OpeningCash, tail[w])
                                         ELSE Promise!FillRow(call[w], 0, tail[w]))]
      /\ db' = db /\ call' = call /\ tail' = tail
  BY DEF InsertEntry, Goto, IInv, TypeOK, Writers
<1>2. RowOf(w)' = IF w \in Depositors THEN Promise!DepositRow(OpeningCash, tail[w])
                                      ELSE Promise!FillRow(call[w], 0, tail[w])
  BY <1>1 DEF RowOf
<1>3. view' = [orders |-> db.orders, ledger |-> Append(db.ledger, RowOf(w)'),
               positions |-> db.positions, holdings |-> db.holdings]
  BY <1>1, <1>2, TableUpdates DEF IInv, TypeOK
<1>4. ~FillApplied(w)' /\ ~HoldingApplied(w)' /\ w \notin Brokers
  BY <1>1, BooksProcesses DEF FillApplied, HoldingApplied
<1>5. view' = Written(w)'
  BY <1>1, <1>3, <1>4 DEF Written
<1> QED
  BY <1>4, <1>5 DEF Checked

\* The fund's position follows, unless it would go below zero.
LEMMA ApplyFillWrites ==
    ASSUME IInv, NEW w \in Writers, ApplyFill(w), ~Rollback(w)
    PROVE  (view = Written(w) /\ Checked(w))'
<1> DEFINE c == call[w]
<1>1. /\ pc[w] = "fill" /\ ~(c.side = "sell" /\ c.qty > view.positions[c.symbol])
      /\ view' = [view EXCEPT !.positions[c.symbol] = @ + Promise!SignedShares(c)]
      /\ pc'[w] = IF c.portfolio \in Portfolios THEN "portfolio" ELSE "commit"
      /\ db' = db /\ call' = call /\ tail' = tail
  BY DEF ApplyFill, Goto, IInv, TypeOK
<1>2. view = Written(w) /\ Checked(w)
  BY <1>1 DEF IInv, LockInv, InTransaction, TransactionInv
<1>3. w \notin Depositors /\ c \in Calls
  BY <1>1 DEF IInv, CallInv, Writers
<1>4. /\ view.ledger = Append(db.ledger, RowOf(w)) /\ view.positions = db.positions
      /\ view.holdings = db.holdings
      /\ view.orders = IF w \in Brokers THEN Append(db.orders, Promise!OrderOf(c))
                                        ELSE db.orders
  BY <1>1, <1>2 DEF Written, FillApplied, HoldingApplied
<1>5. view' = [orders |-> view.orders, ledger |-> view.ledger,
               positions |-> [view.positions EXCEPT ![c.symbol] =
                                 @ + Promise!SignedShares(c)],
               holdings |-> view.holdings]
  <2> DEFINE h == [view.positions EXCEPT ![c.symbol] = @ + Promise!SignedShares(c)]
  <2>1. [view EXCEPT !.positions = h] =
            [orders |-> view.orders, ledger |-> view.ledger,
             positions |-> h, holdings |-> view.holdings]
    <3> HIDE DEF h
    <3> QED
      BY TableUpdates DEF IInv, TypeOK
  <2> QED
    BY <1>1, <2>1
<1>6. FillApplied(w)' /\ ~HoldingApplied(w)' /\ RowOf(w)' = RowOf(w)
  BY <1>1, <1>3 DEF FillApplied, HoldingApplied, RowOf
<1>7. view' = Written(w)'
  BY <1>1, <1>4, <1>5, <1>6 DEF Written
<1>8. db.positions[c.symbol] + Promise!SignedShares(c) >= 0
  <2>1. db.positions[c.symbol] \in Int /\ db.positions[c.symbol] >= 0
    BY <1>3 DEF IInv, TypeOK, Tables, NoPhantomShares, Calls
  <2>2. c.qty \in Nat
    BY <1>3 DEF Calls
  <2> QED
    BY <1>1, <1>3, <1>4, <2>1, <2>2 DEF Promise!SignedShares, Promise!Sides, Calls
<1> QED
  BY <1>1, <1>2, <1>6, <1>7, <1>8 DEF Checked

\* The portfolio's book comes last, with the same check.
LEMMA ApplyPortfolioFillWrites ==
    ASSUME IInv, NEW w \in Writers, ApplyPortfolioFill(w), ~Rollback(w)
    PROVE  (view = Written(w) /\ Checked(w))'
<1> DEFINE c == call[w]
<1>1. /\ pc[w] = "portfolio" /\ pc'[w] = "commit"
      /\ ~(c.side = "sell" /\ c.qty > view.holdings[c.portfolio][c.symbol])
      /\ view' = [view EXCEPT !.holdings[c.portfolio][c.symbol] =
                     @ + Promise!SignedShares(c)]
      /\ db' = db /\ call' = call /\ tail' = tail
  BY DEF ApplyPortfolioFill, Goto, IInv, TypeOK
<1>2. view = Written(w) /\ Checked(w)
  BY <1>1 DEF IInv, LockInv, InTransaction, TransactionInv
<1>3. w \in Brokers /\ w \notin Depositors /\ c \in Calls /\ c.portfolio \in Portfolios
  BY <1>1, BooksProcesses DEF IInv, CallInv, Writers
<1>4. FillApplied(w) /\ ~HoldingApplied(w)
  BY <1>1, <1>3 DEF FillApplied, HoldingApplied
<1>5. /\ view.ledger = Append(db.ledger, RowOf(w)) /\ view.holdings = db.holdings
      /\ view.orders = Append(db.orders, Promise!OrderOf(c))
      /\ view.positions = [db.positions EXCEPT ![c.symbol] =
                              @ + Promise!SignedShares(c)]
  BY <1>1, <1>2, <1>3, <1>4 DEF Written
<1>6. view' = [orders |-> view.orders, ledger |-> view.ledger,
               positions |-> view.positions,
               holdings |-> [view.holdings EXCEPT ![c.portfolio][c.symbol] =
                                @ + Promise!SignedShares(c)]]
  <2> DEFINE h == [view.holdings EXCEPT ![c.portfolio][c.symbol] =
                      @ + Promise!SignedShares(c)]
  <2>1. [view EXCEPT !.holdings = h] =
            [orders |-> view.orders, ledger |-> view.ledger,
             positions |-> view.positions, holdings |-> h]
    <3> HIDE DEF h
    <3> QED
      BY TableUpdates DEF IInv, TypeOK
  <2> QED
    BY <1>1, <2>1
<1>7. FillApplied(w)' /\ HoldingApplied(w)' /\ RowOf(w)' = RowOf(w)
  BY <1>1, <1>3 DEF FillApplied, HoldingApplied, RowOf
<1>8. view' = Written(w)'
  BY <1>1, <1>3, <1>5, <1>6, <1>7 DEF Written
<1>9. db.holdings[c.portfolio][c.symbol] + Promise!SignedShares(c) >= 0
  <2>1. /\ db.holdings[c.portfolio][c.symbol] \in Int
        /\ db.holdings[c.portfolio][c.symbol] >= 0
    BY <1>3 DEF IInv, TypeOK, Tables, NoPhantomShares, Calls
  <2>2. c.qty \in Nat
    BY <1>3 DEF Calls
  <2> QED
    BY <1>1, <1>3, <1>5, <2>1, <2>2 DEF Promise!SignedShares, Promise!Sides, Calls
<1> QED
  BY <1>1, <1>2, <1>4, <1>7, <1>8, <1>9 DEF Checked

\* A step that touches neither the tables nor the lock, by a writer outside a
\* transaction, leaves every transaction as it was.
LEMMA OutsideStep ==
    ASSUME IInv, NEW w \in Writers, pc[w] \notin InTransaction,
           db' = db, view' = view, lock' = lock,
           \A v \in Writers : v # w =>
               pc'[v] = pc[v] /\ call'[v] = call[v] /\ tail'[v] = tail[v]
    PROVE  TransactionInv'
<1> SUFFICES ASSUME NEW v \in Writers, lock' = v
             PROVE  (view = Written(v) /\ Checked(v))'
  BY DEF TransactionInv
<1>1. lock = v /\ v # w
  BY DEF IInv, LockInv
<1> QED
  BY <1>1, TransactionUntouched DEF IInv

\* A rollback ends its own transaction and leaves another's as it was.
LEMMA RollbackStep ==
    ASSUME IInv, NEW w \in Writers, Rollback(w)
    PROVE  TransactionInv'
<1> SUFFICES ASSUME NEW v \in Writers, lock' = v
             PROVE  (view = Written(v) /\ Checked(v))'
  BY DEF TransactionInv
<1>1. lock = v /\ v # w
  BY BooksProcesses DEF Rollback, Finish, Writers
<1>2. /\ db' = db /\ view' = view
      /\ pc'[v] = pc[v] /\ call'[v] = call[v] /\ tail'[v] = tail[v]
  BY <1>1 DEF Rollback, Finish, Goto, IInv, TypeOK
<1> QED
  BY <1>1, <1>2, TransactionUntouched DEF IInv

\* A write is made by the one writer that has the lock after it.
LEMMA WriteStep ==
    ASSUME NEW w \in Writers, lock' = w, (view = Written(w) /\ Checked(w))'
    PROVE  TransactionInv'
BY DEF TransactionInv

\* Every step keeps the transaction invariant.
LEMMA TransactionStep ==
    ASSUME IInv, [Next]_books
    PROVE  TransactionInv'
<1> USE DEF IInv, Goto
<1>1. ASSUME NEW w \in Brokers, Submit(w) PROVE TransactionInv'
  BY <1>1, OutsideStep DEF Submit, InTransaction, TypeOK, Writers
<1>2. ASSUME NEW w \in Brokers, Snapshot(w) PROVE TransactionInv'
  <2>1. w \in Writers
    BY DEF Writers
  <2>2. CASE ~Rollback(w)
    <3>1. PICK q \in 1..call[w].qty, e \in Fees :
             call' = [call EXCEPT ![w].qty = q, ![w].fee = e]
      BY <1>2, <2>2 DEF Snapshot
    <3> QED
      BY <1>2, <2>1, <2>2, <3>1, OutsideStep DEF Snapshot, InTransaction, TypeOK
  <2> QED
    BY <2>1, <2>2, RollbackStep
<1>3. ASSUME NEW w \in Brokers, PreFlight(w) PROVE TransactionInv'
  <2>1. CASE ~Rollback(w)
    BY <1>3, <2>1, OutsideStep DEF PreFlight, InTransaction, TypeOK, Writers
  <2> QED
    BY <2>1, RollbackStep DEF Writers
<1>4. ASSUME NEW w \in Brokers, Quote(w) PROVE TransactionInv'
  <2>1. w \in Writers
    BY DEF Writers
  <2>2. CASE ~Rollback(w)
    <3> DEFINE q == IF call[w].side = "sell"
                      THEN Clamp(call[w].qty, db.positions[call[w].symbol])
                      ELSE call[w].qty
    <3>1. call' = [call EXCEPT ![w].qty = q] /\ Goto(w, "order")
          /\ UNCHANGED <<db, view, lock, tail>>
      BY <1>4, <2>2 DEF Quote
    <3> HIDE DEF q
    <3> QED
      BY <1>4, <2>1, <3>1, OutsideStep DEF Quote, InTransaction, TypeOK
  <2> QED
    BY <2>1, <2>2, RollbackStep
<1>5. ASSUME NEW w \in Brokers, InsertOrder(w) PROVE TransactionInv'
  <2>1. CASE ~Rollback(w)
    BY <1>5, <2>1, InsertOrderWrites, WriteStep DEF InsertOrder, Writers
  <2> QED
    BY <2>1, RollbackStep DEF Writers
<1>6. ASSUME NEW w \in Brokers, AppendEntry(w) PROVE TransactionInv'
  <2>1. lock' = w
    BY <1>6 DEF AppendEntry, LockInv, InTransaction, Writers
  <2> QED
    BY <1>6, <2>1, AppendEntryWrites, WriteStep DEF Writers
<1>7. ASSUME NEW w \in Recorders, RecordFill(w) PROVE TransactionInv'
  BY <1>7, OutsideStep DEF RecordFill, InTransaction, TypeOK, Writers
<1>8. ASSUME NEW w \in Depositors, CheckEmpty(w) PROVE TransactionInv'
  BY <1>8, OutsideStep DEF CheckEmpty, InTransaction, TypeOK, Writers
<1>9. ASSUME NEW w \in Recorders \cup Depositors, ReadTail(w) PROVE TransactionInv'
  BY <1>9, OutsideStep DEF ReadTail, InTransaction, TypeOK, Writers
<1>10. ASSUME NEW w \in Recorders \cup Depositors, InsertEntry(w) PROVE TransactionInv'
  BY <1>10, InsertEntryWrites, WriteStep DEF InsertEntry, Writers
<1>11. ASSUME NEW w \in Writers, ApplyFill(w) PROVE TransactionInv'
  <2>1. CASE ~Rollback(w)
    <3>1. lock' = w
      BY <1>11, <2>1 DEF ApplyFill, LockInv, InTransaction
    <3> QED
      BY <1>11, <2>1, <3>1, ApplyFillWrites, WriteStep
  <2> QED
    BY <2>1, RollbackStep
<1>12. ASSUME NEW w \in Writers, ApplyPortfolioFill(w) PROVE TransactionInv'
  <2>1. CASE ~Rollback(w)
    <3>1. lock' = w
      BY <1>12, <2>1 DEF ApplyPortfolioFill, LockInv, InTransaction
    <3> QED
      BY <1>12, <2>1, <3>1, ApplyPortfolioFillWrites, WriteStep
  <2> QED
    BY <2>1, RollbackStep
<1>13. ASSUME NEW w \in Writers, Commit(w) PROVE TransactionInv'
  <2>1. lock = w
    BY <1>13 DEF Commit, LockInv, InTransaction
  <2>2. lock' = NoOne
    BY <1>13, <2>1 DEF Commit, Finish
  <2> QED
    BY <2>2, BooksProcesses DEF TransactionInv, Writers
<1>14. ASSUME NEW w \in Writers, Busy(w) \/ Crash(w) PROVE TransactionInv'
  BY <1>14, RollbackStep DEF Busy, Crash
<1>15. CASE UNCHANGED books
  <2> SUFFICES ASSUME NEW v \in Writers, lock' = v
               PROVE  (view = Written(v) /\ Checked(v))'
    BY DEF TransactionInv
  <2> QED
    BY <1>15, TransactionUntouched DEF books
<1> QED
  BY <1>1, <1>2, <1>3, <1>4, <1>5, <1>6, <1>7, <1>8, <1>9, <1>10, <1>11, <1>12,
     <1>13, <1>14, <1>15 DEF Next, BrokerStep, EntryStep, BookStep, Writers

----------------------------------------------------------------------------
\* The committed tables change at a commit only, and by what was written.
LEMMA OnlyCommitChangesDb ==
    ASSUME IInv, [Next]_books
    PROVE  \/ db' = db
           \/ \E w \in Writers :
                 /\ Commit(w) /\ db' = Written(w) /\ Checked(w)
                 /\ pc[w] = "commit" /\ lock = w
<1>1. ASSUME NEW w \in Writers, Commit(w)
      PROVE  db' = Written(w) /\ Checked(w) /\ pc[w] = "commit" /\ lock = w
  <2>1. lock = w /\ pc[w] = "commit"
    BY <1>1 DEF IInv, Commit, LockInv, InTransaction
  <2> QED
    BY <1>1, <2>1 DEF IInv, TransactionInv, Commit
<1>2. ASSUME NEW w \in Writers, Rollback(w) PROVE db' = db
  BY <1>2 DEF Rollback
<1>3. CASE UNCHANGED books
  BY <1>3 DEF books
<1>4. CASE \E w \in Brokers : Submit(w) \/ BrokerStep(w)
  BY <1>2, <1>4 DEF Submit, BrokerStep, PreFlight, Snapshot, Quote, InsertOrder,
                    AppendEntry, Writers
<1>5. CASE \/ \E w \in Recorders : RecordFill(w)
           \/ \E w \in Depositors : CheckEmpty(w)
           \/ \E w \in Recorders \cup Depositors : EntryStep(w)
  BY <1>5 DEF RecordFill, CheckEmpty, EntryStep, ReadTail, InsertEntry
<1>6. CASE \E w \in Writers : BookStep(w) \/ Busy(w) \/ Crash(w)
  BY <1>1, <1>2, <1>6 DEF BookStep, ApplyFill, ApplyPortfolioFill, Busy, Crash
<1> QED
  BY <1>3, <1>4, <1>5, <1>6 DEF Next

\* A commit appends the call's row to the ledger and its order to the orders.
LEMMA CommitAppends ==
    ASSUME IInv, NEW w \in Writers, db' = Written(w), pc[w] = "commit"
    PROVE  /\ RowOf(w) \in Promise!Rows
           /\ Len(db'.ledger) = Len(db.ledger) + 1
           /\ db'.ledger[Len(db.ledger) + 1] = RowOf(w)
           /\ \A r \in 1..Len(db.ledger) : db'.ledger[r] = db.ledger[r]
           /\ w \notin Brokers => db'.orders = db.orders
           /\ w \in Brokers =>
                 /\ Len(db'.orders) = Len(db.orders) + 1
                 /\ db'.orders[Len(db.orders) + 1] = Promise!OrderOf(call[w])
                 /\ \A i \in 1..Len(db.orders) : db'.orders[i] = db.orders[i]
<1>1. /\ db'.ledger = Append(db.ledger, RowOf(w))
      /\ db'.orders = IF w \in Brokers THEN Append(db.orders, Promise!OrderOf(call[w]))
                                       ELSE db.orders
  BY DEF Written
<1>2. db.ledger \in Seq(Promise!Rows) /\ db.orders \in Seq(Promise!Orders)
  BY DEF IInv, TypeOK, Tables
<1>3. w \in Depositors \/ call[w] \in Calls
  BY DEF IInv, CallInv, Writers
<1>4. tail[w] \in [row : Nat, balance : Int]
  BY DEF IInv, TypeOK
<1>5. RowOf(w) \in Promise!Rows
  BY <1>2, <1>3, <1>4, RowTypes, LastRowType DEF RowOf
<1>6. w \in Brokers => Promise!OrderOf(call[w]) \in Promise!Orders
  BY FillTypes DEF IInv, CallInv
<1> QED
  BY <1>1, <1>2, <1>5, <1>6

\* The fund's and the portfolios' books change by one fill that was checked.
LEMMA PhantomStep ==
    ASSUME IInv, [Next]_books
    PROVE  NoPhantomShares'
<1>1. CASE db' = db
  BY <1>1 DEF IInv, NoPhantomShares
<1>2. ASSUME NEW w \in Writers, db' = Written(w), Checked(w)
      PROVE  NoPhantomShares'
  <2>1. db.positions \in [Symbols -> Int] /\ db.holdings \in [Portfolios -> [Symbols -> Int]]
    BY DEF IInv, TypeOK, Tables
  <2>2. \A s \in Symbols : db'.positions[s] >= 0
    BY <1>2, <2>1 DEF IInv, NoPhantomShares, Written, Checked
  <2>3. \A p \in Portfolios, s \in Symbols : db'.holdings[p][s] >= 0
    BY <1>2, <2>1 DEF IInv, NoPhantomShares, Written, Checked
  <2> QED
    BY <2>2, <2>3 DEF NoPhantomShares
<1> QED
  BY <1>1, <1>2, OnlyCommitChangesDb

\* A tail, once read, names a row that nobody removes or rewrites.
LEMMA TailStep ==
    ASSUME IInv, [Next]_books
    PROVE  TailInv'
<1> DEFINE TailOf(l, t) == /\ t.row \in 0..Len(l)
                           /\ t.balance = IF t.row = 0 THEN 0 ELSE l[t.row].balance
<1>1. db.ledger \in Seq(Promise!Rows)
  BY DEF IInv, TypeOK, Tables
<1>2. \A v \in Writers : \/ tail'[v] = tail[v]
                         \/ tail'[v] = Promise!Tail0
                         \/ tail'[v] = Promise!LastRow(db.ledger) /\ db' = db
  <2>1. ASSUME NEW w \in Writers, Finish(w)
        PROVE  \A v \in Writers : tail'[v] = tail[v] \/ tail'[v] = Promise!Tail0
    BY <2>1 DEF Finish, IInv, TypeOK
  <2>2. ASSUME NEW w \in Writers, ReadTail(w)
        PROVE  \A v \in Writers : \/ tail'[v] = tail[v]
                                  \/ tail'[v] = Promise!LastRow(db.ledger) /\ db' = db
    BY <2>2 DEF ReadTail, IInv, TypeOK
  <2>3. CASE \E w \in Brokers : Submit(w) \/ BrokerStep(w)
    BY <2>1, <2>3 DEF Submit, BrokerStep, PreFlight, Snapshot, Quote, InsertOrder,
                      AppendEntry, Rollback, Writers
  <2>4. CASE \/ \E w \in Recorders : RecordFill(w)
             \/ \E w \in Depositors : CheckEmpty(w)
             \/ \E w \in Recorders \cup Depositors : EntryStep(w)
    BY <2>2, <2>4 DEF RecordFill, CheckEmpty, EntryStep, InsertEntry, Writers
  <2>5. CASE \E w \in Writers : BookStep(w) \/ Busy(w) \/ Crash(w)
    BY <2>1, <2>5 DEF BookStep, ApplyFill, ApplyPortfolioFill, Commit, Busy, Crash,
                      Rollback
  <2>6. CASE UNCHANGED books
    BY <2>6 DEF books
  <2> QED
    BY <2>3, <2>4, <2>5, <2>6 DEF Next
<1>3. \A v \in Writers : TailOf(db.ledger, tail'[v])
  <2>1. TailOf(db.ledger, Promise!Tail0)
    BY <1>1 DEF Promise!Tail0
  <2>2. TailOf(db.ledger, Promise!LastRow(db.ledger))
    BY <1>1, LastRowType
  <2> QED
    BY <1>2, <2>1, <2>2 DEF IInv, TailInv
<1>4. \/ db' = db
      \/ /\ Len(db'.ledger) = Len(db.ledger) + 1
         /\ \A r \in 1..Len(db.ledger) : db'.ledger[r] = db.ledger[r]
  BY OnlyCommitChangesDb, CommitAppends
<1>5. \A v \in Writers : tail'[v].row \in Nat
  BY <1>1, <1>3
<1>6. \A v \in Writers : TailOf(db'.ledger, tail'[v])
  BY <1>1, <1>3, <1>4, <1>5
<1> QED
  BY <1>6 DEF TailInv

\* The books start empty, or with the opening balance alone.
LEMMA InitBooks ==
    ASSUME Init
    PROVE  /\ db.orders = <<>>
           /\ \/ db.ledger = <<>>
              \/ db.ledger = <<Promise!DepositRow(OpeningCash, Promise!Tail0)>>
           /\ db.positions = [s \in Symbols |-> 0]
           /\ db.holdings = [p \in Portfolios |-> [s \in Symbols |-> 0]]
<1> DEFINE l == <<Promise!DepositRow(OpeningCash, Promise!Tail0)>>
<1>1. db = EmptyTables \/ db = [EmptyTables EXCEPT !.ledger = l]
  BY DEF Init
<1>2. EmptyTables \in Tables
  BY DEF EmptyTables, Tables
<1> HIDE DEF l
<1>3. [EmptyTables EXCEPT !.ledger = l] =
         [orders |-> EmptyTables.orders, ledger |-> l,
          positions |-> EmptyTables.positions, holdings |-> EmptyTables.holdings]
  BY <1>2, TableUpdates
<1>4. /\ db.orders = <<>> /\ (db.ledger = <<>> \/ db.ledger = l)
      /\ db.positions = [s \in Symbols |-> 0]
      /\ db.holdings = [p \in Portfolios |-> [s \in Symbols |-> 0]]
  BY <1>1, <1>3 DEF EmptyTables
<1> QED
  BY <1>4 DEF l

\* The invariant holds initially and is kept by every step.
LEMMA InitInv == Init => IInv
<1> SUFFICES ASSUME Init PROVE IInv
  OBVIOUS
<1>1. EmptyTables \in Tables
  BY DEF EmptyTables, Tables
<1>2. Promise!Tail0 \in [row : Nat, balance : Int]
  BY DEF Promise!Tail0
<1>3. db \in Tables
  <2>1. Promise!DepositRow(OpeningCash, Promise!Tail0) \in Promise!Rows
    BY <1>2, RowTypes
  <2>2. [EmptyTables EXCEPT !.ledger = <<Promise!DepositRow(OpeningCash, Promise!Tail0)>>]
           \in Tables
    <3> DEFINE l == <<Promise!DepositRow(OpeningCash, Promise!Tail0)>>
    <3>1. l \in Seq(Promise!Rows)
      BY <2>1
    <3> HIDE DEF l
    <3>2. [EmptyTables EXCEPT !.ledger = l] \in Tables
      BY <1>1, <3>1, TableUpdates DEF Tables
    <3> QED
      BY <3>2 DEF l
  <2> QED
    BY <1>1, <2>2 DEF Init
<1>4. TypeOK
  BY <1>2, <1>3, BooksConstants DEF Init, TypeOK, Statements
<1>5. LockInv
  BY BooksProcesses DEF Init, LockInv, InTransaction, Writers
<1>6. CallInv
  BY DEF Init, CallInv, Statements, Writers
<1>7. NoPhantomShares
  BY InitBooks DEF NoPhantomShares
<1>8. TransactionInv
  BY BooksProcesses DEF Init, TransactionInv, Writers
<1>9. TailInv
  BY <1>3 DEF Init, TailInv, Promise!Tail0, Tables
<1> QED
  BY <1>4, <1>5, <1>6, <1>7, <1>8, <1>9 DEF IInv

\* Every step keeps the invariant.
LEMMA NextInv == IInv /\ [Next]_books => IInv'
BY TypeStep, LockStep, CallStep, PhantomStep, TransactionStep, TailStep DEF IInv

\* The invariant holds in every reachable state.
LEMMA Invariance == Spec => []IInv
BY InitInv, NextInv, PTL DEF Spec

----------------------------------------------------------------------------
\* The theorems.

\* The variables stay in their types: quantities and balances are numbers, and
\* every call, row and order is what its table's columns say.
THEOREM TypeCorrect == Spec => []TypeOK
<1>1. IInv => TypeOK
  BY DEF IInv
<1> QED
  BY <1>1, Invariance, PTL

\* Shares that are not held are never sold, whatever races.
THEOREM PhantomFree == Spec => []NoPhantomShares
<1>1. IInv => NoPhantomShares
  BY DEF IInv
<1> QED
  BY <1>1, Invariance, PTL

\* A client_order_id is filled at most once, whichever processes submit it and
\* however often: the pre-flight check alone, a read before the transaction,
\* would not do.
THEOREM FilledOnce == Spec => []IntentFilledOnce
<1>1. Init => IntentFilledOnce
  BY InitBooks DEF IntentFilledOnce
<1>2. IntentFilledOnce /\ IInv /\ [Next]_books => IntentFilledOnce'
  <2> SUFFICES ASSUME IntentFilledOnce, IInv, [Next]_books PROVE IntentFilledOnce'
    OBVIOUS
  <2>1. CASE db' = db
    BY <2>1 DEF IntentFilledOnce
  <2>2. ASSUME NEW w \in Writers, db' = Written(w), Checked(w), pc[w] = "commit"
        PROVE  IntentFilledOnce'
    <3>1. db'.orders \in Seq(Promise!Orders) /\ db.orders \in Seq(Promise!Orders)
      BY NextInv DEF IInv, TypeOK, Tables
    <3>2. CASE w \notin Brokers
      BY <2>2, <3>2, CommitAppends DEF IntentFilledOnce
    <3>3. CASE w \in Brokers
      <4>1. \A i \in 1..Len(db.orders) : db.orders[i].coid # call[w].coid
        BY <2>2, <3>1, <3>3 DEF Checked, Promise!Submitted
      <4>2. db'.orders[Len(db.orders) + 1].coid = call[w].coid
        <5>1. db'.orders[Len(db.orders) + 1] = Promise!OrderOf(call[w])
          BY <2>2, <3>3, CommitAppends
        <5> QED
          BY <5>1 DEF Promise!OrderOf
      <4>3. \A i \in 1..Len(db.orders) : db'.orders[i] = db.orders[i]
        BY <2>2, <3>3, CommitAppends
      <4>4. DOMAIN db'.orders = 1..(Len(db.orders) + 1)
        BY <2>2, <3>1, <3>3, CommitAppends
      <4>5. \A i, j \in 1..Len(db.orders) : db.orders[i].coid = db.orders[j].coid => i = j
        BY <3>1 DEF IntentFilledOnce
      <4>6. Len(db.orders) \in Nat
        BY <3>1
      <4> SUFFICES ASSUME NEW i \in DOMAIN db'.orders, NEW j \in DOMAIN db'.orders,
                          db'.orders[i].coid = db'.orders[j].coid
                   PROVE  i = j
        BY DEF IntentFilledOnce
      <4>7. /\ i \in 1..Len(db.orders) \/ i = Len(db.orders) + 1
            /\ j \in 1..Len(db.orders) \/ j = Len(db.orders) + 1
        BY <4>4, <4>6
      <4> QED
        BY <4>1, <4>2, <4>3, <4>5, <4>7
    <3> QED
      BY <3>2, <3>3
  <2> QED
    BY <2>1, <2>2, OnlyCommitChangesDb
<1> QED
  BY <1>1, <1>2, Invariance, PTL DEF Spec

\* The rows a commit leaves behind, read as one ledger.
LEMMA LedgerGrows ==
    ASSUME IInv, [Next]_books
    PROVE  \/ db' = db
           \/ \E w \in Writers :
                 /\ RowOf(w) \in Promise!Rows
                 /\ DOMAIN db.ledger = 1..Len(db.ledger) /\ Len(db.ledger) \in Nat
                 /\ DOMAIN db'.ledger = 1..(Len(db.ledger) + 1)
                 /\ db'.ledger[Len(db.ledger) + 1] = RowOf(w)
                 /\ \A r \in 1..Len(db.ledger) :
                       db'.ledger[r] = db.ledger[r] /\ db.ledger[r] \in Promise!Rows
<1>1. db'.ledger \in Seq(Promise!Rows) /\ db.ledger \in Seq(Promise!Rows)
  BY NextInv DEF IInv, TypeOK, Tables
<1>2. ASSUME NEW w \in Writers, db' = Written(w), pc[w] = "commit"
      PROVE  /\ RowOf(w) \in Promise!Rows
             /\ DOMAIN db.ledger = 1..Len(db.ledger) /\ Len(db.ledger) \in Nat
             /\ DOMAIN db'.ledger = 1..(Len(db.ledger) + 1)
             /\ db'.ledger[Len(db.ledger) + 1] = RowOf(w)
             /\ \A r \in 1..Len(db.ledger) :
                   db'.ledger[r] = db.ledger[r] /\ db.ledger[r] \in Promise!Rows
  BY <1>1, <1>2, CommitAppends
<1> QED
  BY <1>2, OnlyCommitChangesDb

\* Every row, a stale manual one too, either continues the balance of the row
\* before it or does not chain to it.
THEOREM LossReported == Spec => []LostAmountIsReported
<1> DEFINE Good(l, r) == \/ l[r].prev # r - 1
                         \/ l[r].balance = (IF r = 1 THEN 0 ELSE l[r - 1].balance)
                                              + l[r].amount
<1>1. LostAmountIsReported <=> \A r \in DOMAIN db.ledger : Good(db.ledger, r)
  BY DEF LostAmountIsReported, VerifyHashChain
<1>2. LostAmountIsReported' <=> \A r \in DOMAIN db'.ledger : Good(db'.ledger, r)
  BY DEF LostAmountIsReported, VerifyHashChain
<1>3. Init => LostAmountIsReported
  <2> SUFFICES ASSUME Init PROVE LostAmountIsReported
    OBVIOUS
  <2>1. \/ db.ledger = <<>>
        \/ db.ledger = <<Promise!DepositRow(OpeningCash, Promise!Tail0)>>
    BY InitBooks
  <2> QED
    BY <1>1, <2>1, BooksConstants DEF Promise!DepositRow, Promise!Tail0
<1>4. LostAmountIsReported /\ IInv /\ [Next]_books => LostAmountIsReported'
  <2> SUFFICES ASSUME LostAmountIsReported, IInv, [Next]_books
               PROVE  LostAmountIsReported'
    OBVIOUS
  <2>1. CASE db' = db
    BY <2>1 DEF LostAmountIsReported
  <2>2. ASSUME NEW w \in Writers,
               RowOf(w) \in Promise!Rows,
               DOMAIN db.ledger = 1..Len(db.ledger), Len(db.ledger) \in Nat,
               DOMAIN db'.ledger = 1..(Len(db.ledger) + 1),
               db'.ledger[Len(db.ledger) + 1] = RowOf(w),
               \A r \in 1..Len(db.ledger) :
                   db'.ledger[r] = db.ledger[r] /\ db.ledger[r] \in Promise!Rows
        PROVE  LostAmountIsReported'
    <3> DEFINE n == Len(db.ledger)
    <3>1. db.ledger \in Seq(Promise!Rows)
      BY DEF IInv, TypeOK, Tables
    <3>2. PICK t \in [row : Nat, balance : Int] :
             /\ t.row \in 0..n
             /\ t.balance = IF t.row = 0 THEN 0 ELSE db.ledger[t.row].balance
             /\ RowOf(w).prev = t.row
             /\ RowOf(w).balance = t.balance + RowOf(w).amount
      <4>1. tail[w] \in [row : Nat, balance : Int]
        BY DEF IInv, TypeOK
      <4> QED
        BY <3>1, <4>1, LastRowType
           DEF RowOf, Promise!DepositRow, Promise!FillRow, IInv, TailInv
    <3>3. Good(db'.ledger, n + 1)
      BY <2>2, <3>2
    <3>4. \A r \in 1..n : Good(db'.ledger, r)
      <4> TAKE r \in 1..n
      <4>1. Good(db.ledger, r)
        BY <1>1, <2>2
      <4>2. r # 1 => r - 1 \in 1..n
        BY <2>2
      <4> QED
        BY <2>2, <4>1, <4>2
    <3> HIDE DEF Good
    <3>5. \A r \in DOMAIN db'.ledger : r \in 1..n \/ r = n + 1
      BY <2>2
    <3> QED
      BY <1>2, <3>3, <3>4, <3>5
  <2> QED
    BY <2>1, <2>2, LedgerGrows
<1> QED
  BY <1>3, <1>4, Invariance, PTL DEF Spec

\* What one writer commits no other writer removes or rewrites.
THEOREM CommitsKept == Spec => CommitsAreKept
<1> DEFINE Kept == /\ SubSeq(db'.ledger, 1, Len(db.ledger)) = db.ledger
                   /\ SubSeq(db'.orders, 1, Len(db.orders)) = db.orders
<1>1. IInv /\ [Next]_books => [Kept]_books
  <2> SUFFICES ASSUME IInv, [Next]_books PROVE Kept
    OBVIOUS
  <2>1. db.ledger \in Seq(Promise!Rows) /\ db.orders \in Seq(Promise!Orders)
    BY DEF IInv, TypeOK, Tables
  <2>2. CASE db' = db
    BY <2>1, <2>2
  <2>3. ASSUME NEW w \in Writers, db' = Written(w), pc[w] = "commit"
        PROVE  Kept
    <3>1. RowOf(w) \in Promise!Rows
      BY <2>3, CommitAppends
    <3>2. w \in Brokers => Promise!OrderOf(call[w]) \in Promise!Orders
      BY <2>3, FillTypes DEF IInv, CallInv
    <3>3. /\ db'.ledger = Append(db.ledger, RowOf(w))
          /\ db'.orders = IF w \in Brokers
                            THEN Append(db.orders, Promise!OrderOf(call[w]))
                            ELSE db.orders
      BY <2>3 DEF Written
    <3> QED
      BY <2>1, <3>1, <3>2, <3>3
  <2> QED
    BY <2>2, <2>3, OnlyCommitChangesDb
<1> QED
  BY <1>1, Invariance, PTL DEF Spec, CommitsAreKept

----------------------------------------------------------------------------
\* The brokers alone.

\* Without manual entries and deposits beside them, every row the brokers write
\* continues the balance and the chain of the row before it.
THEOREM BrokersRunAndChain ==
    ASSUME Recorders = {}, Depositors = {}
    PROVE  Spec => []BalanceRunsAndChains
<1> DEFINE Good(l, r) == /\ l[r].prev = r - 1
                         /\ l[r].balance = (IF r = 1 THEN 0 ELSE l[r - 1].balance)
                                              + l[r].amount
<1>1. BalanceRunsAndChains <=> \A r \in DOMAIN db.ledger : Good(db.ledger, r)
  BY DEF BalanceRunsAndChains, VerifyHashChain
<1>2. BalanceRunsAndChains' <=> \A r \in DOMAIN db'.ledger : Good(db'.ledger, r)
  BY DEF BalanceRunsAndChains, VerifyHashChain
<1>3. Init => BalanceRunsAndChains
  <2> SUFFICES ASSUME Init PROVE BalanceRunsAndChains
    OBVIOUS
  <2>1. \/ db.ledger = <<>>
        \/ db.ledger = <<Promise!DepositRow(OpeningCash, Promise!Tail0)>>
    BY InitBooks
  <2> QED
    BY <1>1, <2>1, BooksConstants DEF Promise!DepositRow, Promise!Tail0
<1>4. BalanceRunsAndChains /\ IInv /\ [Next]_books => BalanceRunsAndChains'
  <2> SUFFICES ASSUME BalanceRunsAndChains, IInv, [Next]_books
               PROVE  BalanceRunsAndChains'
    OBVIOUS
  <2>1. CASE db' = db
    BY <2>1 DEF BalanceRunsAndChains
  <2>2. ASSUME NEW w \in Writers,
               RowOf(w) \in Promise!Rows,
               DOMAIN db.ledger = 1..Len(db.ledger), Len(db.ledger) \in Nat,
               DOMAIN db'.ledger = 1..(Len(db.ledger) + 1),
               db'.ledger[Len(db.ledger) + 1] = RowOf(w),
               \A r \in 1..Len(db.ledger) :
                   db'.ledger[r] = db.ledger[r] /\ db.ledger[r] \in Promise!Rows
        PROVE  BalanceRunsAndChains'
    <3> DEFINE n == Len(db.ledger)
    <3>1. RowOf(w) = Promise!FillRow(call[w], Len(db.orders) + 1, Promise!LastRow(db.ledger))
      BY DEF RowOf
    <3>2. /\ Promise!LastRow(db.ledger).row = n
          /\ Promise!LastRow(db.ledger).balance = IF n = 0 THEN 0 ELSE db.ledger[n].balance
      BY DEF Promise!LastRow, Promise!Tail0, IInv, TypeOK, Tables
    <3>3. Good(db'.ledger, n + 1)
      BY <2>2, <3>1, <3>2 DEF Promise!FillRow
    <3>4. \A r \in 1..n : Good(db'.ledger, r)
      <4> TAKE r \in 1..n
      <4>1. Good(db.ledger, r)
        BY <1>1, <2>2
      <4>2. r # 1 => r - 1 \in 1..n
        BY <2>2
      <4> QED
        BY <2>2, <4>1, <4>2
    <3> HIDE DEF Good
    <3>5. \A r \in DOMAIN db'.ledger : r \in 1..n \/ r = n + 1
      BY <2>2
    <3> QED
      BY <1>2, <3>3, <3>4, <3>5
  <2> QED
    BY <2>1, <2>2, LedgerGrows
<1> QED
  BY <1>3, <1>4, Invariance, PTL DEF Spec

\* The commit of a broker's transaction is one Fill of the promise.
LEMMA CommitIsFill ==
    ASSUME IInv, IInv', NEW w \in Brokers, db' = Written(w), Checked(w), pc[w] = "commit"
    PROVE  Promise!Next
<1> DEFINE c == call[w]
           f == [symbol |-> c.symbol, side |-> c.side, qty |-> c.qty, price |-> c.price,
                 fee |-> c.fee, coid |-> c.coid, portfolio |-> c.portfolio]
<1>1. w \in Writers /\ w \notin Depositors /\ w \notin Recorders
  BY BooksProcesses DEF Writers
<1>2. c \in Calls /\ c.coid \in Coids
  BY DEF IInv, CallInv
<1>3. /\ c.symbol \in Symbols /\ c.side \in Promise!Sides /\ c.price \in Prices
      /\ c.fee \in Fees /\ c.portfolio \in Portfolios \cup {NoPortfolio}
  BY <1>2 DEF Calls
<1>4. /\ Promise!SignedShares(f) = Promise!SignedShares(c)
      /\ Promise!OrderOf(f) = Promise!OrderOf(c)
      /\ \A n, t : Promise!FillRow(f, n, t) = Promise!FillRow(c, n, t)
  BY DEF Promise!SignedShares, Promise!OrderOf, Promise!CashAmount, Promise!FillRow
<1>5. /\ db'.orders = Append(db.orders, Promise!OrderOf(c))
      /\ db'.ledger = Append(db.ledger, Promise!FillRow(c, Len(db.orders) + 1,
                                                        Promise!LastRow(db.ledger)))
  BY <1>1 DEF Written, RowOf
<1>6. FillApplied(w) /\ (HoldingApplied(w) <=> c.portfolio \in Portfolios)
  BY <1>1 DEF FillApplied, HoldingApplied
<1>7. /\ db'.positions = [db.positions EXCEPT ![c.symbol] = @ + Promise!SignedShares(c)]
      /\ db'.holdings = IF c.portfolio \in Portfolios
                          THEN [db.holdings EXCEPT ![c.portfolio][c.symbol] =
                                   @ + Promise!SignedShares(c)]
                          ELSE db.holdings
  BY <1>6 DEF Written
<1>8. /\ ~Promise!Submitted(db.orders, c.coid)
      /\ db.positions[c.symbol] + Promise!SignedShares(c) >= 0
      /\ c.portfolio \in Portfolios =>
            db.holdings[c.portfolio][c.symbol] + Promise!SignedShares(c) >= 0
  BY <1>6 DEF Checked
<1>9. Promise!Fill(f)
  <2>1. f.coid = c.coid /\ f.symbol = c.symbol /\ f.portfolio = c.portfolio
    OBVIOUS
  <2> HIDE DEF f, c
  <2> QED
    BY <2>1, <1>4, <1>5, <1>7, <1>8 DEF Promise!Fill
<1>10. /\ Len(db'.orders) > Len(db.orders)
       /\ db'.orders[Len(db'.orders)].qty = c.qty
  <2>1. /\ Len(db'.orders) = Len(db.orders) + 1
        /\ db'.orders[Len(db.orders) + 1] = Promise!OrderOf(c)
    BY <1>1, CommitAppends
  <2>2. Len(db.orders) \in Nat
    BY DEF IInv, TypeOK, Tables
  <2>3. Promise!OrderOf(c).qty = c.qty
    BY DEF Promise!OrderOf
  <2> QED
    BY <2>1, <2>2, <2>3
<1>11. f \in [symbol : Symbols, side : Promise!Sides,
              qty : {db'.orders[Len(db'.orders)].qty}, price : Prices, fee : Fees,
              coid : Coids, portfolio : Portfolios \cup {NoPortfolio}]
  BY <1>2, <1>3, <1>10
<1> HIDE DEF f
<1> QED
  BY <1>9, <1>10, <1>11 DEF Promise!Next

\* Broker fills are atomic: whatever interleaves, crashes or is rolled back, the
\* committed tables go through the states of AtomicBooks and no others.
THEOREM BrokersKeepPromise ==
    ASSUME Recorders = {}, Depositors = {}
    PROVE  Spec => PromiseKept
<1>1. Init => Promise!Init
  <2> SUFFICES ASSUME Init PROVE Promise!Init
    OBVIOUS
  <2>1. Promise!DepositRow(OpeningCash, Promise!Tail0).amount = OpeningCash
    BY DEF Promise!DepositRow
  <2> QED
    BY <2>1, InitBooks DEF Promise!Init
<1>2. IInv /\ IInv' /\ [Next]_books => [Promise!Next]_Promise!abooks
  <2> SUFFICES ASSUME IInv, IInv', [Next]_books
               PROVE  Promise!Next \/ UNCHANGED Promise!abooks
    OBVIOUS
  <2>1. CASE db' = db
    BY <2>1 DEF Promise!abooks
  <2>2. CASE \E w \in Writers : db' = Written(w) /\ Checked(w) /\ pc[w] = "commit"
    BY <2>2, CommitIsFill DEF Writers
  <2> QED
    BY <2>1, <2>2, OnlyCommitChangesDb
<1> QED
  BY <1>1, <1>2, Invariance, PTL DEF Spec, PromiseKept, Promise!Spec
----------------------------------------------------------------------------
(* Sums over the ledger.  What a recursive function totals is found by the *)
(* least-number principle: of the places where a claim fails, the first.   *)

\* The running totals of a sequence up to n.
Totals(f, n, g) == g = [k \in 0..n |-> IF k = 0 THEN 0 ELSE g[k - 1] + f[k]]

\* There are running totals, as far as the sequence goes.
LEMMA TotalsExist ==
    ASSUME NEW f \in Seq(Int)
    PROVE  \A n \in 0..Len(f) : \E g : Totals(f, n, g)
<1> SUFFICES ASSUME NEW m \in 0..Len(f), ~\E g : Totals(f, m, g) PROVE FALSE
  OBVIOUS
<1> DEFINE S == {n \in 0..Len(f) : ~\E g : Totals(f, n, g)}
<1>1. S \subseteq Nat /\ S # {}
  OBVIOUS
<1> HIDE DEF S
<1>2. PICK n \in S : \A y \in S : n <= y
  BY <1>1, LeastNumber
<1>3. n \in 0..Len(f) /\ ~\E g : Totals(f, n, g)
  BY DEF S
<1>4. Totals(f, 0, [k \in 0..0 |-> 0])
  BY DEF Totals
<1>5. n # 0
  BY <1>3, <1>4
<1>6. n - 1 \in 0..Len(f) /\ n - 1 \notin S
  BY <1>2, <1>3, <1>5
<1>7. PICK g : Totals(f, n - 1, g)
  BY <1>6 DEF S
<1> DEFINE h == [k \in 0..n |-> IF k = n THEN g[n - 1] + f[n] ELSE g[k]]
<1>8. Totals(f, n, h)
  <2>1. ASSUME NEW k \in 0..n PROVE h[k] = IF k = 0 THEN 0 ELSE h[k - 1] + f[k]
    <3>1. CASE k = n
      BY <3>1, <1>3, <1>5
    <3>2. CASE k # n
      <4>1. k \in 0..(n - 1) /\ h[k] = g[k] /\ (k # 0 => h[k - 1] = g[k - 1])
        BY <3>2, <1>3, <1>5
      <4>2. g[k] = IF k = 0 THEN 0 ELSE g[k - 1] + f[k]
        BY <4>1, <1>7 DEF Totals
      <4> QED BY <4>1, <4>2
    <3> QED BY <3>1, <3>2
  <2> QED BY <2>1 DEF Totals
<1> QED BY <1>3, <1>8

\* Two running totals agree as far as the sequences do.
LEMMA TotalsAgree ==
    ASSUME NEW f \in Seq(Int), NEW e \in Seq(Int), NEW n \in Nat, NEW m \in Nat, n <= m,
           NEW g, NEW h, Totals(f, n, g), Totals(e, m, h), \A k \in 1..n : f[k] = e[k]
    PROVE  \A k \in 0..n : g[k] = h[k]
<1> SUFFICES ASSUME NEW j \in 0..n, g[j] # h[j] PROVE FALSE
  OBVIOUS
<1> DEFINE S == {k \in 0..n : g[k] # h[k]}
<1>1. S \subseteq Nat /\ S # {}
  OBVIOUS
<1> HIDE DEF S
<1>2. PICK k \in S : \A y \in S : k <= y
  BY <1>1, LeastNumber
<1>3. k \in 0..n /\ g[k] # h[k]
  BY DEF S
<1>4. /\ g[k] = IF k = 0 THEN 0 ELSE g[k - 1] + f[k]
      /\ h[k] = IF k = 0 THEN 0 ELSE h[k - 1] + e[k]
  BY <1>3 DEF Totals
<1>5. k # 0 /\ k - 1 \in 0..n /\ k - 1 \notin S
  BY <1>2, <1>3, <1>4
<1>6. g[k - 1] = h[k - 1] /\ f[k] = e[k]
  BY <1>5, <1>3 DEF S
<1> QED BY <1>3, <1>4, <1>5, <1>6

\* Total is the last of them.
LEMMA TotalIs ==
    ASSUME NEW f \in Seq(Int)
    PROVE  \E g : Totals(f, Len(f), g) /\ Total(f) = g[Len(f)]
<1> DEFINE up == CHOOSE g : g = [k \in 0..Len(f) |-> IF k = 0 THEN 0 ELSE g[k - 1] + f[k]]
<1>1. Total(f) = up[Len(f)]
  BY DEF Total
<1>2. Len(f) \in 0..Len(f)
  OBVIOUS
<1>3. Totals(f, Len(f), up)
  BY <1>2, TotalsExist DEF Totals
<1> QED BY <1>1, <1>3

LEMMA TotalOfNone == Total(<<>>) = 0
<1>1. <<>> \in Seq(Int) /\ Len(<<>>) = 0
  OBVIOUS
<1>2. PICK g : Totals(<<>>, 0, g) /\ Total(<<>>) = g[0]
  BY <1>1, TotalIs
<1>3. g[0] = 0
  BY <1>2 DEF Totals
<1> QED BY <1>2, <1>3

\* The total of numbers is a number.
LEMMA TotalType ==
    ASSUME NEW f \in Seq(Int)
    PROVE  Total(f) \in Int
<1>1. PICK g : Totals(f, Len(f), g) /\ Total(f) = g[Len(f)]
  BY TotalIs
<1> SUFFICES ASSUME Total(f) \notin Int PROVE FALSE
  OBVIOUS
<1> DEFINE S == {k \in 0..Len(f) : g[k] \notin Int}
<1>2. S \subseteq Nat /\ S # {}
  BY <1>1
<1> HIDE DEF S
<1>3. PICK k \in S : \A y \in S : k <= y
  BY <1>2, LeastNumber
<1>4. k \in 0..Len(f) /\ g[k] \notin Int
  BY DEF S
<1>5. g[k] = IF k = 0 THEN 0 ELSE g[k - 1] + f[k]
  BY <1>1, <1>4 DEF Totals
<1>6. k # 0 /\ k - 1 \in 0..Len(f) /\ k - 1 \notin S
  BY <1>3, <1>4, <1>5
<1>7. g[k - 1] \in Int /\ f[k] \in Int
  BY <1>6, <1>4 DEF S
<1> QED BY <1>4, <1>5, <1>6, <1>7

LEMMA LastTotal ==
    ASSUME NEW f \in Seq(Int), NEW e \in Seq(Int), NEW n \in Nat, NEW g, NEW h,
           Totals(f, n, g), Totals(e, n + 1, h), \A k \in 1..n : f[k] = e[k]
    PROVE  h[n + 1] = g[n] + e[n + 1]
<1>1. n + 1 \in Nat /\ n <= n + 1
  OBVIOUS
<1>2. \A k \in 0..n : g[k] = h[k]
  BY <1>1, TotalsAgree
<1>3. h[n + 1] = h[n] + e[n + 1]
  BY DEF Totals
<1> QED BY <1>2, <1>3

\* The total of a sequence that got one longer.
LEMMA TotalGrows ==
    ASSUME NEW n \in Nat, NEW f \in Seq(Int), NEW e \in Seq(Int), Len(f) = n, Len(e) = n + 1,
           \A k \in 1..n : f[k] = e[k]
    PROVE  Total(e) = Total(f) + e[n + 1]
<1>1. PICK g : Totals(f, n, g) /\ Total(f) = g[n]
  BY TotalIs
<1>2. PICK h : Totals(e, n + 1, h) /\ Total(e) = h[n + 1]
  BY TotalIs
<1>3. Totals(f, n, g) /\ Totals(e, n + 1, h)
  BY <1>1, <1>2
<1>4. h[n + 1] = g[n] + e[n + 1]
  BY <1>3, LastTotal
<1> QED BY <1>1, <1>2, <1>4

----------------------------------------------------------------------------
LEMMA Listed ==
    ASSUME NEW n \in Nat, NEW f \in [1..n -> Int]
    PROVE  f \in Seq(Int) /\ Len(f) = n
OBVIOUS

\* A column of a ledger that got one row longer.
LEMMA ColumnsGrow ==
    ASSUME NEW l \in Seq(Promise!Rows), NEW r \in Promise!Rows, NEW s, NEW ps
    PROVE  /\ Total(SharesOf(Append(l, r), s, ps)) =
                 Total(SharesOf(l, s, ps)) + (IF r.symbol = s /\ r.portfolio \in ps THEN r.shares ELSE 0)
           /\ Total(AmountsOf(Append(l, r))) = Total(AmountsOf(l)) + r.amount
           /\ Total(AmountsOf(l)) \in Int /\ Total(SharesOf(l, s, ps)) \in Int
<1> DEFINE m == Append(l, r)
           n == Len(l)
<1>1. /\ m \in Seq(Promise!Rows) /\ Len(m) = n + 1 /\ n \in Nat
      /\ DOMAIN l = 1..n /\ DOMAIN m = 1..(n + 1)
      /\ m[n + 1] = r /\ \A k \in 1..n : m[k] = l[k] /\ l[k] \in Promise!Rows
  OBVIOUS
<1>2. ASSUME NEW x \in Promise!Rows PROVE x.shares \in Int /\ x.amount \in Int
  BY DEF Promise!Rows
<1> HIDE DEF m, n
<1>3. /\ AmountsOf(l) \in Seq(Int) /\ Len(AmountsOf(l)) = n
      /\ AmountsOf(m) \in Seq(Int) /\ Len(AmountsOf(m)) = n + 1
      /\ AmountsOf(m)[n + 1] = r.amount
      /\ \A k \in 1..n : AmountsOf(l)[k] = AmountsOf(m)[k]
  <2>1. AmountsOf(l) \in [1..n -> Int] /\ AmountsOf(m) \in [1..(n + 1) -> Int]
    <3>1. \A k \in 1..(n + 1) : m[k] \in Promise!Rows
      BY <1>1
    <3> QED BY <1>1, <1>2, <3>1 DEF AmountsOf
  <2>2. AmountsOf(m)[n + 1] = r.amount /\ \A k \in 1..n : AmountsOf(l)[k] = AmountsOf(m)[k]
    BY <1>1 DEF AmountsOf
  <2>3. n + 1 \in Nat
    BY <1>1
  <2> QED BY <1>1, <2>1, <2>2, <2>3, Listed
<1>4. /\ SharesOf(l, s, ps) \in Seq(Int) /\ Len(SharesOf(l, s, ps)) = n
      /\ SharesOf(m, s, ps) \in Seq(Int) /\ Len(SharesOf(m, s, ps)) = n + 1
      /\ SharesOf(m, s, ps)[n + 1] = IF r.symbol = s /\ r.portfolio \in ps THEN r.shares ELSE 0
      /\ \A k \in 1..n : SharesOf(l, s, ps)[k] = SharesOf(m, s, ps)[k]
  <2>1. SharesOf(l, s, ps) \in [1..n -> Int] /\ SharesOf(m, s, ps) \in [1..(n + 1) -> Int]
    <3>1. \A k \in 1..(n + 1) : m[k] \in Promise!Rows
      BY <1>1
    <3> QED BY <1>1, <1>2, <3>1 DEF SharesOf
  <2>2. /\ SharesOf(m, s, ps)[n + 1] = IF r.symbol = s /\ r.portfolio \in ps THEN r.shares ELSE 0
        /\ \A k \in 1..n : SharesOf(l, s, ps)[k] = SharesOf(m, s, ps)[k]
    BY <1>1 DEF SharesOf
  <2>3. n + 1 \in Nat
    BY <1>1
  <2> QED BY <1>1, <2>1, <2>2, <2>3, Listed
<1>5. Total(AmountsOf(m)) = Total(AmountsOf(l)) + r.amount /\ Total(AmountsOf(l)) \in Int
  <2> DEFINE e == AmountsOf(m)
             f == AmountsOf(l)
  <2>1. /\ f \in Seq(Int) /\ Len(f) = n /\ e \in Seq(Int) /\ Len(e) = n + 1
        /\ \A k \in 1..n : f[k] = e[k]
    BY <1>3
  <2>2. e[n + 1] = r.amount /\ n \in Nat
    BY <1>1, <1>3
  <2> HIDE DEF e, f
  <2>3. Total(e) = Total(f) + e[n + 1] /\ Total(f) \in Int
    BY <2>1, <2>2, TotalGrows, TotalType
  <2> QED BY <2>2, <2>3 DEF e, f
<1>6. /\ Total(SharesOf(m, s, ps)) =
            Total(SharesOf(l, s, ps)) + (IF r.symbol = s /\ r.portfolio \in ps THEN r.shares ELSE 0)
      /\ Total(SharesOf(l, s, ps)) \in Int
  <2> DEFINE e == SharesOf(m, s, ps)
             f == SharesOf(l, s, ps)
  <2>1. /\ f \in Seq(Int) /\ Len(f) = n /\ e \in Seq(Int) /\ Len(e) = n + 1
        /\ \A k \in 1..n : f[k] = e[k]
    BY <1>4
  <2>2. e[n + 1] = (IF r.symbol = s /\ r.portfolio \in ps THEN r.shares ELSE 0) /\ n \in Nat
    BY <1>1, <1>4
  <2> HIDE DEF e, f
  <2>3. Total(e) = Total(f) + e[n + 1] /\ Total(f) \in Int
    BY <2>1, <2>2, TotalGrows, TotalType
  <2> QED BY <2>2, <2>3 DEF e, f
<1> QED BY <1>5, <1>6 DEF m

LEMMA NoColumns ==
    ASSUME NEW s, NEW ps
    PROVE  Total(SharesOf(<<>>, s, ps)) = 0 /\ Total(AmountsOf(<<>>)) = 0
<1>1. SharesOf(<<>>, s, ps) = <<>> /\ AmountsOf(<<>>) = <<>>
  BY DEF SharesOf, AmountsOf
<1> QED BY <1>1, TotalOfNone

\* The columns of a ledger of one row.
LEMMA OneRow ==
    ASSUME NEW r \in Promise!Rows, NEW s, NEW ps
    PROVE  /\ Total(SharesOf(<<r>>, s, ps)) = IF r.symbol = s /\ r.portfolio \in ps THEN r.shares ELSE 0
           /\ Total(AmountsOf(<<r>>)) = r.amount
<1> DEFINE l == <<>>
<1>1. l \in Seq(Promise!Rows)
  OBVIOUS
<1>2. Append(l, r) = <<r>>
  OBVIOUS
<1>3. Total(SharesOf(l, s, ps)) = 0 /\ Total(AmountsOf(l)) = 0
  BY NoColumns
<1>4. r.shares \in Int /\ r.amount \in Int
  BY DEF Promise!Rows
<1> HIDE DEF l
<1>5. /\ Total(SharesOf(Append(l, r), s, ps)) =
            Total(SharesOf(l, s, ps)) + (IF r.symbol = s /\ r.portfolio \in ps THEN r.shares ELSE 0)
      /\ Total(AmountsOf(Append(l, r))) = Total(AmountsOf(l)) + r.amount
  BY <1>1, ColumnsGrow
<1> DEFINE a == Append(l, r)
<1>6. /\ Total(SharesOf(a, s, ps)) = (IF r.symbol = s /\ r.portfolio \in ps THEN r.shares ELSE 0)
      /\ Total(AmountsOf(a)) = r.amount
  BY <1>3, <1>4, <1>5
<1>7. a = <<r>>
  BY <1>2
<1> HIDE DEF a
<1> QED BY <1>6, <1>7

\* A commit's row in the ledger and its change of both position books are one fill.
LEMMA CommitWrites ==
    ASSUME IInv, NEW w \in Writers, db' = Written(w), pc[w] = "commit"
    PROVE  /\ db'.ledger = Append(db.ledger, RowOf(w)) /\ RowOf(w) \in Promise!Rows
           /\ w \in Depositors =>
                 /\ RowOf(w).symbol = NoSymbol
                 /\ db'.positions = db.positions /\ db'.holdings = db.holdings
           /\ w \notin Depositors =>
                 /\ call[w] \in Calls /\ RowOf(w).symbol = call[w].symbol
                 /\ RowOf(w).shares = Promise!SignedShares(call[w])
                 /\ RowOf(w).portfolio = call[w].portfolio
                 /\ db'.positions = [db.positions EXCEPT ![call[w].symbol] =
                                        @ + Promise!SignedShares(call[w])]
                 /\ db'.holdings = IF call[w].portfolio \in Portfolios
                                     THEN [db.holdings EXCEPT ![call[w].portfolio][call[w].symbol] =
                                              @ + Promise!SignedShares(call[w])]
                                     ELSE db.holdings
<1>1. RowOf(w) \in Promise!Rows
  BY CommitAppends
<1>2. /\ db'.ledger = Append(db.ledger, RowOf(w))
      /\ db'.positions = IF w \notin Depositors
                           THEN [db.positions EXCEPT ![call[w].symbol] = @ + Promise!SignedShares(call[w])]
                           ELSE db.positions
      /\ db'.holdings = IF w \in Brokers /\ call[w].portfolio \in Portfolios
                          THEN [db.holdings EXCEPT ![call[w].portfolio][call[w].symbol] =
                                   @ + Promise!SignedShares(call[w])]
                          ELSE db.holdings
  BY DEF Written, FillApplied, HoldingApplied
<1>3. CASE w \in Depositors
  <2>1. RowOf(w).symbol = NoSymbol /\ w \notin Brokers
    BY <1>3, BooksProcesses DEF RowOf, Promise!DepositRow
  <2> QED BY <1>1, <1>2, <1>3, <2>1
<1>4. CASE w \notin Depositors
  <2>1. call[w] \in Calls /\ (w \notin Brokers => call[w].portfolio \notin Portfolios)
    BY <1>4, BooksConstants DEF IInv, CallInv, Writers
  <2>2. /\ RowOf(w).symbol = call[w].symbol /\ RowOf(w).portfolio = call[w].portfolio
        /\ RowOf(w).shares = Promise!SignedShares(call[w])
    BY <1>4 DEF RowOf, Promise!FillRow
  <2> QED BY <1>1, <1>2, <1>4, <2>1, <2>2
<1> QED BY <1>3, <1>4

\* Every commit moves the sums over the ledger as it moves the books.
LEMMA BooksAgreeStep ==
    ASSUME IInv, BooksAgree, NEW w \in Writers, db' = Written(w), pc[w] = "commit"
    PROVE  BooksAgree'
<1> DEFINE l == db.ledger
           r == RowOf(w)
           c == call[w]
<1>1. /\ l \in Seq(Promise!Rows) /\ r \in Promise!Rows /\ db'.ledger = Append(l, r)
      /\ db.positions \in [Symbols -> Int] /\ db.holdings \in [Portfolios -> [Symbols -> Int]]
  BY CommitWrites DEF IInv, TypeOK, Tables
<1>2. w \notin Depositors =>
         /\ c \in Calls /\ r.symbol = c.symbol /\ r.shares = Promise!SignedShares(c)
         /\ c.symbol \in Symbols /\ c.portfolio \in Portfolios \cup {NoPortfolio}
         /\ r.portfolio = c.portfolio /\ Promise!SignedShares(c) \in Int
  <2>1. c \in Calls => /\ c.symbol \in Symbols /\ c.portfolio \in Portfolios \cup {NoPortfolio}
                       /\ Promise!SignedShares(c) \in Int
    BY FillTypes DEF Calls
  <2> QED BY <2>1, CommitWrites
<1>3. ASSUME NEW s \in Symbols
      PROVE  db'.positions[s] = Total(SharesOf(db'.ledger, s, Portfolios \cup {NoPortfolio}))
  <2>1. Total(SharesOf(db'.ledger, s, Portfolios \cup {NoPortfolio})) =
           db.positions[s] + (IF r.symbol = s /\ r.portfolio \in Portfolios \cup {NoPortfolio}
                                THEN r.shares ELSE 0)
    <3> DEFINE ps == Portfolios \cup {NoPortfolio}
    <3>1. db.positions[s] = Total(SharesOf(l, s, ps))
      BY DEF BooksAgree
    <3> HIDE DEF l, r, ps
    <3>2. Total(SharesOf(Append(l, r), s, ps)) =
             Total(SharesOf(l, s, ps)) + (IF r.symbol = s /\ r.portfolio \in ps THEN r.shares ELSE 0)
      BY <1>1, ColumnsGrow
    <3> QED BY <1>1, <3>1, <3>2 DEF ps
  <2>2. CASE w \in Depositors
    <3>1. db'.positions = db.positions /\ r.symbol # s /\ db.positions[s] \in Int
      BY <1>1, <2>2, CommitWrites, BooksConstants
    <3> QED BY <2>1, <3>1
  <2>3. CASE w \notin Depositors
    <3>1. db'.positions = [db.positions EXCEPT ![c.symbol] = @ + Promise!SignedShares(c)]
      BY <2>3, CommitWrites
    <3>2. db'.positions[s] = db.positions[s] + (IF c.symbol = s THEN Promise!SignedShares(c) ELSE 0)
      BY <1>1, <1>2, <2>3, <3>1
    <3> QED BY <1>2, <2>1, <2>3, <3>2
  <2> QED BY <2>2, <2>3
<1>4. ASSUME NEW p \in Portfolios, NEW s \in Symbols
      PROVE  db'.holdings[p][s] = Total(SharesOf(db'.ledger, s, {p}))
  <2>1. Total(SharesOf(db'.ledger, s, {p})) =
           db.holdings[p][s] + (IF r.symbol = s /\ r.portfolio \in {p} THEN r.shares ELSE 0)
    BY <1>1, ColumnsGrow DEF BooksAgree
  <2>2. db.holdings[p][s] \in Int
    BY <1>1
  <2>3. CASE w \in Depositors
    <3>1. db'.holdings = db.holdings /\ r.symbol # s
      BY <2>3, CommitWrites, BooksConstants
    <3> QED BY <2>1, <2>2, <3>1
  <2>4. CASE w \notin Depositors /\ c.portfolio = p
    <3>1. db'.holdings = [db.holdings EXCEPT ![p][c.symbol] = @ + Promise!SignedShares(c)]
      BY <2>4, CommitWrites
    <3>2. db'.holdings[p][s] = db.holdings[p][s] + (IF c.symbol = s THEN Promise!SignedShares(c) ELSE 0)
      BY <1>1, <1>2, <2>4, <3>1
    <3> QED BY <1>2, <2>1, <2>4, <3>2
  <2>5. CASE w \notin Depositors /\ c.portfolio # p
    <3>1. db'.holdings[p][s] = db.holdings[p][s]
      <4>1. db'.holdings = IF c.portfolio \in Portfolios
                             THEN [db.holdings EXCEPT ![c.portfolio][c.symbol] = @ + Promise!SignedShares(c)]
                             ELSE db.holdings
        BY <2>5, CommitWrites
      <4> QED BY <1>1, <2>5, <4>1
    <3> QED BY <1>2, <2>1, <2>2, <2>5, <3>1
  <2> QED BY <2>3, <2>4, <2>5
<1>5. ASSUME VerifyHashChain(db'.ledger) = {}
      PROVE  GetLedgerBalance(db'.ledger) = Total(AmountsOf(db'.ledger))
  <2> DEFINE n == Len(l)
  <2>1. /\ n \in Nat /\ DOMAIN l = 1..n /\ DOMAIN db'.ledger = 1..(n + 1) /\ Len(db'.ledger) = n + 1
        /\ db'.ledger[n + 1] = r /\ \A i \in 1..n : db'.ledger[i] = l[i]
    BY <1>1
  <2>2. r.prev = n /\ VerifyHashChain(l) = {}
    <3>1. \A i \in 1..(n + 1) : db'.ledger[i].prev = i - 1
      BY <1>5, <2>1 DEF VerifyHashChain
    <3>2. ASSUME NEW i \in 1..n PROVE l[i].prev = i - 1
      <4>1. i \in 1..(n + 1) /\ db'.ledger[i] = l[i]
        BY <2>1
      <4> QED BY <3>1, <4>1
    <3> QED BY <2>1, <3>1, <3>2 DEF VerifyHashChain
  <2>3. GetLedgerBalance(l) = Total(AmountsOf(l))
    BY <2>2 DEF BooksAgree
  <2>4. r.balance = GetLedgerBalance(l) + r.amount
    <3>1. /\ Promise!LastRow(l).row = n
          /\ GetLedgerBalance(l) = IF n = 0 THEN 0 ELSE l[n].balance
      BY <1>1 DEF Promise!LastRow, Promise!Tail0, GetLedgerBalance
    <3>2. CASE r = Promise!FillRow(c, Len(db.orders) + 1, Promise!LastRow(l))
      BY <3>2 DEF Promise!FillRow, GetLedgerBalance
    <3>3. CASE r = Promise!DepositRow(OpeningCash, tail[w]) \/ r = Promise!FillRow(c, 0, tail[w])
      <4>1. tail[w].row = n
        BY <2>2, <3>3 DEF Promise!FillRow, Promise!DepositRow
      <4>2. tail[w].balance = GetLedgerBalance(l)
        BY <3>1, <4>1 DEF IInv, TailInv
      <4> QED BY <3>3, <4>2 DEF Promise!FillRow, Promise!DepositRow
    <3> QED BY <3>2, <3>3 DEF RowOf
  <2>5. GetLedgerBalance(db'.ledger) = r.balance
    <3>1. db'.ledger # <<>>
      BY <2>1
    <3> QED BY <2>1, <3>1 DEF GetLedgerBalance, Promise!LastRow
  <2>6. Total(AmountsOf(db'.ledger)) = Total(AmountsOf(l)) + r.amount
    BY <1>1, ColumnsGrow
  <2> QED BY <2>3, <2>4, <2>5, <2>6
<1> QED BY <1>3, <1>4, <1>5 DEF BooksAgree

\* A broker's commit brings an order and its row under the number of that order; any
\* other row has no order.
LEMMA OrdersMatchStep ==
    ASSUME IInv, OrdersMatchLedger, NEW w \in Writers, db' = Written(w), pc[w] = "commit"
    PROVE  OrdersMatchLedger'
<1> DEFINE n == Len(db.ledger)
           m == Len(db.orders)
           r == RowOf(w)
           k == IF w \in Brokers THEN m + 1 ELSE m
<1>1. /\ db.ledger \in Seq(Promise!Rows) /\ db.orders \in Seq(Promise!Orders)
      /\ n \in Nat /\ m \in Nat /\ DOMAIN db.ledger = 1..n /\ DOMAIN db.orders = 1..m
  BY DEF IInv, TypeOK, Tables
<1>2. /\ db'.ledger = Append(db.ledger, r)
      /\ db'.orders = IF w \in Brokers THEN Append(db.orders, Promise!OrderOf(call[w])) ELSE db.orders
  BY DEF Written
<1>3. /\ DOMAIN db'.ledger = 1..(n + 1) /\ db'.ledger[n + 1] = r
      /\ \A i \in 1..n : db'.ledger[i] = db.ledger[i]
      /\ DOMAIN db'.orders = 1..k /\ Len(db'.orders) = k /\ k \in m..(m + 1)
      /\ \A i \in 1..m : db'.orders[i] = db.orders[i]
      /\ w \in Brokers => db'.orders[m + 1] = Promise!OrderOf(call[w])
  BY <1>1, <1>2
<1>4. r.ref = IF w \in Brokers THEN m + 1 ELSE 0
  BY BooksProcesses DEF RowOf, Promise!FillRow, Promise!DepositRow, Writers
<1>5. w \in Brokers => /\ r.symbol = Promise!OrderOf(call[w]).symbol
                       /\ r.shares = Promise!SignedShares(Promise!OrderOf(call[w]))
  BY BooksProcesses DEF RowOf, Promise!FillRow, Promise!OrderOf, Promise!SignedShares, Writers
<1>6. \A i \in 1..n : db.ledger[i].ref \in 0..m
  BY <1>1 DEF OrdersMatchLedger
<1> HIDE DEF n, m, r, k
<1>7. ASSUME NEW i \in 1..k
      PROVE  \E q \in 1..(n + 1) :
                /\ db'.ledger[q].ref = i
                /\ db'.ledger[q].symbol = db'.orders[i].symbol
                /\ db'.ledger[q].shares = Promise!SignedShares(db'.orders[i])
  <2>1. CASE i \in 1..m
    <3>1. PICK q \in 1..n : /\ db.ledger[q].ref = i
                            /\ db.ledger[q].symbol = db.orders[i].symbol
                            /\ db.ledger[q].shares = Promise!SignedShares(db.orders[i])
      BY <1>1, <2>1 DEF OrdersMatchLedger
    <3>2. q \in 1..(n + 1)
      BY <1>1
    <3> QED BY <1>3, <2>1, <3>1, <3>2
  <2>2. CASE i \notin 1..m
    <3>1. i = m + 1 /\ w \in Brokers /\ n + 1 \in 1..(n + 1)
      BY <1>1, <1>7, <2>2 DEF k
    <3> QED BY <1>3, <1>4, <1>5, <3>1
  <2> QED BY <2>1, <2>2
<1>8. ASSUME NEW q \in 1..(n + 1)
      PROVE  /\ db'.ledger[q].ref \in 0..k
             /\ \A i \in 1..(n + 1) :
                   db'.ledger[i].ref = db'.ledger[q].ref => i = q \/ db'.ledger[q].ref = 0
  <2>1. ASSUME NEW i \in 1..(n + 1)
        PROVE  /\ db'.ledger[i].ref \in 0..k
               /\ i # n + 1 => db'.ledger[i].ref \in 0..m /\ i \in 1..n /\ db'.ledger[i] = db.ledger[i]
    <3>1. CASE i \in 1..n
      BY <1>1, <1>3, <1>6, <3>1 DEF k
    <3>2. CASE i = n + 1
      BY <1>1, <1>3, <1>4, <3>2 DEF k
    <3> QED BY <1>1, <3>1, <3>2
  <2>2. ASSUME NEW i \in 1..(n + 1), db'.ledger[i].ref = db'.ledger[q].ref, db'.ledger[q].ref # 0
        PROVE  i = q
    <3>1. CASE i # n + 1 /\ q # n + 1
      <4>1. i \in 1..n /\ q \in 1..n /\ db.ledger[i].ref = db.ledger[q].ref /\ db.ledger[q].ref # 0
        BY <2>1, <2>2, <3>1
      <4> QED BY <1>1, <4>1 DEF OrdersMatchLedger
    <3>2. CASE i = n + 1 \/ q = n + 1
      <4>1. db'.ledger[n + 1].ref = m + 1
        BY <1>3, <1>4, <2>2, <3>2
      <4>2. m + 1 \notin 0..m
        BY <1>1
      <4> QED BY <2>1, <2>2, <3>2, <4>1, <4>2
    <3> QED BY <3>1, <3>2
  <2> QED BY <2>1, <2>2
<1> QED BY <1>3, <1>7, <1>8 DEF OrdersMatchLedger

\* A broker reads the last row under the lock, so its own row chains to it.
LEMMA BrokerRowsStep ==
    ASSUME IInv, BrokerRowsChain, NEW w \in Writers, db' = Written(w), pc[w] = "commit"
    PROVE  BrokerRowsChain'
<1> DEFINE Good(l, i) == l[i].ref # 0 =>
               /\ l[i].prev = i - 1
               /\ l[i].balance = (IF i = 1 THEN 0 ELSE l[i - 1].balance) + l[i].amount
           n == Len(db.ledger)
           r == RowOf(w)
<1>1. /\ n \in Nat /\ DOMAIN db.ledger = 1..n /\ DOMAIN db'.ledger = 1..(n + 1)
      /\ db'.ledger[n + 1] = r /\ \A i \in 1..n : db'.ledger[i] = db.ledger[i]
  <2>1. db.ledger \in Seq(Promise!Rows) /\ db'.ledger = Append(db.ledger, r)
    BY CommitWrites DEF IInv, TypeOK, Tables
  <2> QED BY <2>1
<1>2. Good(db'.ledger, n + 1)
  <2>1. CASE w \notin Brokers
    <3>1. r.ref = 0
      BY <2>1 DEF RowOf, Promise!FillRow, Promise!DepositRow, Writers
    <3> QED BY <1>1, <3>1
  <2>2. CASE w \in Brokers
    <3>1. r = Promise!FillRow(call[w], Len(db.orders) + 1, Promise!LastRow(db.ledger))
      BY <2>2, BooksProcesses DEF RowOf
    <3>2. /\ Promise!LastRow(db.ledger).row = n
          /\ Promise!LastRow(db.ledger).balance = IF n = 0 THEN 0 ELSE db.ledger[n].balance
      BY DEF Promise!LastRow, Promise!Tail0, IInv, TypeOK, Tables
    <3>3. /\ r.prev = Promise!LastRow(db.ledger).row
          /\ r.balance = Promise!LastRow(db.ledger).balance + r.amount
      BY <3>1 DEF Promise!FillRow
    <3> QED BY <1>1, <3>2, <3>3
  <2> QED BY <2>1, <2>2
<1>3. \A i \in 1..n : Good(db'.ledger, i)
  <2> TAKE i \in 1..n
  <2>1. Good(db.ledger, i)
    BY <1>1 DEF BrokerRowsChain
  <2>2. i # 1 => i - 1 \in 1..n
    BY <1>1
  <2> QED BY <1>1, <2>1, <2>2
<1>4. \A i \in DOMAIN db'.ledger : Good(db'.ledger, i)
  <2> HIDE DEF Good
  <2>1. \A i \in DOMAIN db'.ledger : i \in 1..n \/ i = n + 1
    BY <1>1
  <2> QED BY <1>2, <1>3, <2>1
<1> QED BY <1>4 DEF BrokerRowsChain

\* Whatever races, crashes and times out, the tables tell one story: positions and
\* holdings are the sums of the ledger's shares, the balance of a ledger that verifies is
\* the sum of its amounts, orders and rows match one to one, and a broker's row chains.
THEOREM OneStory == Spec => []TablesAgree
<1>1. Init => TablesAgree
  <2> SUFFICES ASSUME Init PROVE TablesAgree
    OBVIOUS
  <2> DEFINE d == Promise!DepositRow(OpeningCash, Promise!Tail0)
  <2>1. /\ db.orders = <<>> /\ (db.ledger = <<>> \/ db.ledger = <<d>>)
        /\ db.positions = [s \in Symbols |-> 0]
        /\ db.holdings = [p \in Portfolios |-> [s \in Symbols |-> 0]]
    BY InitBooks
  <2>2. /\ d \in Promise!Rows /\ d.ref = 0 /\ d.symbol = NoSymbol /\ d.amount = OpeningCash
        /\ d.balance = OpeningCash /\ d.prev = 0
    <3>1. Promise!Tail0 \in [row : Nat, balance : Int]
      BY DEF Promise!Tail0
    <3>2. d \in Promise!Rows
      BY <3>1, RowTypes
    <3> QED BY <3>2, BooksConstants DEF Promise!DepositRow, Promise!Tail0
  <2> HIDE DEF d
  <2>3. ASSUME NEW s \in Symbols, NEW ps PROVE Total(SharesOf(db.ledger, s, ps)) = 0
    <3>1. d.symbol # s
      BY <2>2, BooksConstants
    <3>2. Total(SharesOf(<<d>>, s, ps)) = 0
      BY <2>2, <3>1, OneRow
    <3> QED BY <2>1, <3>2, NoColumns
  <2>4. GetLedgerBalance(db.ledger) = Total(AmountsOf(db.ledger))
    <3>1. CASE db.ledger = <<>>
      BY <3>1, NoColumns DEF GetLedgerBalance, Promise!LastRow, Promise!Tail0
    <3>2. CASE db.ledger = <<d>>
      <4>1. Total(AmountsOf(<<d>>)) = OpeningCash
        BY <2>2, OneRow
      <4>2. GetLedgerBalance(<<d>>) = OpeningCash
        BY <2>2 DEF GetLedgerBalance, Promise!LastRow
      <4> QED BY <3>2, <4>1, <4>2
    <3> QED BY <2>1, <3>1, <3>2
  <2>5. BooksAgree
    BY <2>1, <2>3, <2>4 DEF BooksAgree
  <2>6. /\ DOMAIN db.orders = {} /\ Len(db.orders) = 0
        /\ \A i \in DOMAIN db.ledger : i = 1 /\ db.ledger[i].ref = 0
    BY <2>1, <2>2
  <2>7. OrdersMatchLedger /\ BrokerRowsChain
    BY <2>6 DEF OrdersMatchLedger, BrokerRowsChain
  <2> QED BY <2>5, <2>7 DEF TablesAgree
<1>2. TablesAgree /\ IInv /\ [Next]_books => TablesAgree'
  <2> SUFFICES ASSUME TablesAgree, IInv, [Next]_books PROVE TablesAgree'
    OBVIOUS
  <2>1. CASE db' = db
    BY <2>1 DEF TablesAgree, BooksAgree, OrdersMatchLedger, BrokerRowsChain
  <2>2. ASSUME NEW w \in Writers, db' = Written(w), pc[w] = "commit" PROVE TablesAgree'
    BY <2>2, BooksAgreeStep, OrdersMatchStep, BrokerRowsStep DEF TablesAgree
  <2> QED BY <2>1, <2>2, OnlyCommitChangesDb
<1> QED
  BY <1>1, <1>2, Invariance, PTL DEF Spec
=============================================================================

---------------------------- MODULE AtomicBooks ----------------------------
(***************************************************************************)
(* What the books of the fund promise, with no connection, lock or         *)
(* statement in sight: orders, ledger, positions and the per-portfolio     *)
(* holdings move together, one fill at a time.                             *)
(*                                                                         *)
(* broker/paper.py: "orders + ledger + positions in ONE transaction ...    *)
(* the books can never diverge from a mid-sequence failure".               *)
(* ledger/writer.py: "balance_after = previous balance + amount ... the    *)
(* hash chains to the previous row".                                       *)
(*                                                                         *)
(* A ledger row's hash covers the row and the hash of the row it was       *)
(* chained to, so hashes are modelled by the row numbers they identify:    *)
(* row n chains to `prev', 0 standing for the empty hash before the first  *)
(* row.  `shares' and `portfolio' are not columns of the ledger; they      *)
(* remember which fill a row is for, so that the other tables can be       *)
(* compared with the ledger.                                               *)
(***************************************************************************)
EXTENDS Integers, Sequences

CONSTANTS Symbols, Portfolios, Coids, Quantities, Prices, Fees,
          NoSymbol,      \* the empty symbol of a DEPOSIT
          NoPortfolio    \* a fill submitted with portfolio_id=None

Sides == {"buy", "sell"}

Fills == [symbol : Symbols, side : Sides, qty : Quantities, price : Prices,
          fee : Fees, coid : Coids, portfolio : Portfolios \cup {NoPortfolio}]

Orders == [coid : Coids, symbol : Symbols, side : Sides, qty : Nat]

Rows == [ref : Nat, symbol : Symbols \cup {NoSymbol}, shares : Int,
         portfolio : Portfolios \cup {NoPortfolio},
         amount : Int, balance : Int, prev : Nat]

----------------------------------------------------------------------------
\* The arithmetic of one fill.

SignedShares(f) == IF f.side = "buy" THEN f.qty ELSE -f.qty

\* A BUY is cash out, fees included; a SELL is cash in, and pays none.
CashAmount(f) == IF f.side = "buy" THEN -(f.qty * f.price + f.fee) ELSE f.qty * f.price

OrderOf(f) == [coid |-> f.coid, symbol |-> f.symbol, side |-> f.side, qty |-> f.qty]

\* What the appender knows of the row it chains to: its number and its balance.
Tail0 == [row |-> 0, balance |-> 0]
LastRow(l) == IF l = <<>> THEN Tail0
                          ELSE [row |-> Len(l), balance |-> l[Len(l)].balance]

\* The row that records fill f (order row `ref', 0 for a manual entry) after t.
FillRow(f, ref, t) ==
    [ref |-> ref, symbol |-> f.symbol, shares |-> SignedShares(f),
     portfolio |-> f.portfolio, amount |-> CashAmount(f),
     balance |-> t.balance + CashAmount(f), prev |-> t.row]

DepositRow(amount, t) ==
    [ref |-> 0, symbol |-> NoSymbol, shares |-> 0, portfolio |-> NoPortfolio,
     amount |-> amount, balance |-> t.balance + amount, prev |-> t.row]

Submitted(os, coid) == \E i \in DOMAIN os : os[i].coid = coid

----------------------------------------------------------------------------
VARIABLES orders, ledger, positions, holdings

abooks == <<orders, ledger, positions, holdings>>

Init ==
    /\ orders = <<>>
    /\ \/ ledger = <<>>
       \/ ledger = <<DepositRow(ledger[1].amount, Tail0)>>
    /\ positions = [s \in Symbols |-> 0]
    /\ holdings = [p \in Portfolios |-> [s \in Symbols |-> 0]]

\* One fill, seen as a whole or not at all.
Fill(f) ==
    /\ ~Submitted(orders, f.coid)
    /\ positions[f.symbol] + SignedShares(f) >= 0
    /\ f.portfolio \in Portfolios => holdings[f.portfolio][f.symbol] + SignedShares(f) >= 0
    /\ orders' = Append(orders, OrderOf(f))
    /\ ledger' = Append(ledger, FillRow(f, Len(orders) + 1, LastRow(ledger)))
    /\ positions' = [positions EXCEPT ![f.symbol] = @ + SignedShares(f)]
    /\ holdings' = IF f.portfolio \in Portfolios
                     THEN [holdings EXCEPT ![f.portfolio][f.symbol] = @ + SignedShares(f)]
                     ELSE holdings

\* The executed quantity of a sell may have been clamped to the whole position
\* and that of a realistic buy cut to what is displayed, so any quantity can
\* fill: the one the new order row states.
Next ==
    /\ Len(orders') > Len(orders)
    /\ \E f \in [symbol : Symbols, side : Sides, qty : {orders'[Len(orders')].qty},
                 price : Prices, fee : Fees, coid : Coids,
                 portfolio : Portfolios \cup {NoPortfolio}] : Fill(f)

Spec == Init /\ [][Next]_abooks
============================================================================

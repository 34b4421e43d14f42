---------------------------- MODULE ShariaScreen ----------------------------
(***************************************************************************)
(* The decisions of the Sharia layer, as functions: the AAOIFI screen of   *)
(* one snapshot of a company's books (sharia/aaoifi.py), what becomes of   *)
(* those books on their way through the quarterly job's snapshot           *)
(* (sharia/screener.py), and how the in-house screen, the second source    *)
(* and a local board are combined (sharia/cross_check.py).                 *)
(*                                                                         *)
(* Books are amounts; a denominator of zero is one that is missing.  A     *)
(* ratio n / d is compared with a limit in percent as 100 * n with         *)
(* limit * d, so nothing is rounded.                                       *)
(***************************************************************************)
EXTENDS Integers

Breach(n, d, limit) == d > 0 /\ 100 * n > limit * d

\* No data, or the watch band of two points below the limit.
NearMiss(n, d, limit, banded) ==
    d = 0 \/ (banded /\ 100 * n >= (limit - 2) * d /\ 100 * n <= limit * d)

\* screen: the four ratios against their limits, and the prohibited sectors.
Screen(f) ==
    LET breached == \/ f.banned
                    \/ Breach(f.debt, f.average, 30)
                    \/ Breach(f.deposits + f.invested, f.average, 30)
                    \/ Breach(f.deposits + f.receivables, f.assets, 67)
                    \/ Breach(f.impure, f.revenue, 5)
        near == \/ NearMiss(f.debt, f.average, 30, TRUE)
                \/ NearMiss(f.deposits + f.invested, f.average, 30, TRUE)
                \/ NearMiss(f.deposits + f.receivables, f.assets, 67, FALSE)
                \/ NearMiss(f.impure, f.revenue, 5, FALSE)
    IN  CASE breached -> "fail" [] ~breached /\ near -> "doubtful" [] OTHER -> "pass"

\* The fields a compact snapshot may leave out, each by itself.
Optional == {"receivables", "total_assets", "sector"}

\* (Mutant: the cash is handed on as deposits, too.)
CompactTwice(f, given) ==
    [f EXCEPT !.average = f.spot, !.invested = f.deposits + f.invested,
              !.receivables = IF "receivables" \in given THEN @ ELSE 0,
              !.assets = CASE "total_assets" \in given -> @
                           [] "total_assets" \notin given /\ f.spot > 0 -> f.spot
                           [] OTHER -> 1,
              !.impure = IF f.revenue > 0 THEN @ ELSE 0,
              !.revenue = IF @ > 0 THEN @ ELSE 1,
              !.banned = @ /\ "sector" \in given]

\* _to_aaoifi of the compact snapshot of f with the optional fields `given' filled in:
\* the market cap of the day stands for the average; cash and interest-bearing
\* securities are one figure, so no cash is left for the receivables; impure income
\* comes as a share, over a revenue of 1.0, and as 0 when there is none to be had.
Compact(f, given) ==
    [f EXCEPT !.average = f.spot, !.deposits = 0, !.invested = f.deposits + f.invested,
              !.receivables = IF "receivables" \in given THEN @ ELSE 0,
              !.assets = CASE "total_assets" \in given -> @
                           [] "total_assets" \notin given /\ f.spot > 0 -> f.spot
                           [] OTHER -> 1,
              !.impure = IF f.revenue > 0 THEN @ ELSE 0,
              !.revenue = IF @ > 0 THEN @ ELSE 1,
              !.banned = @ /\ "sector" \in given]

\* (Mutant: the in-house screen alone clears a name.)
CombineAlone(inHouse, second) ==
    CASE inHouse = "fail" \/ second = "fail" -> "fail"
      [] inHouse = "pass" /\ second \in {"pass", "none"} -> "pass"
      [] inHouse = "doubtful" /\ second = "none" -> "pending_review"
      [] OTHER -> "doubtful"

\* combine: one failure is decisive, and one source clears nothing.
Combine(inHouse, second) ==
    CASE inHouse = "fail" \/ second = "fail" -> "fail"
      [] inHouse # "fail" /\ second = "none" -> "pending_review"
      [] inHouse = "pass" /\ second = "pass" -> "pass"
      [] OTHER -> "doubtful"

\* apply_authority as the job calls it, without a founder's action: the local board
\* overrides.
ApplyAuthority(final, local) == IF local # "none" THEN local ELSE final

NonClear == {"fail", "doubtful", "frozen"}
WhitelistStatus ==
    [pass |-> "compliant", fail |-> "non_compliant", doubtful |-> "doubtful",
     frozen |-> "frozen", pending_review |-> "pending_review"]
=============================================================================

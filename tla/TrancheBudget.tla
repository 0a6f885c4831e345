---------------------------- MODULE TrancheBudget ----------------------------
(***************************************************************************)
(* The admission arithmetic of sips_runtime/budget.py, for the model-token *)
(* dimension: the hard limit, the cumulative 30/35/35 tranches, and the    *)
(* loop of RuntimeController.lease that releases a tranche at a time until *)
(* a reservation fits.                                                     *)
(***************************************************************************)
EXTENDS Integers

CONSTANT HardLimit

ASSUME HardLimitAssumption == HardLimit \in Nat

TrancheCount == 3
TranchePercentage == <<30, 35, 35>>

\* Python's round(HardLimit * percentage / 100): half goes to even.
RoundedShare(percentage) ==
  LET whole == (HardLimit * percentage) \div 100
      rest  == (HardLimit * percentage) % 100
      up    == rest > 50 \/ (rest = 50 /\ whole % 2 = 1)
  IN  whole + (IF up THEN 1 ELSE 0)

AtMost(a, b) == IF a <= b THEN a ELSE b

\* tranche_limits: the cumulative release, never above the hard limit.
TrancheLimit(k) ==
  LET first  == RoundedShare(TranchePercentage[1])
      second == first + RoundedShare(TranchePercentage[2])
      third  == second + RoundedShare(TranchePercentage[3])
  IN  AtMost(HardLimit, IF k = 1 THEN first ELSE IF k = 2 THEN second ELSE third)

\* BudgetLedger.reserve succeeds for `tokens` on top of `charged` once the
\* first `released` tranches are out.
Fits(charged, tokens, released) ==
  /\ charged + tokens <= HardLimit
  /\ charged + tokens <= TrancheLimit(released)

\* Fault: only the hard limit is looked at.
IgnoresTranches(charged, tokens, before, after) ==
  charged + tokens <= HardLimit /\ after = before

\* The `while True` of lease: `after` is the first tranche count, from
\* `before` on, at which the reservation fits.
Releases(charged, tokens, before, after) ==
  /\ after \in before..TrancheCount
  /\ Fits(charged, tokens, after)
  /\ \A k \in before..(after - 1) : ~Fits(charged, tokens, k)
=============================================================================

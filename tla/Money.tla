------------------------------- MODULE Money --------------------------------
(***************************************************************************)
(* Sums of money, rounding to the kopeck and the sharing out of an amount, *)
(* as the result of the month, of its days and of the articles use them    *)
(* (common/pnl_tax.py, daily_pnl_service.py).  Money is in kopecks.        *)
(***************************************************************************)
EXTENDS Integers, FiniteSets, FiniteSetsExt

\* The sum of the values a function has on a finite set.
SumOver(f, S) == MapThenSumSet(LAMBDA x : f[x], S)

MnAbs(n) == IF n < 0 THEN -n ELSE n
MnMax0(n) == IF n > 0 THEN n ELSE 0

\* quantize(CENT, ROUND_HALF_UP) of n / d: halves go away from zero.
MnRound(n, d) ==
  LET q == (2 * MnAbs(n) + MnAbs(d)) \div (2 * MnAbs(d))
  IN IF (n < 0) = (d < 0) THEN q ELSE -q

\* tax_amount(), with the rate in percent.
MnTax(base, rate) == MnRound(MnMax0(base) * rate, 100)

\* What allocate() shares by: the weights, or equal ones when they add up to nothing.
MnWeights(weight, keys) == IF SumOver(weight, keys) = 0 THEN [k \in keys |-> 1] ELSE weight
MnParts(amount, weight, keys) ==
  LET w == MnWeights(weight, keys)
  IN [k \in keys |-> MnRound(amount * w[k], SumOver(w, keys))]

\* Mutant: every key takes its rounded part, the last one too.
MnAllocateRounded(amount, weight, keys, last) == MnParts(amount, weight, keys)

\* allocate(): the last key takes what the rounded parts of the others leave.
MnAllocate(amount, weight, keys, last) ==
  LET parts == MnParts(amount, weight, keys)
  IN [parts EXCEPT ![last] = amount - SumOver(parts, keys \ {last})]
=============================================================================

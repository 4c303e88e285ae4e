------------------------------ MODULE PricePlan ------------------------------
(***************************************************************************)
(* The price a repricer rule asks for and the change it plans, as          *)
(* workers/app/tasks/repricer.py computes them.                            *)
(*                                                                         *)
(* Money is a whole number of kopecks and a percentage a whole number; a   *)
(* quotient is cut to the kopeck.  Rules and snapshots are records:        *)
(*   rule: mp, mode, target, min, max, margin, step, fallback, dry         *)
(*   snap: price, discount, scope, samples, breakeven, limit, color        *)
(* where None stands for Python's None.                                    *)
(***************************************************************************)
EXTENDS Integers

None == -1
Larger(a, b) == IF a > b THEN a ELSE b
Smaller(a, b) == IF a < b THEN a ELSE b
Distance(a, b) == Larger(a, b) - Smaller(a, b)

\* round(): to the nearest rouble, a half to the even one.
RoundRouble(x) ==
  LET q == x \div 100  r == x % 100
  IN  100 * (IF r > 50 \/ (r = 50 /\ q % 2 = 1) THEN q + 1 ELSE q)

MinSamples(mp) == IF mp = "wb" THEN 3 ELSE 1

DiscountKnown(snap) == snap.discount # None /\ snap.discount < 90

\* Measured on enough sales of the card, or on WB on enough of the account.
DiscountUsable(rule, snap) ==
  /\ DiscountKnown(snap)
  /\ \/ snap.scope = "product" /\ snap.samples >= MinSamples(rule.mp)
     \/ snap.scope = "account" /\ rule.mp = "wb" /\ snap.samples >= 10

\* The seller price at which the buyer pays the target after the discount.
BeforeDiscount(rule, snap) == (rule.target * 100) \div (100 - snap.discount)

\* RED: one step down, to the target at most.  YELLOW: no raise.
IndexGuard(rule, snap, price) ==
  CASE rule.mp = "ozon" /\ snap.color = "RED" ->
         Smaller(price, Larger(rule.target, snap.price - (snap.price * rule.step) \div 100))
    [] rule.mp = "ozon" /\ snap.color = "YELLOW" -> Smaller(price, snap.price)
    [] OTHER -> price

BuyerPrice(rule, snap) ==
  CASE rule.target <= 0 -> None
    [] rule.target > 0 /\ ( \/ DiscountUsable(rule, snap)
                            \/ rule.fallback = "account_median" /\ rule.mp = "wb"
                                 /\ DiscountKnown(snap) ) ->
         IndexGuard(rule, snap, BeforeDiscount(rule, snap))
    [] rule.target > 0 /\ ~DiscountUsable(rule, snap)
         /\ ( \/ rule.fallback = "seller_price"
              \/ rule.fallback = "account_median" /\ rule.mp # "wb" ) ->
         IndexGuard(rule, snap, rule.target)
    [] OTHER -> None

\* What the mode asks for, before any bound.
AskedPrice(rule, snap) ==
  CASE rule.mode = "buyer_price" -> BuyerPrice(rule, snap)
    [] rule.mode = "seller_price" ->
         IF rule.target <= 0 \/ (rule.mp = "ym" /\ snap.breakeven = None)
         THEN None ELSE rule.target
    [] rule.mode = "margin" ->
         IF snap.breakeven <= 0 THEN None
         ELSE snap.breakeven + (snap.breakeven * rule.margin) \div 100

\* Never sold below: the rule's minimum and the break-even price.
Floor(rule, snap) == Larger(rule.min, Larger(snap.breakeven, 0))

\* A live rule does not lower the price of a card whose cost is unknown.
BlindCut(rule, snap, price) == ~rule.dry /\ snap.breakeven = None /\ price < snap.price

\* desired_price: the asked price within [floor, maximum], or None.
DesiredPrice(rule, snap) ==
  LET asked == AskedPrice(rule, snap)
      lifted == Larger(asked, Floor(rule, snap))
  IN  CASE \/ rule.max > 0 /\ rule.min > rule.max
           \/ asked = None
           \/ BlindCut(rule, snap, asked)
           \/ rule.max > 0 /\ lifted > rule.max /\ rule.max < Floor(rule, snap) -> None
        [] OTHER -> RoundRouble(IF rule.max > 0 THEN Smaller(lifted, rule.max) ELSE lifted)

\* Towards the desired price by at most pct percent of the current one.
StepLimited(current, desired, pct) ==
  LET step == (current * pct) \div 100
  IN  CASE desired > current + step -> RoundRouble(current + step)
        [] desired < current - step -> RoundRouble(current - step)
        [] OTHER -> desired

\* One rouble or half a percent of what is compared with.
WithinTolerance(a, b, of) == Distance(a, b) <= 100 \/ 200 * Distance(a, b) <= of

NoChange == [type |-> "none", value |-> None]

\* Mutant: the limit below a price that is right is left alone.
PlanPriceOnly(rule, snap) ==
  LET desired == DesiredPrice(rule, snap)
      price == Larger(StepLimited(snap.price, desired, rule.step), Floor(rule, snap))
  IN  IF \/ desired = None
         \/ rule.max > 0 /\ price > rule.max
         \/ WithinTolerance(price, snap.price, snap.price)
      THEN NoChange ELSE [type |-> "price", value |-> price]

\* Mutant: the step ends where it ends, the floor has been seen to before.
PlanStepOnly(rule, snap) ==
  LET desired == DesiredPrice(rule, snap)
      price == StepLimited(snap.price, desired, rule.step)
  IN  IF \/ desired = None
         \/ rule.max > 0 /\ price > rule.max
         \/ WithinTolerance(price, snap.price, snap.price)
      THEN NoChange ELSE [type |-> "price", value |-> price]

\* _plan, on a fresh snapshot with a price: a change of the price, on Ozon of the
\* limit alone, or none.
Plan(rule, snap) ==
  LET desired == DesiredPrice(rule, snap)
      price == Larger(StepLimited(snap.price, desired, rule.step), Floor(rule, snap))
      blocked == desired = None \/ (rule.max > 0 /\ price > rule.max)
      atPrice == WithinTolerance(price, snap.price, snap.price)
      limitTooLow == /\ rule.mp = "ozon"
                     /\ snap.limit # None
                     /\ snap.limit < snap.price
                     /\ ~WithinTolerance(snap.price, snap.limit, snap.price)
  IN  CASE ~blocked /\ ~atPrice -> [type |-> "price", value |-> price]
        [] ~blocked /\ atPrice /\ limitTooLow -> [type |-> "price_limit", value |-> snap.price]
        [] OTHER -> NoChange

\* Mutant: the list price is rounded down to tens of roubles.
WbListPriceCoarse(price, pct) == 1000 * (((price * 100) \div (100 - pct)) \div 1000)

\* The list price WB is given, so that the seller price comes out at price.
WbListPrice(price, pct) ==
  RoundRouble((price * 100) \div (100 - Smaller(Larger(pct, 0), 99)))
=============================================================================

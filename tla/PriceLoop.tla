------------------------------ MODULE PriceLoop ------------------------------
(***************************************************************************)
(* One card under one live price rule, run after run: the repricer plans a *)
(* change from the card's snapshot, sends it unless it is on record for    *)
(* the day, and the marketplace shows it in the next snapshot.             *)
(*                                                                         *)
(* The snapshot is ideal here: it always shows the price that is set       *)
(* (PriceSnapshot models how it comes about).  The marketplace accepts     *)
(* what it is sent and, on Ozon, rates the price against what the same     *)
(* item costs elsewhere.                                                   *)
(***************************************************************************)
EXTENDS PricePlan

CONSTANTS
  Rules,       \* the price rules to look at
  Cards,       \* what is known of a card: discount, scope, samples, breakeven,
               \* the seller's own discount (own) and the price elsewhere (elsewhere)
  StartPrices  \* the prices a card may have when its rule is made

\* Rules and cards as the code has them: percentages and prices are not negative, a missing
\* cost, discount or price elsewhere is None, and a seller's discount is below 100 %.
RuleType ==
  [mp: {"wb", "ozon", "ym"}, mode: {"buyer_price", "seller_price", "margin"}, target: Nat,
   min: Nat, max: Nat, margin: Nat, step: Nat, fallback: STRING, dry: BOOLEAN]
CardType ==
  [discount: Nat \cup {None}, scope: STRING, samples: Nat, breakeven: Nat \cup {None},
   own: 0..99, elsewhere: Nat \cup {None}]

ASSUME PriceAssumption ==
  Rules \subseteq RuleType /\ Cards \subseteq CardType /\ StartPrices \subseteq Nat \ {0}

VARIABLES
  rule,        \* the rule
  card,        \* the card, its price and limit apart
  price,       \* the seller price on the marketplace
  limit,       \* Ozon's limit for promotions, None elsewhere
  recorded     \* today's changes: sys_marketplace_actions by idempotency key

vars == <<rule, card, price, limit, recorded>>

-----------------------------------------------------------------------------
\* Ozon's price index: YELLOW from 1.03 of the price elsewhere, RED from 1.06.
Color(p) ==
  CASE rule.mp # "ozon" \/ card.elsewhere = None -> "none"
    [] rule.mp = "ozon" /\ card.elsewhere # None /\ 100 * p >= 106 * card.elsewhere -> "RED"
    [] rule.mp = "ozon" /\ card.elsewhere # None /\ 100 * p >= 103 * card.elsewhere
         /\ 100 * p < 106 * card.elsewhere -> "YELLOW"
    [] OTHER -> "GREEN"

Snap == [price |-> price, limit |-> limit, color |-> Color(price),
         discount |-> card.discount, scope |-> card.scope, samples |-> card.samples,
         breakeven |-> card.breakeven]

Init ==
  /\ rule \in Rules
  /\ card \in Cards
  /\ price \in StartPrices
  /\ limit \in IF rule.mp = "ozon" THEN {price, price \div 2} ELSE {None}
  /\ recorded = {}

\* Where the marketplace's price ends up when the change is sent.
PriceSet(change) ==
  CASE rule.mp = "wb" -> (WbListPrice(change.value, card.own) * (100 - card.own)) \div 100
    [] OTHER -> change.value

\* Mutant: no change is executed as a change.
EvaluateAnything ==
  LET change == Plan(rule, Snap)
  IN  /\ change \notin recorded
      /\ recorded' = recorded \cup {change}
      /\ price' = PriceSet(change)
      /\ limit' = IF rule.mp = "ozon" THEN change.value ELSE limit
      /\ UNCHANGED <<rule, card>>

\* A run plans a change that is not on record today, and the marketplace takes it; a card
\* without a price is passed over.
Evaluate ==
  LET change == Plan(rule, Snap)
  IN  /\ price > 0
      /\ change.type # "none"
      /\ ~rule.dry
      /\ change \notin recorded
      /\ recorded' = recorded \cup {change}
      /\ price' = PriceSet(change)
      /\ limit' = IF rule.mp = "ozon" THEN change.value ELSE limit
      /\ UNCHANGED <<rule, card>>

\* The key of a change carries the UTC day.
NextDay ==
  /\ recorded # {}
  /\ recorded' = {}
  /\ UNCHANGED <<rule, card, price, limit>>

Next == Evaluate \/ NextDay

Spec == Init /\ [][Next]_vars
\* The repricer runs every ten minutes, and days go by.
FairSpec == Spec /\ WF_vars(Evaluate) /\ WF_vars(NextDay)

-----------------------------------------------------------------------------
TypeOK ==
  /\ rule \in Rules
  /\ card \in Cards
  /\ price \in Nat
  /\ limit \in Nat \cup {None}
  /\ \A change \in recorded : change.type \in {"price", "price_limit"} /\ change.value \in Nat

Desired == DesiredPrice(rule, Snap)
\* The price is where the rule wants it, or the rule wants nothing.
AtDesired == Desired # None => WithinTolerance(price, Desired, price)

\* docs/marketplace_actions.md: on Ozon the limit is kept at the price, so that no
\* promotion sells a card the rule keeps far below it.
LimitKept ==
  rule.mp = "ozon" /\ Desired # None => limit >= price \/ WithinTolerance(price, limit, price)

\* A change moves the price towards what the rule asked for before it, and not past
\* it by more than the rounding of the step and of a WB list price (50 kopecks each, and
\* one that the quotients of the list price cut off).
NoOvershoot ==
  [][price' # price =>
       /\ price' >= Smaller(price, Desired) - 101
       /\ price' <= Larger(price, Desired) + 101]_vars

\* What a change sets is within the rule's bounds and not below break-even, but
\* for the rounding of a WB list price: also when the step limit would end outside.
BoundsKept ==
  [][price' # price =>
       /\ price' >= Floor(rule, Snap) - 51
       /\ rule.max > 0 => price' <= rule.max + 51]_vars

\* docs/marketplace_actions.md: a change moves the price by at most max_step_pct of
\* the current price (the rounding of the step and of WB's list price aside),
\* unless the price is below the floor and is raised to it.
StepKept ==
  [][price >= Floor(rule, Snap) =>
       100 * Distance(price', price) <= rule.step * price + 10100]_vars

\* A card comes to rest, and at the price its rule asks for: the changes of
\* at most max_step_pct add up to the whole way.
Arrives == <>[](AtDesired /\ LimitKept)

\* No change leaves the bounds or goes further than one step.
StepsWithinBounds == BoundsKept /\ StepKept
=============================================================================

--------------------------- MODULE PricePlanProofs ---------------------------
(***************************************************************************)
(* What _plan guarantees of a change of the price, for every rule and      *)
(* every snapshot, and what run after run makes of the price of a card:    *)
(* the runs of PriceLoop look at a few hundred of them.                    *)
(***************************************************************************)
EXTENDS PriceLoop, TLAPS

\* A snapshot of a card that has a price.
Snapshot ==
  [price : Nat \ {0}, discount : Nat \cup {None}, scope : STRING, samples : Nat,
   breakeven : Nat \cup {None}, limit : Nat \cup {None},
   color : {"none", "GREEN", "YELLOW", "RED"}]

\* round() is off by half a rouble at most.
LEMMA RoundingIsClose ==
  ASSUME NEW x \in Int
  PROVE  RoundRouble(x) \in Int /\ RoundRouble(x) <= x + 50 /\ x <= RoundRouble(x) + 50
<1> DEFINE q == x \div 100
           r == x % 100
<1>1. q \in Int /\ r \in 0..99 /\ x = 100 * q + r
  OBVIOUS
<1>2. RoundRouble(x) = 100 * q \/ RoundRouble(x) = 100 * q + 100
  BY <1>1 DEF RoundRouble
<1>3. RoundRouble(x) = 100 * q => r <= 50
  BY <1>1 DEF RoundRouble
<1>4. RoundRouble(x) = 100 * q + 100 => r >= 50
  BY <1>1 DEF RoundRouble
<1> HIDE DEF q, r
<1>. QED BY <1>1, <1>2, <1>3, <1>4

LEMMA FloorIsPrice ==
  ASSUME NEW u \in RuleType, NEW snap \in Snapshot
  PROVE  Floor(u, snap) \in Nat
BY DEF RuleType, Snapshot, Floor, Larger, None

\* A step is not longer than pct percent of the current price, rounding aside, and ends
\* between the current price and the desired one.
LEMMA StepIsShort ==
  ASSUME NEW current \in Nat, NEW desired \in Int, NEW pct \in Nat
  PROVE  /\ StepLimited(current, desired, pct) \in Int
         /\ 100 * Distance(StepLimited(current, desired, pct), current) <= pct * current + 5000
         /\ StepLimited(current, desired, pct) >= Smaller(current, desired) - 50
         /\ StepLimited(current, desired, pct) <= Larger(current, desired) + 50
<1> DEFINE share == current * pct
           step == share \div 100
<1>1. share \in Nat /\ pct * current = share
  OBVIOUS
<1> HIDE DEF share
<1>2. step \in Nat /\ 100 * step <= share
  BY <1>1
<1>3. /\ RoundRouble(current + step) \in Int
      /\ RoundRouble(current + step) <= current + step + 50
      /\ current + step <= RoundRouble(current + step) + 50
  BY <1>2, RoundingIsClose
<1>4. /\ RoundRouble(current - step) \in Int
      /\ RoundRouble(current - step) <= current - step + 50
      /\ current - step <= RoundRouble(current - step) + 50
  BY <1>2, RoundingIsClose
<1>5. StepLimited(current, desired, pct) =
        CASE desired > current + step -> RoundRouble(current + step)
          [] desired < current - step -> RoundRouble(current - step)
          [] OTHER -> desired
  BY DEF StepLimited, share
<1> HIDE DEF step
<1>6. CASE desired > current + step
  BY <1>1, <1>2, <1>3, <1>5, <1>6 DEF Distance, Larger, Smaller
<1>7. CASE desired < current - step
  BY <1>1, <1>2, <1>4, <1>5, <1>7 DEF Distance, Larger, Smaller
<1>8. CASE ~(desired > current + step) /\ ~(desired < current - step)
  BY <1>1, <1>2, <1>5, <1>8 DEF Distance, Larger, Smaller
<1>. QED BY <1>2, <1>6, <1>7, <1>8

\* What a rule asks for is a price, or None.
LEMMA AskedIsNumber ==
  ASSUME NEW u \in RuleType, NEW snap \in Snapshot
  PROVE  AskedPrice(u, snap) \in Int
<1> USE DEF RuleType, Snapshot, None
<1>1. ASSUME NEW p \in Int PROVE IndexGuard(u, snap, p) \in Int
  <2>1. (snap.price * u.step) \in Int
    OBVIOUS
  <2>2. ((snap.price * u.step) \div 100) \in Int
    BY <2>1
  <2>. QED BY <2>2 DEF IndexGuard, Larger, Smaller
<1>2. DiscountKnown(snap) => BeforeDiscount(u, snap) \in Int
  <2> SUFFICES ASSUME DiscountKnown(snap) PROVE BeforeDiscount(u, snap) \in Int
    OBVIOUS
  <2>1. 100 - snap.discount \in Nat \ {0} /\ u.target * 100 \in Nat
    BY DEF DiscountKnown
  <2>. QED BY <2>1 DEF BeforeDiscount
<1>3. DiscountUsable(u, snap) => DiscountKnown(snap)
  BY DEF DiscountUsable
<1>4. BuyerPrice(u, snap) \in Int
  BY <1>1, <1>2, <1>3 DEF BuyerPrice
<1>5. snap.breakeven > 0 =>
        snap.breakeven + (snap.breakeven * u.margin) \div 100 \in Int
  <2>1. snap.breakeven * u.margin \in Int
    OBVIOUS
  <2>. QED BY <2>1
<1>. QED BY <1>4, <1>5 DEF AskedPrice

\* The desired price is a number, None among them.
LEMMA DesiredIsNumber ==
  ASSUME NEW u \in RuleType, NEW snap \in Snapshot
  PROVE  DesiredPrice(u, snap) \in Int
<1> DEFINE lifted == Larger(AskedPrice(u, snap), Floor(u, snap))
<1>1. lifted \in Int /\ u.max \in Nat
  BY AskedIsNumber, FloorIsPrice DEF Larger, RuleType
<1>2. (IF u.max > 0 THEN Smaller(lifted, u.max) ELSE lifted) \in Int
  BY <1>1 DEF Smaller
<1>3. RoundRouble(IF u.max > 0 THEN Smaller(lifted, u.max) ELSE lifted) \in Int
  BY <1>2, RoundingIsClose
<1>. QED BY <1>3 DEF DesiredPrice, None

\* What a change of the price is made from.
LEMMA PlannedPrice ==
  ASSUME NEW u \in RuleType, NEW snap \in Snapshot, Plan(u, snap).type = "price"
  PROVE  LET stepped == StepLimited(snap.price, DesiredPrice(u, snap), u.step)
         IN  /\ Plan(u, snap).value = Larger(stepped, Floor(u, snap))
             /\ ~(u.max > 0 /\ Plan(u, snap).value > u.max)
             /\ DesiredPrice(u, snap) # None
BY DEF Plan, NoChange

\* The desired price is not below the floor, rounding aside.
LEMMA DesiredAboveFloor ==
  ASSUME NEW u \in RuleType, NEW snap \in Snapshot, DesiredPrice(u, snap) # None
  PROVE  Floor(u, snap) <= DesiredPrice(u, snap) + 50
<1> DEFINE floor == Floor(u, snap)
           lifted == Larger(AskedPrice(u, snap), floor)
           bounded == IF u.max > 0 THEN Smaller(lifted, u.max) ELSE lifted
<1>1. floor \in Nat /\ AskedPrice(u, snap) \in Int /\ u.max \in Nat
  BY FloorIsPrice, AskedIsNumber DEF RuleType
<1>2. /\ DesiredPrice(u, snap) = RoundRouble(bounded)
      /\ ~(u.max > 0 /\ lifted > u.max /\ u.max < floor)
  BY DEF DesiredPrice
<1>3. bounded \in Int /\ bounded >= floor
  BY <1>1, <1>2 DEF Larger, Smaller
<1> HIDE DEF bounded, floor
<1>4. RoundRouble(bounded) \in Int /\ bounded <= RoundRouble(bounded) + 50
  BY <1>3, RoundingIsClose
<1>5. floor <= RoundRouble(bounded) + 50
  BY <1>1, <1>3, <1>4
<1>. QED BY <1>2, <1>5 DEF floor

-----------------------------------------------------------------------------
\* A planned price is within the rule's bounds and not below break-even, although the step
\* limit comes after the clamp; from a price that is not below the floor it goes at most
\* max_step_pct, half a rouble aside; and it goes towards what the rule desires and not
\* past it (_plan lines 410-440).
THEOREM PlannedPriceIsSound ==
  ASSUME NEW u \in RuleType, NEW snap \in Snapshot, Plan(u, snap).type = "price"
  PROVE  /\ Plan(u, snap).value >= Floor(u, snap)
         /\ u.max > 0 => Plan(u, snap).value <= u.max
         /\ snap.price >= Floor(u, snap) =>
              100 * Distance(Plan(u, snap).value, snap.price) <= u.step * snap.price + 5000
         /\ Plan(u, snap).value >= Smaller(snap.price, DesiredPrice(u, snap)) - 50
         /\ Plan(u, snap).value <= Larger(snap.price, DesiredPrice(u, snap)) + 50
<1>1. /\ snap.price \in Nat /\ u.step \in Nat /\ u.max \in Nat
      /\ DesiredPrice(u, snap) \in Int /\ Floor(u, snap) \in Nat
  BY DesiredIsNumber, FloorIsPrice DEF RuleType, Snapshot
<1>2. Plan(u, snap).value
        = Larger(StepLimited(snap.price, DesiredPrice(u, snap), u.step), Floor(u, snap))
  BY PlannedPrice
<1>3. ~(u.max > 0 /\ Plan(u, snap).value > u.max) /\ DesiredPrice(u, snap) # None
  BY PlannedPrice
<1>4. Floor(u, snap) <= DesiredPrice(u, snap) + 50
  BY <1>3, DesiredAboveFloor
<1>5. /\ Plan(u, snap).value \in Int /\ Plan(u, snap).value >= Floor(u, snap)
      /\ snap.price >= Floor(u, snap) =>
           100 * Distance(Plan(u, snap).value, snap.price) <= u.step * snap.price + 5000
      /\ Plan(u, snap).value >= Smaller(snap.price, DesiredPrice(u, snap)) - 50
      /\ Plan(u, snap).value <= Larger(snap.price, DesiredPrice(u, snap)) + 50
  <2>1. PICK c \in Nat, p \in Nat, d \in Int, f \in Nat :
          c = snap.price /\ p = u.step /\ d = DesiredPrice(u, snap) /\ f = Floor(u, snap)
    BY <1>1
  <2> DEFINE s == StepLimited(c, d, p)
             share == p * c
             v == Larger(s, f)
  <2>2. Plan(u, snap).value = v /\ f <= d + 50
    BY <1>2, <1>4, <2>1
  <2>3. /\ s \in Int /\ share \in Nat
        /\ 100 * Distance(s, c) <= share + 5000
        /\ s >= Smaller(c, d) - 50 /\ s <= Larger(c, d) + 50
    BY StepIsShort
  <2> HIDE DEF s, share
  <2>4. v \in Int /\ v >= f
    BY <2>3 DEF Larger
  <2>5. c >= f => 100 * Distance(v, c) <= share + 5000
    BY <2>3 DEF Larger, Smaller, Distance
  <2>6. v >= Smaller(c, d) - 50 /\ v <= Larger(c, d) + 50
    BY <2>2, <2>3 DEF Larger, Smaller
  <2> HIDE DEF v
  <2>. QED BY <2>1, <2>2, <2>4, <2>5, <2>6 DEF share
<1>. QED BY <1>1, <1>3, <1>5

-----------------------------------------------------------------------------
(* Run after run *)

\* The list price of WB gives back the seller price, but for its rounding.
LEMMA ListPriceIsClose ==
  ASSUME NEW v \in Nat, NEW own \in 0..99
  PROVE  LET p == (WbListPrice(v, own) * (100 - own)) \div 100
         IN  p \in Nat /\ p >= v - 51 /\ p <= v + 50
<1> DEFINE d == 100 - own
           q == (v * 100) \div d
           l == RoundRouble(q)
           m == l * d
<1>1. d \in 1..100
  OBVIOUS
<1>2. WbListPrice(v, own) = l
  BY DEF WbListPrice, Larger, Smaller
<1>3. q \in Nat /\ q * d <= v * 100 /\ v * 100 < q * d + d
  <2> HIDE DEF d
  <2>. QED BY <1>1
<1> HIDE DEF q
<1>4. l \in Nat /\ l <= q + 50 /\ q <= l + 50
  BY <1>3, RoundingIsClose DEF RoundRouble
<1> HIDE DEF l, d
<1>5. m \in Nat /\ m <= q * d + 50 * d /\ q * d <= m + 50 * d
  <2>1. l * d <= (q + 50) * d /\ q * d <= (l + 50) * d /\ l * d \in Nat
    BY <1>1, <1>3, <1>4
  <2>. QED BY <1>1, <1>3, <1>4, <2>1
<1> HIDE DEF m
<1>6. m <= 100 * v + 5000 /\ 100 * v < m + 5100
  BY <1>1, <1>3, <1>5
<1>7. m \div 100 \in Nat /\ m \div 100 <= v + 50 /\ m \div 100 >= v - 51
  BY <1>5, <1>6
<1>. QED BY <1>2, <1>7 DEF m, d

\* The snapshot of a card that has a price is one that _plan is made for.
LEMMA SnapIsSnapshot ==
  ASSUME TypeOK, price > 0
  PROVE  Snap \in Snapshot /\ rule \in RuleType
<1>1. card \in CardType /\ rule \in RuleType
  BY PriceAssumption DEF TypeOK
<1>2. Color(price) \in {"none", "GREEN", "YELLOW", "RED"}
  BY DEF Color
<1>. QED BY <1>1, <1>2 DEF TypeOK, Snap, Snapshot, CardType

LEMMA DistanceIsBetween ==
  ASSUME NEW a \in Int, NEW b \in Int
  PROVE  /\ Distance(a, b) \in Nat /\ Distance(a, b) \in {a - b, b - a}
         /\ a - b <= Distance(a, b) /\ b - a <= Distance(a, b)
BY DEF Distance, Larger, Smaller

\* What the marketplace makes of a change, within the bounds of PlannedPriceIsSound and the
\* rounding of a list price.
LEMMA EvaluateMoves ==
  ASSUME TypeOK, Evaluate
  PROVE  /\ TypeOK'
         /\ price' # price =>
              /\ price' >= Smaller(price, Desired) - 101 /\ price' <= Larger(price, Desired) + 101
              /\ price' >= Floor(rule, Snap) - 51
              /\ rule.max > 0 => price' <= rule.max + 51
         /\ price >= Floor(rule, Snap) =>
              100 * Distance(price', price) <= rule.step * price + 10100
<1> DEFINE change == Plan(rule, Snap)
<1>1. /\ rule \in RuleType /\ Snap \in Snapshot /\ Snap.price = price /\ card.own \in 0..99
      /\ price \in Nat
  BY SnapIsSnapshot, PriceAssumption DEF Evaluate, TypeOK, Snap, CardType
<1>2. /\ Desired \in Int /\ Floor(rule, Snap) \in Nat /\ rule.max \in Nat
      /\ rule.step * price \in Nat
  BY <1>1, DesiredIsNumber, FloorIsPrice DEF Desired, RuleType
<1>3. change.type \in {"price", "price_limit"}
  BY DEF Evaluate, Plan, NoChange
<1>4. /\ price' = PriceSet(change) /\ recorded' = recorded \cup {change}
      /\ limit' = IF rule.mp = "ozon" THEN change.value ELSE limit
      /\ UNCHANGED <<rule, card>>
  BY DEF Evaluate
<1>5. CASE change.type = "price_limit"
  <2>1. rule.mp = "ozon" /\ change.value = price
    BY <1>1, <1>5 DEF Plan, NoChange
  <2>2. price' = price /\ limit' = price
    BY <1>4, <2>1 DEF PriceSet
  <2>3. Distance(price', price) = 0
    BY <1>1, <2>2 DEF Distance, Larger, Smaller
  <2>4. TypeOK'
    BY <1>1, <1>4, <1>5, <2>1, <2>2 DEF TypeOK
  <2>. QED BY <1>2, <2>2, <2>3, <2>4
<1>6. CASE change.type = "price"
  <2> DEFINE v == change.value
             desired == Desired
             floor == Floor(rule, Snap)
             share == rule.step * price
  <2>1. /\ v \in Int /\ v >= floor
        /\ rule.max > 0 => v <= rule.max
        /\ price >= floor => 100 * Distance(v, price) <= share + 5000
        /\ v >= Smaller(price, desired) - 50 /\ v <= Larger(price, desired) + 50
    <3>1. Plan(rule, Snap).value \in Int
      <4>1. Snap.price \in Nat /\ DesiredPrice(rule, Snap) \in Int /\ rule.step \in Nat
        BY <1>1, <1>2 DEF Desired, RuleType
      <4>2. StepLimited(Snap.price, DesiredPrice(rule, Snap), rule.step) \in Int
        BY <4>1, StepIsShort
      <4>. QED BY <1>1, <1>2, <1>6, <4>2, PlannedPrice DEF Larger
    <3>. QED BY <1>1, <1>6, <3>1, PlannedPriceIsSound DEF Desired
  <2> HIDE DEF v, desired, floor, share
  <2>2. desired \in Int /\ floor \in Nat /\ share \in Nat /\ v \in Nat
    BY <1>2, <2>1 DEF desired, floor, share
  <2>3. price' \in Nat /\ price' >= v - 51 /\ price' <= v + 50
    <3>1. CASE rule.mp = "wb"
      <4>1. price' = (WbListPrice(v, card.own) * (100 - card.own)) \div 100
        BY <1>4, <3>1 DEF PriceSet, v
      <4>. QED BY <1>1, <2>2, <4>1, ListPriceIsClose
    <3>2. CASE rule.mp # "wb"
      <4>1. price' = v
        BY <1>4, <3>2 DEF PriceSet, v
      <4>. QED BY <2>2, <4>1
    <3>. QED BY <3>1, <3>2
  <2>4. /\ price' >= Smaller(price, desired) - 101 /\ price' <= Larger(price, desired) + 101
        /\ price' >= floor - 51
        /\ rule.max > 0 => price' <= rule.max + 51
    BY <1>1, <1>2, <2>1, <2>2, <2>3 DEF Smaller, Larger
  <2>5. price >= floor => 100 * Distance(price', price) <= share + 10100
    <3> DEFINE n == price'
    <3>0. price \in Int /\ v \in Int /\ n \in Int
      BY <1>1, <2>2, <2>3
    <3> HIDE DEF n
    <3>1. /\ Distance(n, price) \in Nat /\ Distance(v, price) \in Nat
          /\ Distance(n, price) \in {n - price, price - n}
          /\ v - price <= Distance(v, price) /\ price - v <= Distance(v, price)
      BY <3>0, DistanceIsBetween
    <3>2. Distance(price', price) <= Distance(v, price) + 51
      BY <1>1, <2>2, <2>3, <3>1 DEF n
    <3>. QED BY <2>1, <2>2, <3>1, <3>2 DEF n
  <2>6. TypeOK'
    BY <1>1, <1>4, <1>6, <2>2, <2>3 DEF TypeOK, v
  <2>. QED BY <2>4, <2>5, <2>6 DEF desired, floor, share
<1>. QED BY <1>3, <1>5, <1>6

\* The price and the record are of their types, whatever the rules and the cards.
THEOREM LoopTyped == Spec => []TypeOK
<1>1. Init => TypeOK
  <2> SUFFICES ASSUME Init PROVE TypeOK
    OBVIOUS
  <2>1. price \in Nat \ {0}
    BY PriceAssumption DEF Init
  <2>2. price \div 2 \in Nat
    BY <2>1
  <2>. QED BY <2>1, <2>2 DEF Init, TypeOK
<1>2. TypeOK /\ [Next]_vars => TypeOK'
  <2>1. TypeOK /\ NextDay => TypeOK'
    BY DEF NextDay, TypeOK
  <2>2. TypeOK /\ UNCHANGED vars => TypeOK'
    BY DEF vars, TypeOK
  <2>. QED BY <2>1, <2>2, EvaluateMoves DEF Next
<1>. QED BY <1>1, <1>2, PTL DEF Spec

\* A change moves the price towards what the rule asked for and not past it, roundings aside,
\* whatever the rule, the card and the day's earlier changes (_plan, step_limited).
THEOREM LoopNeverOvershoots == Spec => NoOvershoot
<1>1. TypeOK /\ [Next]_vars =>
        [price' # price => /\ price' >= Smaller(price, Desired) - 101
                           /\ price' <= Larger(price, Desired) + 101]_vars
  BY EvaluateMoves DEF Next, NextDay
<1>. QED BY <1>1, LoopTyped, PTL DEF Spec, NoOvershoot

\* No change leaves the bounds of the rule, sells below the break-even price or goes further
\* than max_step_pct of the current price, unless it raises the price to the floor.
THEOREM LoopStaysInBounds == Spec => StepsWithinBounds
<1>1. TypeOK /\ [Next]_vars =>
        [price' # price => /\ price' >= Floor(rule, Snap) - 51
                           /\ rule.max > 0 => price' <= rule.max + 51]_vars
  BY EvaluateMoves DEF Next, NextDay
<1>2. TypeOK /\ [Next]_vars =>
        [price >= Floor(rule, Snap) =>
           100 * Distance(price', price) <= rule.step * price + 10100]_vars
  <2> SUFFICES ASSUME TypeOK, Next, price >= Floor(rule, Snap)
               PROVE  100 * Distance(price', price) <= rule.step * price + 10100
    OBVIOUS
  <2>1. CASE NextDay
    <3>1. rule.step \in Nat /\ price \in Nat /\ price' = price
      BY <2>1, PriceAssumption DEF NextDay, TypeOK, RuleType
    <3>2. rule.step * price \in Nat /\ Distance(price', price) = 0
      BY <3>1 DEF Distance, Larger, Smaller
    <3>. QED BY <3>2
  <2>. QED BY <2>1, EvaluateMoves DEF Next
<1>. QED BY <1>1, <1>2, LoopTyped, PTL DEF Spec, StepsWithinBounds, BoundsKept, StepKept
=============================================================================

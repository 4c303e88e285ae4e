----------------------------- MODULE MCPriceLoop -----------------------------
(* Rules and cards for PriceLoop, in kopecks: every marketplace and mode, with *)
(* and without bounds, a cost, a usable discount, and a price elsewhere.       *)
EXTENDS PriceLoop

Rule(mp, m, t, lo, hi, s, f) ==
  [mp |-> mp, mode |-> m, target |-> t, min |-> lo, max |-> hi, margin |-> 25,
   step |-> s, fallback |-> f, dry |-> FALSE]

MCRules ==
  {Rule(mp, m, 40000, lo, hi, 10, f) :
     mp \in {"wb", "ozon", "ym"}, m \in {"buyer_price", "seller_price", "margin"},
     lo \in {0, 35040}, hi \in {0, 60000}, f \in {"", "seller_price"}}

Card(d, scope, n, cost, elsewhere) ==
  [discount |-> d, scope |-> scope, samples |-> n, breakeven |-> cost, own |-> 30,
   elsewhere |-> elsewhere]

\* A discount that is unknown, known, so high that it is not believed, and known of the
\* account only; with and without a cost; the price elsewhere is unknown, or so high that the
\* index stays GREEN.
MCCards ==
  {Card(None, "", 0, None, None), Card(20, "product", 3, 33370, None),
   Card(56, "product", 1, 33370, 200000), Card(25, "account", 10, None, 200000)}
MCPrices == {25000, 40100, 57990}

\* A price that is left far above the maximum of its rule.
CappedRules == {Rule("wb", "seller_price", 40000, 0, 50000, 10, "")}
CappedCards == {Card(None, "", 0, 20000, None)}
CappedPrices == {60000}
=============================================================================

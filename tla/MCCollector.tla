----------------------------- MODULE MCCollector -----------------------------
(* The lookbacks of the collectors: none at Wildberries (collect_incremental)  *)
(* and for Ozon postings, at Yandex Market the two days of _order_stats, one   *)
(* step of time here.  Its _orders starts on the day of the watermark without  *)
(* going further back: it is the style with neither lookback nor delay.        *)
(* Wildberries stamps a change when its statistics show it, Yandex Market      *)
(* shows one late.                                                             *)
EXTENDS Collector, TLC

MCLookback == [s \in Styles |-> IF s = "ym" THEN 1 ELSE 0]
MCDelay == [s \in Styles |-> IF s = "ym" THEN 1 ELSE 0]
Symmetry == Permutations(Runs) \cup Permutations(Objects)
=============================================================================

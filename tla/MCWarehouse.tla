----------------------------- MODULE MCWarehouse -----------------------------
(* What is kept for good, side by side in one run: the raw table of a         *)
(* collection whose runs overlap, the history, the archive of raw rows, the   *)
(* rules of users and the tasks they are given, and the schema.  `part` is    *)
(* the one that moves.                                                        *)
EXTENDS MCCollector, HistoryStore, RawArchive, Migrations, Rules, Insights

\* Stock for ten days, and for a little less.
MCInTrigger == [s \in InSubjects |-> "turnover"]
MCInFacts == {[sold |-> 14, stock |-> n, class |-> "C", cost |-> 5, orders |-> 0] : n \in {9, 10}}

VARIABLE part
allVars == <<part, vars, histVars, rawVars, mgVars, rlVars, inVars>>

AllInit ==
  /\ part \in {"collect", "history", "raw", "migrations", "rules", "insights"}
  /\ Init /\ HistInit /\ RawInit /\ MgInit /\ RlInit /\ InInit
  /\ part = "raw" \/ rawEnabled
  /\ part = "rules" \/ rlKind = "bid"

Only(p) ==
  /\ part = p /\ UNCHANGED part
  /\ IF p = "collect" THEN TRUE ELSE UNCHANGED vars
  /\ IF p = "history" THEN TRUE ELSE UNCHANGED histVars
  /\ IF p = "raw" THEN TRUE ELSE UNCHANGED rawVars
  /\ IF p = "migrations" THEN TRUE ELSE UNCHANGED mgVars
  /\ IF p = "rules" THEN TRUE ELSE UNCHANGED rlVars
  /\ IF p = "insights" THEN TRUE ELSE UNCHANGED inVars

AllNext ==
  \/ Only("collect") /\ Next
  \/ Only("history") /\ HistNext
  \/ Only("raw") /\ RawNext
  \/ Only("migrations") /\ MgNext
  \/ Only("rules") /\ RlNext
  \/ Only("insights") /\ InNext

AllSpec == AllInit /\ [][AllNext]_allVars

\* Two cards of a product page that differ in the order of a list only.
MCMeaning == [x \in HistCards |-> CHOOSE y \in HistCards : TRUE]

\* Runs and objects are told apart by nothing but what they hold.  Calls of record,
\* requests, rules and tasks are alike too: the run gives them the same names, for one part moves
\* and the others rest.
MCAlike == {p @@ q : p \in Permutations(Runs), q \in Permutations(Objects)}
=============================================================================

------------------------------ MODULE MCBackend ------------------------------
(* The price a rule acts on, sessions, replies to reviews, the economics of an *)
(* article and the data it is worked out from, side by side in one run: `part` *)
(* is the one that moves.                                                     *)
EXTENDS PriceSnapshot, Sessions, Reviews, Accruals, Buyouts, DailyTasks, Users, Pnl, StockPush, TLC

CONSTANTS oz, wb, ym
MCPnMarket == [a \in PnAccounts |-> CASE a = oz -> "ozon" [] a = wb -> "wb" [] a = ym -> "ym"]

\* Days with nothing, with a sale and its return; with financing, with a buyout abroad, without
\* a balance yet, without a report.
PnQuiet == [revenue |-> 0, accrued |-> 0, lent |-> 0, paid |-> 0, netted |-> 0, cogs |-> 0,
            buyer |-> 0, receipts |-> 0, cis |-> 0, filed |-> FALSE, balance |-> TRUE,
            reported |-> FALSE]
PnSale == [PnQuiet EXCEPT !.filed = TRUE, !.revenue = 50, !.accrued = 31, !.paid = 7, !.netted = 3, !.cogs = 20,
             !.buyer = 44, !.reported = TRUE]
PnOzonDays == {[PnSale EXCEPT !.lent = 5], [PnSale EXCEPT !.receipts = 9, !.cis = 4],
               [PnQuiet EXCEPT !.balance = FALSE],
               [PnQuiet EXCEPT !.filed = TRUE, !.revenue = -50, !.buyer = -44, !.accrued = -31]}
PnWbDays == {PnSale, [PnSale EXCEPT !.reported = FALSE]}
PnYmDays == {PnSale, PnQuiet}
MCPnFacts == [a \in PnAccounts |->
   CASE a = oz -> PnOzonDays [] a = wb -> PnWbDays [] a = ym -> PnYmDays]
MCPnWorlds ==
  {[a \in PnAccounts |-> CASE a = oz -> f [] a = wb -> g [] a = ym -> h] :
     f \in [PnMonthDays -> PnOzonDays], g \in [PnMonthDays -> PnWbDays], h \in [PnMonthDays -> PnYmDays]}
MCPnQuietMonth ==
  [a \in PnAccounts |-> [d \in PnMonthDays |->
     IF a = oz THEN [PnQuiet EXCEPT !.balance = FALSE] ELSE IF a = wb THEN PnSale ELSE PnQuiet]]

\* The runs of the replies, the requests for sessions and for users, and the processes are alike.
MCAlike == Permutations(SsThreads)

\* The collectors by the day do not touch each other: in a behaviour one source is read.
OneSource ==
  \E s \in WtSources : \A r \in WtSources \ {s} :
    wtRun'[r] = WtIdle /\ wtKept'[r] = [d \in WtDays |-> 0]

VARIABLE part
allVars == <<part, snapVars, ssVars, rvVars, acVars, cbVars, wtVars, usVars, pnVars, spVars>>

AllInit ==
  /\ part \in {"snapshot", "sessions", "reviews", "accruals", "buyouts", "daily", "users", "pnl",
               "expenses", "stocks"}
  /\ SnapInit /\ (part = "snapshot" \/ (price = goal /\ price = 0 /\ perils = {}))
  /\ SsInit /\ RvInit /\ CbInit /\ WtInit
  /\ AcInit /\ (part = "accruals" \/ acMarket = "ozon")
  /\ SpInit /\ (part = "stocks" \/ spYm = "off")
  /\ UsInit /\ (part = "users" \/ (usRow.user.hash = "scrypt" /\ usRow.user.expires = UsNever))
  /\ PnInit /\ (part = "pnl" \/ pnDays = MCPnQuietMonth)

Only(p) ==
  /\ part = p /\ UNCHANGED part
  /\ IF p = "snapshot" THEN TRUE ELSE UNCHANGED snapVars
  /\ IF p = "sessions" THEN TRUE ELSE UNCHANGED ssVars
  /\ IF p = "reviews" THEN TRUE ELSE UNCHANGED rvVars
  /\ IF p = "accruals" THEN TRUE ELSE UNCHANGED acVars
  /\ IF p = "buyouts" THEN TRUE ELSE UNCHANGED cbVars
  /\ IF p = "daily" THEN TRUE ELSE UNCHANGED wtVars
  /\ IF p = "users" THEN TRUE ELSE UNCHANGED usVars
  /\ IF p \in {"pnl", "expenses"} THEN TRUE ELSE UNCHANGED pnVars
  /\ IF p = "stocks" THEN TRUE ELSE UNCHANGED spVars

AllNext ==
  \/ Only("snapshot") /\ SnapNext
  \/ Only("sessions") /\ SsNext
  \/ Only("reviews") /\ RvNext
  \/ Only("accruals") /\ AcNext
  \/ Only("buyouts") /\ CbNext
  \/ Only("daily") /\ WtNext /\ OneSource
  \/ Only("users") /\ UsNext
  \/ Only("pnl") /\ PnDataNext
  \/ Only("expenses") /\ PnNext
  \/ Only("stocks") /\ SpNext

AllSpec == AllInit /\ [][AllNext]_allVars

-----------------------------------------------------------------------------
\* What is answered is so: the report of articles adds up, the buyouts it takes in are counted
\* once, and stocks said to be taken are; each of the part that moves, the others stay as they are
\* at first.
AnswersTrue ==
  /\ part = "accruals" => ReportSound
  /\ part = "buyouts" => BuyoutsSound
  /\ part = "stocks" => PushesSound
=============================================================================

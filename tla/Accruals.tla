------------------------------ MODULE Accruals ------------------------------
(***************************************************************************)
(* The accumulator of article economics (common/article_economics.py,      *)
(* AccrualEconomics) in the order in which the service of the article      *)
(* report drives it (article_economics_service.py): for Ozon the accruals, *)
(* then the buyouts of the EAEU report, allocate, the ad costs; for        *)
(* Wildberries the rows of the realization report, then, as for Yandex     *)
(* Market from the start, the sales of the days without one, the           *)
(* difference to the finance mart, allocate, the ads.  At last the rows    *)
(* take their taxes and the expenses of the organization.                  *)
(*                                                                         *)
(* Money is a small integer, every sale is of one piece.  Of the twelve    *)
(* expense columns two are told apart: marketing, which the ad costs move  *)
(* between rows, and all others together.  A query that fails reads as one *)
(* without rows.  The costs of the articles, the letters of the ABC        *)
(* analysis and the shares in percent are left out.                        *)
(***************************************************************************)
EXTENDS Money

CONSTANTS
  AcSkus,        \* articles
  AcUnits,       \* posting numbers, which are also the campaigns of an ad charge
  AcPrices,      \* what an article is sold for; a return has the price negated
  AcFees,        \* the amounts of charges and payments, 0 among them
  AcUnallocated, \* the row of what belongs to no article
  MaxAcRows,     \* bound: rows read from the first feed
  MaxAcLater,    \* bound: rows read from the buyout report
  MaxAcAds,      \* bound: rows read from the ad report
  MaxAcSales,    \* bound: sales read, and rows of the report of WB with them
  AcTaxes,       \* the taxes of the period, and its expenses
  WbPaysAtMost   \* a WB row never pays the seller more than its price

ASSUME AcAssumption ==
  /\ AcPrices \subseteq Nat \ {0} /\ 0 \in AcFees /\ AcFees \subseteq Nat
  /\ AcUnallocated \notin AcSkus /\ IsFiniteSet(AcSkus) /\ IsFiniteSet(AcUnits)
  /\ MaxAcSales \in Nat /\ MaxAcAds \in Nat /\ AcTaxes \subseteq Nat
  /\ MaxAcRows \in Nat /\ MaxAcLater \in Nat /\ WbPaysAtMost \in BOOLEAN

VARIABLES
  acMarket,   \* whose engine it is; each marketplace has one of its own
  acPhase,    \* where the service is in the report
  acRead,     \* rows read of the current feed
  acRows,     \* self.rows: the columns of each article
  acNamed,    \* the keys of self.rows, which appear when they are first written to
  acPool,     \* self.pool: expenses without an article, until allocate
  acRaw,      \* self.raw_total
  acDomestic, \* self.domestic_sales: <<posting, sku>> to what was sold there
  acSeen,     \* self.seen_buyouts
  acCharges,  \* self.campaign_charges: the campaigns that were charged
  acSpare,    \* allocated_by_mp: what the report says belongs to no article
  acLinked,   \* linked_ads_by_mp: what the report says of the ads was given to articles
  acSheet     \* tax and expenses, all and of each row, once the report is put together
acFeed == <<acMarket, acPhase, acRead>>
acSums == <<acRows, acNamed, acPool, acRaw>>
acKeys == <<acDomestic, acSeen, acCharges>>
acEnds == <<acSpare, acLinked, acSheet>>
acVars == <<acFeed, acSums, acKeys, acEnds>>

AcColumns == {"sold", "returned", "cis", "revenue", "rf", "abroad",
              "commission", "marketing", "costs"}
AcRowNames == AcSkus \cup {AcUnallocated}
AcEmpty == [c \in AcColumns |-> 0]
AcNothing == [x \in {} |-> 0]

AcInit ==
  /\ acMarket \in {"ozon", "wb", "ym"} /\ acPhase = "accruals" /\ acRead = 0
  /\ acRows = [s \in AcRowNames |-> AcEmpty] /\ acNamed = {}
  /\ acPool = [marketing |-> 0, costs |-> 0] /\ acRaw = 0
  /\ acDomestic = AcNothing /\ acSeen = AcNothing /\ acCharges = {}
  /\ acSpare = [marketing |-> 0, costs |-> 0] /\ acLinked = 0 /\ acSheet = AcNothing

\* The amounts of `by` added to the columns of an article.
AcAdd(rows, s, by) == [rows EXCEPT ![s] = [c \in AcColumns |->
                        @[c] + (IF c \in DOMAIN by THEN by[c] ELSE 0)]]
AcPlus(s, by) ==
  /\ acRows' = AcAdd(acRows, s, by)
  /\ acNamed' = acNamed \cup {s}

AcPut(f, k, v) == [x \in DOMAIN f \cup {k} |-> IF x = k THEN v ELSE f[x]]
AcReads(phase, most) ==
  /\ acPhase = phase /\ acRead < most
  /\ acRead' = acRead + 1 /\ UNCHANGED <<acMarket, acEnds>>

-----------------------------------------------------------------------------
\* add(): a posting of one article.  Its sale and its commission, the services
\* of its delivery, and whatever of its total none of them explains.
AddPosting(s, u, sale, commission, services, rest) ==
  LET n == IF sale > 0 THEN 1 ELSE IF sale < 0 THEN -1 ELSE 0
      fee == IF sale = 0 THEN 0 ELSE commission
      old == IF <<u, s>> \in DOMAIN acDomestic THEN acDomestic[<<u, s>>]
             ELSE [n |-> 0, gross |-> 0, deduction |-> 0]
  IN /\ acMarket = "ozon" /\ AcReads("accruals", MaxAcRows) /\ UNCHANGED acPhase
     /\ AcPlus(s, [sold |-> MnMax0(n), returned |-> n - MnMax0(n), revenue |-> sale, rf |-> sale,
                   commission |-> -fee, costs |-> -services])
     /\ acPool' = [acPool EXCEPT !.costs = @ - rest]
     /\ acRaw' = acRaw + sale + fee + services + rest
     /\ acDomestic' = IF sale > 0
                      THEN AcPut(acDomestic, <<u, s>>,
                             [n |-> old.n + 1, gross |-> old.gross + sale,
                              deduction |-> old.deduction - commission])
                      ELSE acDomestic
     /\ UNCHANGED <<acSeen, acCharges>>

\* add(): a fee without an article; one for an ad campaign is kept by its name.
AddFee(u, isAd, amount) ==
  /\ acMarket = "ozon" /\ AcReads("accruals", MaxAcRows) /\ UNCHANGED acPhase
  /\ acPool' = IF isAd THEN [acPool EXCEPT !.marketing = @ - amount]
               ELSE [acPool EXCEPT !.costs = @ - amount]
  /\ acRaw' = acRaw + amount
  /\ acCharges' = IF isAd THEN acCharges \cup {u} ELSE acCharges
  /\ UNCHANGED <<acRows, acNamed, acDomestic, acSeen>>

\* Yandex Market has no first feed.
FirstFeedRead ==
  /\ acPhase = "accruals" /\ acPhase' = "second"
  /\ acRead' = IF acMarket = "ozon" THEN 0 ELSE acRead
  /\ UNCHANGED <<acMarket, acSums, acKeys, acEnds>>

AcSoldHere(key) == key \in DOMAIN acDomestic

\* What moves with a sale that turns out to be a buyout.
AcAbroad(sold) == [sold |-> -sold.n, cis |-> sold.n, rf |-> -sold.gross, abroad |-> sold.gross]

\* add_buyouts(): a row already seen is skipped, one that contradicts it is an
\* error; what was sold as a domestic sale moves, and the rest is new.
AddBuyout(u, s, gross, receipt) ==
  LET key == <<u, s>>
      record == [gross |-> gross, receipt |-> receipt]
      again == key \in DOMAIN acSeen
  IN /\ acMarket = "ozon" /\ AcReads("second", MaxAcLater)
     /\ acSeen' = IF again THEN acSeen ELSE AcPut(acSeen, key, record)
     /\ acPhase' = IF again /\ acSeen[key] # record THEN "conflict" ELSE acPhase
     /\ \/ again /\ UNCHANGED <<acRows, acNamed, acRaw>>
        \/ /\ ~again /\ AcSoldHere(key)
           /\ AcPlus(s, AcAbroad(acDomestic[key]))
           /\ UNCHANGED acRaw
        \/ /\ ~again /\ ~AcSoldHere(key)
           /\ AcPlus(s, [cis |-> 1, revenue |-> gross, abroad |-> gross,
                         commission |-> gross - receipt])
           /\ acRaw' = acRaw + receipt
     /\ UNCHANGED <<acPool, acDomestic, acCharges>>

-----------------------------------------------------------------------------
\* add_wb_realization_row(): a sale or a return with what WB pays for it, and
\* the expenses and payments of the row.
WbSale(s, price, pay) ==
  /\ WbPaysAtMost => pay <= price
  /\ AcPlus(s, [sold |-> 1, revenue |-> price, rf |-> price, commission |-> MnMax0(price - pay)])
  /\ acRaw' = acRaw + pay
WbReturn(s, price, pay) ==
  /\ WbPaysAtMost => pay <= price
  /\ AcPlus(s, [returned |-> -1, revenue |-> -price, rf |-> -price,
                commission |-> -MnMax0(price - pay)])
  /\ acRaw' = acRaw - pay
WbCharge(s, fee, paid) ==
  /\ AcPlus(s, [costs |-> fee - paid])
  /\ acRaw' = acRaw - fee + paid
AddWbRow ==
  /\ acMarket = "wb" /\ AcReads("accruals", MaxAcRows) /\ UNCHANGED acPhase
  /\ \E s \in AcRowNames :
        \/ \E price, pay \in AcPrices : WbSale(s, price, pay) \/ WbReturn(s, price, pay)
        \/ \E fee, paid \in AcFees : WbCharge(s, fee, paid)
  /\ UNCHANGED <<acPool, acKeys>>

\* add_standardized_sale(): a day's sales or returns of an article, with the commission and the
\* costs that its price today stands for.
AddStandardSale(s, sale, commission, costs) ==
  /\ acMarket # "ozon" /\ AcReads("second", MaxAcSales) /\ UNCHANGED acPhase
  /\ AcPlus(s, [sold |-> IF sale > 0 THEN 1 ELSE 0, returned |-> IF sale > 0 THEN 0 ELSE -1,
                revenue |-> sale, rf |-> sale, commission |-> commission, costs |-> costs])
  /\ acRaw' = acRaw + sale - commission - costs
  /\ UNCHANGED <<acPool, acKeys>>

\* The difference to the finance mart is an accrual of no article.
Reconcile(delta) ==
  /\ acMarket # "ozon" /\ acPhase = "second" /\ acPhase' = "reconciled"
  /\ IF delta # 0 THEN AcPlus(AcUnallocated, [costs |-> -delta]) ELSE UNCHANGED <<acRows, acNamed>>
  /\ acRaw' = acRaw + delta
  /\ UNCHANGED <<acMarket, acRead, acPool, acKeys, acEnds>>

-----------------------------------------------------------------------------
AcNetOf(rows) == SumOver([s \in AcRowNames |-> rows[s].revenue - rows[s].commission
                            - rows[s].marketing - rows[s].costs], AcRowNames)
AcNet == AcNetOf(acRows) - acPool.marketing - acPool.costs

\* allocate(): the pool goes to the row of no article; the report is refused
\* unless the rows then add up to what the marketplace paid.
Allocate ==
  /\ acPhase = IF acMarket = "ozon" THEN "second" ELSE "reconciled"
  /\ acRows' = AcAdd(acRows, AcUnallocated, acPool)
  /\ acNamed' = IF acPool.marketing # 0 \/ acPool.costs # 0
                THEN acNamed \cup {AcUnallocated} ELSE acNamed
  /\ acPool' = [marketing |-> 0, costs |-> 0] /\ acSpare' = acPool
  /\ acPhase' = IF AcNetOf(acRows') = acRaw THEN "ads" ELSE "failed"
  /\ acRead' = 0
  /\ UNCHANGED <<acMarket, acRaw, acKeys, acLinked, acSheet>>

\* Mutant: what goes to an article stays with no article too.
AcGiven(rows, cost) == rows
AcTaken(rows, cost) == [rows EXCEPT ![AcUnallocated].marketing = @ - cost]

AcAdRow ==
  /\ acPhase = "ads" /\ acRead < MaxAcAds /\ acRead' = acRead + 1
  /\ UNCHANGED <<acMarket, acPhase, acPool, acRaw, acKeys, acSpare, acSheet>>

\* bind_ad_costs(): the cost of a campaign that was charged goes from the row
\* of no article to the article it was spent on.
BindAd(u, s, cost) ==
  /\ acMarket = "ozon" /\ AcAdRow
  /\ u \in acCharges
  /\ acRows' = AcTaken(AcAdd(acRows, s, [marketing |-> cost]), cost)
  /\ acNamed' = acNamed \cup {s, AcUnallocated}
  /\ acLinked' = acLinked + cost

AdsBound ==
  /\ acMarket = "ozon" /\ acPhase = "ads"
  /\ acPhase' = IF AcNetOf(acRows) = acRaw THEN "done" ELSE "failed"
  /\ acSpare' = [acSpare EXCEPT !.marketing = @ - acLinked]
  /\ UNCHANGED <<acMarket, acRead, acSums, acKeys, acLinked, acSheet>>

\* At Wildberries and Yandex Market ads are not among the accruals: their cost per article is
\* added, and of the cost of all ads what is left goes to the row of no article.
LinkAd(s, cost) ==
  /\ acMarket # "ozon" /\ AcAdRow
  /\ AcPlus(s, [marketing |-> cost])
  /\ acLinked' = acLinked + cost

AdsLinked(total) ==
  LET left == MnMax0(total - acLinked)
  IN /\ acMarket # "ozon" /\ acPhase = "ads" /\ acPhase' = "done"
     /\ IF left # 0 THEN AcPlus(AcUnallocated, [marketing |-> left])
        ELSE UNCHANGED <<acRows, acNamed>>
     /\ UNCHANGED <<acMarket, acRead, acPool, acRaw, acKeys, acEnds>>

-----------------------------------------------------------------------------
\* The tax of the days of the period (see Pnl) is shared by what the buyers of each article paid,
\* and belongs to no article when they paid nothing.
AcShares(tax, paid, last) ==
  LET skus == {s \in AcSkus : paid[s] > 0}
  IN IF skus = {} THEN [s \in {AcUnallocated} |-> tax] ELSE MnAllocate(tax, paid, skus, last)

\* The rows that are there take their taxes, and that of no article the expenses.
PutTogether(tax, external, paid, last) ==
  LET taxes == AcShares(tax, paid, last)
  IN /\ acPhase = "done" /\ acPhase' = "told"
     /\ \A s \in AcSkus : paid[s] > 0 => s \in acNamed /\ paid[last] > 0
     /\ acSheet' = [tax |-> tax, external |-> external,
                    taxes |-> [s \in acNamed |-> IF s \in DOMAIN taxes THEN taxes[s] ELSE 0],
                    externals |-> [s \in acNamed |-> IF s = AcUnallocated THEN external ELSE 0]]
     /\ UNCHANGED <<acMarket, acRead, acSums, acKeys, acSpare, acLinked>>

AcSales == AcPrices \cup {-p : p \in AcPrices}

AcNext ==
  \/ \E s \in AcSkus, u \in AcUnits, fee, services, rest \in AcFees, sale \in AcSales \cup {0} :
        AddPosting(s, u, sale, -fee, -services, rest)
  \/ \E u \in AcUnits, isAd \in BOOLEAN, amount \in AcFees : AddFee(u, isAd, amount)
  \/ FirstFeedRead
  \/ \E u \in AcUnits, s \in AcSkus, gross, receipt \in AcPrices :
        AddBuyout(u, s, gross, receipt)
  \/ AddWbRow
  \/ \E s \in AcSkus, sale \in AcSales, fee, costs \in AcFees :
        AddStandardSale(s, sale, IF sale > 0 THEN fee ELSE -fee, costs)
  \/ \E delta \in AcFees \cup {-fee : fee \in AcFees} : Reconcile(delta)
  \/ Allocate
  \/ \E u \in AcUnits, s \in AcSkus, cost \in AcPrices : BindAd(u, s, cost)
  \/ AdsBound
  \/ \E s \in AcSkus, cost \in AcPrices : LinkAd(s, cost)
  \/ \E total \in AcFees : AdsLinked(total)
  \/ \E tax, external \in AcTaxes, paid \in [AcSkus -> AcFees], last \in AcSkus :
        PutTogether(tax, external, paid, last)

AcSpec == AcInit /\ [][AcNext]_acVars

-----------------------------------------------------------------------------
\* Type correctness.
AcTypeOK ==
  /\ acMarket \in {"ozon", "wb", "ym"}
  /\ acPhase \in {"accruals", "second", "reconciled", "ads", "done", "told", "conflict", "failed"}
  /\ acRows \in [AcRowNames -> [AcColumns -> Int]] /\ acNamed \subseteq AcRowNames
  /\ acPool \in [marketing : Int, costs : Int] /\ acRaw \in Int
  /\ DOMAIN acDomestic \subseteq AcUnits \X AcSkus
  /\ DOMAIN acSeen \subseteq AcUnits \X AcSkus
  /\ acCharges \subseteq AcUnits
  /\ acSpare \in [marketing : Int, costs : Int] /\ acLinked \in Int

\* Whatever the feeds hold and however often a posting is in both, the rows and
\* the pool add up to what the marketplace accrued, and neither allocate nor
\* bind_ad_costs refuses the report.  Where the ads are not among the accruals
\* that is so of the rows without them.
AcAdsOf(rows) == SumOver([s \in AcRowNames |-> rows[s].marketing], AcRowNames)
AttributionReconciles ==
  /\ acPhase # "failed"
  /\ acRaw = IF acMarket = "ozon" THEN AcNet ELSE AcNet + AcAdsOf(acRows)

\* A sale is at home or abroad, never both and never neither: the two columns of
\* the report make up the revenue, also after a buyout has moved a sale.
RevenueSplits == \A s \in AcRowNames : acRows[s].revenue = acRows[s].rf + acRows[s].abroad

\* A posting that both feeds report is counted once: a buyout of a domestic sale
\* adds nothing to the revenue, and the article was sold abroad then, not at home.
AcSoldOf(sales, s) ==
  SumOver([k \in DOMAIN sales |-> sales[k].n], {k \in DOMAIN sales : k[2] = s})
BuyoutsCountOnce ==
  acMarket = "ozon" => \A s \in AcSkus :
    acRows[s].sold + acRows[s].cis
      = AcSoldOf(acDomestic, s) + Cardinality({k \in DOMAIN acSeen \ DOMAIN acDomestic : k[2] = s})

\* What the report of Ozon says was given to no article, which it works out beside the rows, is
\* what the row of no article holds.
SpareIsShown ==
  acMarket = "ozon" /\ acPhase \in {"done", "told"} =>
    /\ acRows[AcUnallocated].marketing = acSpare.marketing
    /\ acRows[AcUnallocated].costs = acSpare.costs

\* The rows have the tax of the days of the period and the expenses, to the kopeck; or nothing of
\* them, when there is no row of no article to carry them.
TaxesAreShared ==
  acPhase = "told" =>
    LET taxes == SumOver(acSheet.taxes, acNamed)
        externals == SumOver(acSheet.externals, acNamed)
    IN /\ taxes = acSheet.tax \/ (taxes = 0 /\ AcUnallocated \notin acNamed)
       /\ externals = acSheet.external \/ (externals = 0 /\ AcUnallocated \notin acNamed)

\* The report adds up, overall, column by column and posting by posting.
ReportSound ==
  /\ AcTypeOK /\ AttributionReconciles /\ RevenueSplits
  /\ BuyoutsCountOnce /\ SpareIsShown /\ TaxesAreShared
=============================================================================

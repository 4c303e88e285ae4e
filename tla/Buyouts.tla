------------------------------ MODULE Buyouts -------------------------------
(***************************************************************************)
(* The EAEU buyouts of Ozon: a sale that the buyer's country accounts for. *)
(* The daily task (ozon_cis_buyouts_daily) asks for the last CbWindow days *)
(* and files each row of the answer under a day of its own, or, when the   *)
(* row carries none, under the last day asked for.  The monthly result     *)
(* (cis_adjustments) adds the rows to what was accrued, and the reports    *)
(* read the answers kept with them (parse_buyouts).                        *)
(***************************************************************************)
EXTENDS Integers, FiniteSets

CONSTANTS
  CbPostings, \* postings the marketplace sells abroad
  CbLastDay,  \* bound: days of the model, a month
  CbWindow,   \* days the task asks for
  CbUndated,  \* those of whose rows the answer carries no day
  NoDay

ASSUME CbAssumption ==
  /\ CbLastDay \in Nat \ {0} /\ CbWindow \in Nat \ {0} /\ CbUndated \subseteq CbPostings
  /\ NoDay \notin Int

VARIABLES
  cbToday,    \* the day
  cbBought,   \* the day each posting was bought out, at the marketplace
  cbAccrued,  \* postings in raw_ozon_finance_ops as domestic sales
  cbRaw,      \* raw_ozon_cis_buyouts: <<day, posting>>, the key of the table
  cbAnswered  \* what the article report answered when it was last asked for
cbVars == <<cbToday, cbBought, cbAccrued, cbRaw, cbAnswered>>

CbDays == 1..CbLastDay

CbInit ==
  /\ cbToday = 1
  /\ cbBought = [p \in CbPostings |-> NoDay]
  /\ cbAccrued = {} /\ cbRaw = {} /\ cbAnswered = "nothing"

CbTick == /\ cbToday < CbLastDay /\ cbToday' = cbToday + 1
          /\ UNCHANGED <<cbBought, cbAccrued, cbRaw, cbAnswered>>

CbBuyout(p) == /\ cbBought[p] = NoDay
               /\ cbBought' = [cbBought EXCEPT ![p] = cbToday]
               /\ UNCHANGED <<cbToday, cbAccrued, cbRaw, cbAnswered>>

\* The same sale is, or later becomes, an accrual of the domestic feed.
CbAccrue(p) == /\ cbBought[p] # NoDay
               /\ cbAccrued' = cbAccrued \cup {p}
               /\ UNCHANGED <<cbToday, cbBought, cbRaw, cbAnswered>>

CbFiled(p, to) == IF p \in CbUndated THEN to ELSE cbBought[p]

\* The task of a day, or of the window that ends the day before.
CbCollect(from, to) ==
  /\ cbRaw' = cbRaw \cup {<<CbFiled(p, to), p>> :
                            p \in {q \in CbPostings : cbBought[q] \in from..to}}
  /\ UNCHANGED <<cbToday, cbBought, cbAccrued, cbAnswered>>
CbCollectDaily == CbCollect(cbToday - CbWindow, cbToday - 1)
CbCollectDay(d) == d < cbToday /\ CbCollect(d, d)

-----------------------------------------------------------------------------
\* cis_adjustments(): the rows of the days that no accrual of any time has.
Adjustments(days) ==
  {r \in cbRaw : r[1] \in days /\ r[2] \notin cbAccrued}

\* What an accumulator makes of the answer kept with a row: it holds one product
\* and not the list of products a report of Ozon has.
ParseBuyouts(kept) == IF kept = "product" THEN "error" ELSE "products"

\* The article report: the query for columns the table has not fails and is
\* suppressed, the one for the answers follows.
CbArticleReport(days) ==
  /\ cbAnswered' = IF {r \in cbRaw : r[1] \in days} = {} THEN "answered"
                   ELSE ParseBuyouts("product")
  /\ UNCHANGED <<cbToday, cbBought, cbAccrued, cbRaw>>

CbNext ==
  \/ CbTick
  \/ \E p \in CbPostings : CbBuyout(p) \/ CbAccrue(p)
  \/ CbCollectDaily
  \/ \E d \in CbDays : CbCollectDay(d)
  \/ \E from, to \in CbDays : CbArticleReport(from..to)

CbSpec == CbInit /\ [][CbNext]_cbVars

-----------------------------------------------------------------------------
\* Type correctness.
CbTypeOK ==
  /\ cbToday \in CbDays
  /\ cbBought \in [CbPostings -> CbDays \cup {NoDay}]
  /\ cbAccrued \subseteq CbPostings
  /\ cbRaw \subseteq CbDays \X CbPostings
  /\ cbAnswered \in {"nothing", "answered", "products", "error"}

\* The result of the month has a posting once, and not at all when it is among
\* the accruals, however many of the overlapping windows brought it.  One whose
\* rows carry no day it has once for every day on which such a window ended, and
\* so no more often than a window is long.
CbTimes(p) ==
  IF p \in cbAccrued THEN 0 ELSE IF p \in CbUndated THEN CbWindow ELSE 1

CisCountedOnce ==
  \A p \in CbPostings :
    Cardinality({r \in Adjustments(CbDays) : r[2] = p}) <= CbTimes(p)

\* An article report of days that have buyouts is answered.
ReportReadsBuyouts == cbAnswered # "error"

\* The month counts a buyout once, or as often as it was filed without its day.
BuyoutsSound == CbTypeOK /\ CisCountedOnce
=============================================================================

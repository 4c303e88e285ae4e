-------------------------------- MODULE RawRows --------------------------------
(***************************************************************************)
(* What the parsers of the collectors (wb, ozon and ym parsers.py, the     *)
(* reports of sku_ad_reports.py) make of an answer, and what the raw table *)
(* keeps of it: a ReplacingMergeTree has one row per ORDER BY key, the one *)
(* inserted last.                                                          *)
(*                                                                         *)
(* An entry is what the marketplace has once: a unit sold, a line of a     *)
(* posting, the stock of a size at a warehouse, a fee.  `amount` stands    *)
(* for all its figures; texts, prices' kinds and payloads are left out.    *)
(* An answer has entries at positions, and so have the rows made of it.    *)
(***************************************************************************)
EXTENDS Money

CONSTANTS
  RrTables,          \* the raw tables to look at
  RrAmounts,         \* bound: figures
  RrMost,            \* bound: documents, items, warehouses and days
  MaxRrEntries,      \* bound: entries of the source
  MaxRrEvents        \* bound: changes of an entry, and repeats in an answer

\* The fields in which two entries of a table may differ.
RrFields ==
  [wb_sales |-> {"doc", "item"}, wb_orders |-> {"doc", "item"}, wb_stocks |-> {"item", "place"},
   wb_funnel |-> {"item", "day"}, wb_report |-> {"doc", "day"},
   ozon_items |-> {"doc", "item"}, ozon_stocks |-> {"item", "place"}, ozon_ads |-> {"doc", "day"},
   ozon_sku_ads |-> {"doc", "item", "day"}, ozon_accruals |-> {"doc", "day"},
   ozon_balance |-> {"day"},
   ym_orders |-> {"doc", "item"}, ym_stats |-> {"doc", "item"}, ym_stocks |-> {"item", "place"},
   ym_offers |-> {"item"}, ym_quotes |-> {"item"}, ym_finance |-> {"doc", "day"},
   ym_ads |-> {"doc", "item", "day"}, ym_funnel |-> {"item", "day"}]

\* Tables of which every row is of the moment it was taken at.
RrSnapshots == {"wb_stocks", "ozon_stocks", "ym_stocks"}

ASSUME RrAssumption ==
  /\ RrTables \subseteq DOMAIN RrFields /\ RrAmounts \subseteq Nat \ {0}
  /\ RrMost \in Nat \ {0} /\ MaxRrEntries \in Nat /\ MaxRrEvents \in Nat

VARIABLES
  rrTable,
  rrSource,    \* entries of the marketplace, by a number that no answer shows
  rrKept,      \* rows of the table: the key, and the figures of the row that replaces the others
  rrHit,       \* what happened, kept for checking
  rrAsked,     \* whether the source is unchanged since the last answer
  rrEvents

rrVars == <<rrTable, rrSource, rrKept, rrHit, rrAsked, rrEvents>>

\* A document, an item, a warehouse; 0: the answer does not say.  `from` is the list that the entry
\* is in, of those the answer has.
RrNumbers == 1..MaxRrEntries
RrSome == 1..RrMost
RrEntry ==
  [no : RrNumbers, doc : 0..RrMost, item : RrSome, place : 0..RrMost, day : 0..RrMost,
   amount : RrAmounts, fbo : BOOLEAN, from : {"listing"}]

RrTypeOK ==
  /\ rrTable \in RrTables
  /\ DOMAIN rrSource \subseteq RrNumbers /\ \A n \in DOMAIN rrSource : rrSource[n] \in RrEntry
  /\ \A k \in DOMAIN rrKept : rrKept[k] \in Nat
  /\ rrHit \subseteq {"unnamed", "undated", "alike", "amended", "moved", "withdrawn", "repeated",
                      "partial", "several"}
  /\ rrAsked \in BOOLEAN /\ rrEvents \in 0..MaxRrEvents

RrNone == [x \in {} |-> 0]

RrInit ==
  /\ rrTable \in RrTables
  /\ rrSource = RrNone /\ rrKept = RrNone /\ rrHit = {} /\ rrAsked = TRUE /\ rrEvents = 0

-----------------------------------------------------------------------------
(* Parsers.  `a` is the answer, `key` the keys of the positions that a parser reads. *)

RrRow(key, amount) == [key |-> key, amount |-> amount]
RrEach(a, key) == [i \in DOMAIN key |-> RrRow(key[i], a[i].amount)]
RrFigures(a) == [i \in DOMAIN a |-> a[i].amount]

\* One row per key, with the figures of all entries of the key added up.
RrSummed(a, key) ==
  LET alike(i) == {j \in DOMAIN key : key[j] = key[i]}
      first    == {i \in DOMAIN key : \A j \in alike(i) : i <= j}
  IN [i \in first |-> RrRow(key[i], SumOver(RrFigures(a), alike(i)))]

\* The positions of which the parser reads the day, or the number as well.
RrDated(a) == {i \in DOMAIN a : a[i].day # 0}
RrNamed(a) == {i \in RrDated(a) : a[i].doc # 0}

\* Of entries told by document and item.
RrLines(a) == RrEach(a, [i \in DOMAIN a |-> <<a[i].doc, a[i].item>>])
RrByDay(a) == RrEach(a, [i \in DOMAIN a |-> <<a[i].day, a[i].item>>])

\* A unit is told by its srid and by the number of its sale or return, which no other has; the
\* number stands in for an srid that is missing.
RrSales(a) == RrEach(a, [i \in DOMAIN a |-> <<a[i].doc, a[i].item, a[i].no>>])
\* Without srid and odid the number of the basket stands in.
RrOrders(a) == RrLines(a)
\* Mutant: an item of two warehouses is told by the first.
RrWbStocksFirst(a) == RrEach(a, [i \in DOMAIN a |-> a[i].item])
\* The warehouses of a size are summed.
RrWbStocks(a) == RrSummed(a, [i \in DOMAIN a |-> a[i].item])
RrWbFunnel(a) == RrByDay(a)
\* A line of no number or of no day is left out.
RrReportLines(a) == RrEach(a, [i \in RrNamed(a) |-> a[i].doc])
RrItems(a) == RrLines(a)

\* FBO stock comes twice, as a stock of the product and as rows of the analytics, and counts once:
\* the analytics win as soon as they have a row.  A stock in several warehouses has none.
RrOzonStocks(a) ==
  LET analytics == {i \in DOMAIN a : a[i].from = "analytics"}
      counted   == IF analytics = {} THEN DOMAIN a ELSE analytics \cup {i \in DOMAIN a : ~a[i].fbo}
  IN RrSummed(a, [i \in counted |-> <<a[i].item, a[i].place>>])

\* A campaign of no number is "unknown"; a row of no day is left out.
RrAds(a) == RrEach(a, [i \in RrDated(a) |-> <<a[i].day, a[i].doc>>])
\* rows_to_clickhouse_tuples keeps every row of the report (parse_report adds up, of the same key).
RrSkuAds(a) == RrEach(a, [i \in DOMAIN a |-> <<a[i].day, a[i].doc, a[i].item>>])
RrAccruals(a) == RrEach(a, [i \in RrNamed(a) |-> <<a[i].day, a[i].doc>>])
\* A row for each day that is asked for: the services by category, and what of the day's total they
\* do not explain.
RrBalance(a) ==
  LET services(d)  == SumOver(RrFigures(a), {i \in DOMAIN a : a[i].day = d})
      accrued(d)   == SumOver(RrFigures(rrSource), {n \in DOMAIN rrSource : rrSource[n].day = d})
      remainder(d) == accrued(d) - services(d)
  IN [d \in RrSome |-> RrRow(d, services(d) + remainder(d))]

RrYmOrders(a) == RrLines(a)
\* The fees of an order are those of its offer when it has one, and unknown otherwise.
RrYmStats(a) ==
  [i \in DOMAIN a |->
     RrRow(<<a[i].doc, a[i].item>>,
           IF \E j \in DOMAIN a : j # i /\ a[j].doc = a[i].doc THEN 0 ELSE a[i].amount)]
RrYmStocks(a) == RrEach(a, [i \in DOMAIN a |-> <<a[i].item, a[i].place>>])
RrOffers(a) == RrEach(a, [i \in DOMAIN a |-> a[i].item])
\* Of two tariffs of one type neither is taken, and they are not added up.
RrQuotes(a) ==
  [i \in DOMAIN a |->
     RrRow(a[i].item,
           IF \E j \in DOMAIN a : j # i /\ a[j].item = a[i].item THEN 0 ELSE a[i].amount)]

\* A report on request with a row of no day is refused as a whole.
RrReportFails(a) ==
  /\ rrTable \in {"ozon_sku_ads", "ym_finance", "ym_ads", "ym_funnel"}
  /\ \E i \in DOMAIN a : a[i].day = 0
\* A transaction of no number is told by all its fields.
RrNetting(a) ==
  RrEach(a, [i \in DOMAIN a |->
    <<a[i].day, IF a[i].doc # 0 THEN <<a[i].doc>> ELSE <<"hash", a[i].amount>>>>])
RrYmAds(a) == RrEach(a, [i \in DOMAIN a |-> <<a[i].day, a[i].doc, a[i].item>>])
RrYmFunnel(a) == RrByDay(a)

RrParsed(a) ==
  CASE rrTable = "wb_sales" -> RrSales(a)          [] rrTable = "wb_orders" -> RrOrders(a)
    [] rrTable = "wb_stocks" -> RrWbStocks(a)      [] rrTable = "wb_funnel" -> RrWbFunnel(a)
    [] rrTable = "wb_report" -> RrReportLines(a)   [] rrTable = "ozon_items" -> RrItems(a)
    [] rrTable = "ozon_stocks" -> RrOzonStocks(a)  [] rrTable = "ozon_ads" -> RrAds(a)
    [] rrTable = "ozon_sku_ads" -> RrSkuAds(a)     [] rrTable = "ozon_accruals" -> RrAccruals(a)
    [] rrTable = "ozon_balance" -> RrBalance(a)    [] rrTable = "ym_orders" -> RrYmOrders(a)
    [] rrTable = "ym_stats" -> RrYmStats(a)        [] rrTable = "ym_stocks" -> RrYmStocks(a)
    [] rrTable = "ym_offers" -> RrOffers(a)        [] rrTable = "ym_quotes" -> RrQuotes(a)
    [] rrTable = "ym_finance" -> RrNetting(a)      [] rrTable = "ym_ads" -> RrYmAds(a)
    [] rrTable = "ym_funnel" -> RrYmFunnel(a)

\* The table after an insert: the row of a key that comes last.  A new snapshot has keys of its own.
RrInsert(lines) ==
  LET new     == {lines[i].key : i \in DOMAIN lines}
      last(k) == CHOOSE i \in DOMAIN lines :
                   lines[i].key = k /\ \A j \in DOMAIN lines : lines[j].key = k => j <= i
      old     == IF rrTable \in RrSnapshots THEN {} ELSE DOMAIN rrKept
  IN [k \in old \cup new |-> IF k \in new THEN lines[last(k)].amount ELSE rrKept[k]]

-----------------------------------------------------------------------------
(* The marketplace *)

\* Entries come with the number of their document and with their day, or, of these tables, without.
RrMayOmit == {"wb_orders", "wb_report", "ozon_items", "ozon_ads", "ozon_accruals", "ym_finance"}
RrMayUndate ==
  {"wb_report", "ozon_ads", "ozon_sku_ads", "ozon_accruals", "ym_finance", "ym_ads", "ym_funnel"}
\* Tables whose documents are the entries: no two have the same number.
RrOwnNumber == {"wb_report", "ozon_accruals", "ym_finance"}

RrNew ==
  LET f == RrFields[rrTable]
      may(field, omit) ==
        IF field \notin f THEN {1} ELSE IF rrTable \in omit THEN 0..RrMost ELSE RrSome
  IN [no : RrNumbers, doc : may("doc", RrMayOmit), item : may("item", {}),
      place : IF "place" \in f THEN RrSome ELSE {0}, day : may("day", RrMayUndate),
      amount : RrAmounts, fbo : IF rrTable = "ozon_stocks" THEN BOOLEAN ELSE {FALSE},
      from : {"listing"}]

\* Two entries of one document, item, place and day.
RrTwin(e, f) == e.doc = f.doc /\ e.item = f.item /\ e.place = f.place /\ e.day = f.day

RrEventsOf(e) ==
  {x \in {"unnamed", "undated", "alike", "several"} :
     \/ x = "unnamed" /\ e.doc = 0
     \/ x = "undated" /\ e.day = 0
     \/ x = "alike" /\ \E n \in DOMAIN rrSource : RrTwin(e, rrSource[n])
     \/ x = "several" /\ \E n \in DOMAIN rrSource : e.doc = rrSource[n].doc}

\* Two entries that a marketplace never has.
RrNever(e, f) ==
  \/ rrTable \in RrOwnNumber /\ e.doc # 0 /\ e.doc = f.doc
  \/ rrTable \in RrSnapshots /\ RrTwin(e, f) /\ e.fbo = f.fbo

RrChanged(source, hits) ==
  /\ rrSource' = source /\ rrHit' = rrHit \cup hits /\ rrAsked' = FALSE
  /\ UNCHANGED <<rrTable, rrKept>>

\* An entry takes the first number that is free.
RrList(e) ==
  /\ e.no \notin DOMAIN rrSource /\ \A n \in RrNumbers : n < e.no => n \in DOMAIN rrSource
  /\ \A n \in DOMAIN rrSource : ~RrNever(e, rrSource[n])
  /\ RrChanged([n \in DOMAIN rrSource \cup {e.no} |-> IF n = e.no THEN e ELSE rrSource[n]],
               RrEventsOf(e))
  /\ UNCHANGED rrEvents

RrCounted == rrEvents < MaxRrEvents /\ rrEvents' = rrEvents + 1

\* The figures of an entry are corrected; an accrual is moved to another day; an entry goes.
RrAmend(n, amount) ==
  /\ n \in DOMAIN rrSource /\ RrCounted
  /\ RrChanged([rrSource EXCEPT ![n].amount = amount], {"amended"})
RrMove(n, day) ==
  /\ n \in DOMAIN rrSource /\ "day" \in RrFields[rrTable] /\ rrSource[n].day \notin {0, day}
  /\ RrCounted /\ RrChanged([rrSource EXCEPT ![n].day = day], {"moved"})
RrWithdraw(n) ==
  /\ n \in DOMAIN rrSource /\ RrCounted
  /\ RrChanged([m \in DOMAIN rrSource \ {n} |-> rrSource[m]], {"withdrawn"})

-----------------------------------------------------------------------------
(* An answer, and its rows *)

\* The answer has each entry, and perhaps one of them twice: the list moved between two pages.
RrAgain == MaxRrEntries + 1
RrAnswers ==
  {rrSource} \cup
  {[i \in DOMAIN rrSource \cup {RrAgain} |-> rrSource[IF i = RrAgain THEN n ELSE i]] :
     n \in IF rrEvents < MaxRrEvents THEN DOMAIN rrSource ELSE {}}

\* A listing of products has no warehouse of a stock that lies in several.  The analytics of the FBO
\* stock come for all products, for some (an answer that is no object), or not (no role).
RrListed(i) ==
  LET spread == {k \in DOMAIN rrSource :
                   rrSource[k].item = rrSource[i].item /\ rrSource[k].fbo = rrSource[i].fbo}
  IN [rrSource[i] EXCEPT !.place = IF spread = {i} THEN @ ELSE 0]
RrAnalytics(S) == {MaxRrEntries + n : n \in {m \in DOMAIN rrSource :
                                               rrSource[m].fbo /\ rrSource[m].item \in S}}
RrStocksAnswers ==
  {[i \in DOMAIN rrSource \cup RrAnalytics(S) |->
      IF i \in DOMAIN rrSource THEN RrListed(i)
      ELSE [rrSource[i - MaxRrEntries] EXCEPT !.from = "analytics"]] : S \in SUBSET RrSome}

RrPartial(a) ==
  LET has(from) == {a[i].item : i \in {j \in DOMAIN a : a[j].fbo /\ a[j].from = from}}
  IN has("analytics") # {} /\ has("analytics") # has("listing")

RrAsk(a) ==
  /\ ~RrReportFails(a)
  /\ rrKept' = RrInsert(RrParsed(a))
  /\ rrAsked' = TRUE
  /\ UNCHANGED <<rrTable, rrSource>>

RrCollect(a) ==
  /\ RrAsk(a)
  /\ rrEvents' = rrEvents + (IF RrAgain \in DOMAIN a THEN 1 ELSE 0)
  /\ rrHit' = rrHit \cup (IF RrAgain \in DOMAIN a THEN {"repeated"} ELSE {})
RrCollectStocks(a) ==
  /\ RrAsk(a)
  /\ rrHit' = rrHit \cup (IF RrPartial(a) THEN {"partial"} ELSE {})
  /\ UNCHANGED rrEvents

RrNext ==
  \/ \E e \in RrNew : RrList(e)
  \/ \E n \in RrNumbers, amount \in RrAmounts : RrAmend(n, amount)
  \/ \E n \in RrNumbers, day \in RrSome : RrMove(n, day)
  \/ \E n \in RrNumbers : RrWithdraw(n)
  \/ rrTable # "ozon_stocks" /\ \E a \in RrAnswers : RrCollect(a)
  \/ rrTable = "ozon_stocks" /\ \E a \in RrStocksAnswers : RrCollectStocks(a)

RrSpec == RrInit /\ [][RrNext]_rrVars

-----------------------------------------------------------------------------
(* Properties *)

\* What a table is known not to survive: rows of the same key, and rows the parser leaves out,
\* are lost; a row whose key changed, or whose entry is gone, stays beside the new one; a sum
\* counts an entry twice that the answer has twice.
RrLoses ==
  [wb_sales |-> {"withdrawn"}, wb_orders |-> {"withdrawn", "alike"}, wb_stocks |-> {"repeated"},
   wb_funnel |-> {"withdrawn", "alike", "moved"}, wb_report |-> {"withdrawn", "unnamed", "undated"},
   ozon_items |-> {"withdrawn", "alike"}, ozon_stocks |-> {"partial"},
   ozon_ads |-> {"withdrawn", "alike", "undated", "moved"},
   ozon_sku_ads |-> {"withdrawn", "alike", "moved"},
   ozon_accruals |-> {"withdrawn", "unnamed", "undated", "moved"},
   ozon_balance |-> {},
   ym_orders |-> {"withdrawn", "alike"}, ym_stats |-> {"withdrawn", "several", "repeated"},
   ym_stocks |-> {}, ym_offers |-> {"withdrawn", "alike"},
   ym_quotes |-> {"withdrawn", "alike", "repeated"},
   ym_finance |-> {"withdrawn", "unnamed", "moved"}, ym_ads |-> {"withdrawn", "alike", "moved"},
   ym_funnel |-> {"withdrawn", "alike", "moved"}]

RrSum(f) == SumOver(f, DOMAIN f)

\* After an answer the rows of the table add up to what the marketplace has: no entry is lost to
\* another of the same key and none counts twice, but for what the table is known not to survive.
RowsAddUp ==
  rrAsked /\ rrHit \cap RrLoses[rrTable] = {} =>
    RrSum(rrKept) = RrSum(RrFigures(rrSource))

\* Unknown fees of an order or an offer are left out, never taken twice.
NeverTakenTwice ==
  rrAsked /\ rrTable \in {"ym_stats", "ym_quotes"} /\ "withdrawn" \notin rrHit =>
    RrSum(rrKept) <= RrSum(RrFigures(rrSource))

RowsSound == RrTypeOK /\ RowsAddUp /\ NeverTakenTwice
=============================================================================

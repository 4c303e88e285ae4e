-------------------------------- MODULE Pnl ---------------------------------
(***************************************************************************)
(* The result of a month and of its days (backend/app/services/            *)
(* pnl_service.py, daily_pnl_service.py, common/pnl_tax.py), from the      *)
(* finance days, the costs of what was sold, the buyouts abroad and the    *)
(* expenses of the organization.  The month is read from a mart that is    *)
(* rebuilt now and then, and is corrected and taxed when it is read; the   *)
(* days are worked out anew from the same tables.                          *)
(*                                                                         *)
(* Money is in kopecks.  A day of an account is one record of PnFacts.     *)
(***************************************************************************)
EXTENDS Money

CONSTANTS
  PnAccounts,
  PnMarket,      \* account -> "ozon", "wb" or "ym"
  PnTaxed,       \* the accounts for which is_tax_applicable
  PnRate,        \* PNL_TAX_RATE_PCT
  PnLast,        \* bound: days of the month
  PnFacts,       \* account -> what a day of it may be like
  PnWorlds,      \* account -> day -> its record, at first
  PnAmounts,     \* amounts of expenses
  PnExpenses,    \* expense_ids
  PnThreads,     \* threads of the pool that change expenses at the same time
  MaxPnChanges,  \* bound: changes of the data after the start
  MaxPnEdits     \* bound: changes of expenses

\* A day of an account: sums of money, whether it is a day of mrt_finance_daily, and whether its
\* balance and its report are there.
PnDay == [revenue : Int, accrued : Int, lent : Int, paid : Int, netted : Int, cogs : Int,
          buyer : Int, receipts : Int, cis : Int,
          filed : BOOLEAN, balance : BOOLEAN, reported : BOOLEAN]

ASSUME PnAssumption ==
  /\ PnMarket \in [PnAccounts -> {"ozon", "wb", "ym"}] /\ PnTaxed \subseteq PnAccounts
  /\ PnRate \in 0..100 /\ PnLast \in Nat \ {0} /\ PnAmounts \subseteq Nat
  /\ PnFacts \in [PnAccounts -> SUBSET PnDay]
  /\ PnWorlds \subseteq [PnAccounts -> [1..PnLast -> PnDay]]
  /\ MaxPnChanges \in Nat /\ MaxPnEdits \in Nat

VARIABLES
  pnDays,     \* account -> day -> its record
  pnReport,   \* the realization report of the month: its amount, or -1 before it is fetched
  pnClosed,   \* the month is over
  pnMart,     \* mrt_pnl_monthly: account -> row, and the expenses of the month
  pnFresh,    \* nothing has changed since the mart was rebuilt, kept for checking
  pnRows,     \* dim_additional_expense
  pnEdit,     \* the change of an expense under way in each thread
  pnAlive,    \* expenses created and not deleted, kept for checking
  pnMixed,    \* expenses of which a move was cut short or met another change or a deletion,
              \* kept for checking
  pnChanges, pnEdits

pnVars == <<pnDays, pnReport, pnClosed, pnMart, pnFresh, pnRows, pnEdit, pnAlive, pnMixed,
            pnChanges, pnEdits>>
pnBooks == <<pnRows, pnEdit, pnAlive, pnMixed, pnEdits>>
pnData == <<pnDays, pnReport, pnClosed, pnMart, pnChanges>>

PnMonthDays == 1..PnLast
PnMonths == {1, 2}          \* the month of the reports, and another one
PnUndated == 0
PnNoEdit == [pc |-> "none"]
PnSum(f) == SumOver(f, PnMonthDays)

-----------------------------------------------------------------------------
(* The month *)

PnTaxOf(base) == MnTax(base, PnRate)

PnOf(a, column) == PnSum([d \in PnMonthDays |-> pnDays[a][d][column]])
PnRevenue(a) == PnOf(a, "revenue")
PnBuyouts(a) == IF PnMarket[a] = "ozon" THEN PnOf(a, "receipts") ELSE 0
PnBought(a) == IF PnMarket[a] = "ozon" THEN PnOf(a, "cis") ELSE 0

\* mrt_pnl_monthly.sql: what the ads cost is taken off the result once more, except, at
\* Yandex Market, the part that is a charge of the finance days.
PnAdCost(a) ==
  LET paid == PnOf(a, "paid")
      netted == PnOf(a, "netted")
  IN IF PnMarket[a] # "ym" THEN paid ELSE IF paid > netted THEN paid - netted ELSE 0

\* A month without a finance day has no row, whatever its costs and ads.
PnMartRow(a) ==
  IF \A d \in PnMonthDays : ~pnDays[a][d].filed THEN <<>>
  ELSE [accrued |-> PnOf(a, "accrued"), revenue |-> PnRevenue(a), ads |-> PnAdCost(a),
        profit |-> PnOf(a, "accrued") - PnOf(a, "cogs") - PnAdCost(a)]

PnMonthRows == {r \in pnRows : r.month = 1}
PnSpent == SumOver([r \in pnRows |-> r.amount], PnMonthRows)

\* _apply_financing and _apply_cis, on the row of the mart.
PnBeforeTax(a) ==
  LET lent == IF PnMarket[a] = "ozon" THEN PnOf(a, "lent") ELSE 0
  IN pnMart.row[a].profit + lent + PnBuyouts(a) - PnBought(a)

\* _apply_realization_tax for an account of each marketplace, and _buyer_tax_base, which
\* raises on the answer kept with a buyout (see Buyouts).
PnTaxOzon(a) ==
  LET complete == \A d \in PnMonthDays : pnDays[a][d].balance
      abroad == \E d \in PnMonthDays : pnDays[a][d].receipts # 0
  IN IF pnReport >= 0 /\ complete
     THEN [status |-> "confirmed", tax |-> PnTaxOf(pnReport + PnBuyouts(a))]
     ELSE IF abroad THEN [status |-> "error", tax |-> 0]
     ELSE [status |-> "estimated", tax |-> PnTaxOf(PnOf(a, "buyer"))]

PnTaxWb(a) ==
  LET reported == {d \in PnMonthDays : pnDays[a][d].reported}
  IN IF reported # {}
     THEN [status |-> IF pnClosed THEN "confirmed" ELSE "estimated",
           tax |-> PnTaxOf(SumOver([d \in PnMonthDays |-> pnDays[a][d].buyer], reported))]
     ELSE [status |-> "estimated", tax |-> PnTaxOf(PnRevenue(a))]

PnTaxYm(a) ==
  LET moved == \E d \in PnMonthDays : pnDays[a][d].revenue # 0 \/ pnDays[a][d].accrued # 0
  IN [status |-> IF pnClosed /\ moved THEN "confirmed" ELSE "estimated",
      tax |-> PnTaxOf(PnRevenue(a))]

PnMonthTax(a) ==
  CASE PnMarket[a] = "ozon" -> PnTaxOzon(a)
    [] PnMarket[a] = "wb"   -> PnTaxWb(a)
    [] PnMarket[a] = "ym"   -> PnTaxYm(a)

\* get_pnl answers, and build, which asks it: no account of the two raises.
PnAnswered == \A a \in PnTaxed : pnMart.row[a] # <<>> => PnMonthTax(a).status # "error"

-----------------------------------------------------------------------------
(* The days *)

\* build(): net_accrued with the financing, buyouts and costs of a day.
PnDayBeforeTax(a, d) ==
  LET x == pnDays[a][d]
      ozon == PnMarket[a] = "ozon"
  IN x.accrued + (IF ozon THEN x.lent + x.receipts - x.cis ELSE 0) - x.cogs

\* What the buyers of a day paid; of a buyout abroad nothing is read (see Buyouts).
PnBuyer(a, d) ==
  LET x == pnDays[a][d]
  IN IF PnMarket[a] = "ozon" \/ (PnMarket[a] = "wb" /\ x.reported) THEN x.buyer ELSE x.revenue

\* The tax of a confirmed month, or of what the days come to, spread by what buyers paid.
PnDayTax(a) ==
  LET weight == [d \in PnMonthDays |-> PnBuyer(a, d)]
      confirmed == pnMart.row[a] # <<>> /\ PnMonthTax(a).status = "confirmed"
  IN MnAllocate(IF confirmed THEN PnMonthTax(a).tax ELSE PnTaxOf(PnSum(weight)),
                weight, PnMonthDays, PnLast)

\* Expenses with a date fall on it, the others are spread over the days of their month.
PnSpread(amount) ==
  MnAllocate(amount, [d \in PnMonthDays |-> 1], PnMonthDays, PnLast)
PnShare(r, d) ==
  IF r.day = PnUndated THEN PnSpread(r.amount)[d] ELSE IF r.day = d THEN r.amount ELSE 0
PnExternal(d) == SumOver([r \in pnRows |-> PnShare(r, d)], PnMonthRows)

\* The article report of a period: what falls in it, and of what has no date all, for the whole
\* month, or the shares of its days.
PnPeriodShare(r, days) ==
  IF r.day # PnUndated THEN IF r.day \in days THEN r.amount ELSE 0
  ELSE IF days = PnMonthDays THEN r.amount ELSE SumOver(PnSpread(r.amount), days)
PnPeriodExternal(days) == SumOver([r \in pnRows |-> PnPeriodShare(r, days)], PnMonthRows)

-----------------------------------------------------------------------------
PnInit ==
  /\ pnDays \in PnWorlds
  /\ pnReport = -1 /\ pnClosed = FALSE
  /\ pnMart = [row |-> [a \in PnAccounts |-> <<>>], spent |-> 0]
  /\ pnFresh = FALSE
  /\ pnRows = {} /\ pnEdit = [t \in PnThreads |-> PnNoEdit] /\ pnAlive = {} /\ pnMixed = {}
  /\ pnChanges = 0 /\ pnEdits = 0

\* The collections and transforms bring a day up to date.
PnArrive(a, d, x) ==
  /\ pnChanges < MaxPnChanges /\ (pnDays[a][d].filed => x.filed)
  /\ pnDays' = [pnDays EXCEPT ![a][d] = x]
  /\ pnFresh' = FALSE /\ pnChanges' = pnChanges + 1
  /\ UNCHANGED <<pnReport, pnClosed, pnMart, pnBooks>>

PnMonthEnds ==
  /\ ~pnClosed /\ pnClosed' = TRUE
  /\ UNCHANGED <<pnDays, pnReport, pnMart, pnFresh, pnChanges, pnBooks>>

\* ozon_realization_monthly, for the month before.
PnRealize(amount) ==
  /\ pnClosed /\ pnReport = -1
  /\ pnReport' = amount
  /\ UNCHANGED <<pnDays, pnClosed, pnMart, pnFresh, pnChanges, pnBooks>>

\* build_marts: mrt_pnl_monthly and its expenses, of the months from from_month, of which this
\* is one.
PnRebuild ==
  /\ pnMart' = [row |-> [a \in PnAccounts |-> PnMartRow(a)], spent |-> PnSpent]
  /\ pnFresh' = TRUE
  /\ UNCHANGED <<pnDays, pnReport, pnClosed, pnChanges, pnBooks>>

-----------------------------------------------------------------------------
(* Expenses: one row per organization, month and expense.  The endpoints are run by a pool of *)
(* threads and take no lock.                                                                  *)

PnSameKey(x, r) == <<x.id, x.month>> = <<r.id, r.month>>
PnPut(r) == {x \in pnRows : ~PnSameKey(x, r)} \cup {r}
PnPlace(month, day) == IF month = 1 THEN day ELSE PnUndated

\* The changes of an expense that are under way, and whether one moves it.
PnEditing(id) == {t \in PnThreads : pnEdit[t] # PnNoEdit /\ pnEdit[t].old.id = id}
PnMoves(edit) == edit.new.month # edit.old.month

\* The id of a new expense is a uuid: no row has it, nor an expense that is being changed.
PnCreate(id, month, day, amount) ==
  /\ id \notin pnAlive /\ {r \in pnRows : r.id = id} = {} /\ pnEdits < MaxPnEdits
  /\ PnEditing(id) = {}
  /\ pnRows' = PnPut([id |-> id, month |-> month, day |-> PnPlace(month, day), amount |-> amount])
  /\ pnAlive' = pnAlive \cup {id}
  /\ pnFresh' = FALSE /\ pnEdits' = pnEdits + 1
  /\ UNCHANGED <<pnData, pnEdit, pnMixed>>

\* update_expense: the row as it is read; a day moves the expense to the month of the day,
\* and an expense with a day is not moved by its month alone.  Other changes of the expense may
\* be under way.
PnUpdate(t, old, month, day, amount) ==
  LET edit == [pc |-> "write", old |-> old,
               new |-> [id |-> old.id, month |-> month, amount |-> amount,
                        day |-> PnPlace(month, IF day # PnUndated THEN day ELSE old.day)]]
      meets == \E u \in PnEditing(old.id) : PnMoves(edit) \/ PnMoves(pnEdit[u])
  IN /\ pnEdit[t] = PnNoEdit /\ old \in pnRows /\ pnEdits < MaxPnEdits
     /\ month # old.month => day # PnUndated \/ old.day = PnUndated
     /\ pnEdit' = [pnEdit EXCEPT ![t] = edit]
     /\ pnMixed' = IF meets THEN pnMixed \cup {old.id} ELSE pnMixed
     /\ pnEdits' = pnEdits + 1
     /\ UNCHANGED <<pnData, pnFresh, pnRows, pnAlive>>

\* _write.  What another change has written under the key stays if it is stamped later.
PnWrite(t) ==
  LET edit == pnEdit[t]
  IN /\ edit.pc = "write"
     /\ \/ pnRows' = PnPut(edit.new)
        \/ (\E x \in pnRows : PnSameKey(x, edit.new) /\ x # edit.old) /\ UNCHANGED pnRows
     /\ pnEdit' = [pnEdit EXCEPT ![t] = IF PnMoves(edit) THEN [edit EXCEPT !.pc = "unlink"]
                                                         ELSE PnNoEdit]
     /\ pnFresh' = FALSE
     /\ UNCHANGED <<pnData, pnAlive, pnMixed, pnEdits>>

\* The row under the old month goes (mutations_sync = 2: before the call returns).
PnUnlink(t) ==
  /\ pnEdit[t].pc = "unlink"
  /\ pnRows' = {r \in pnRows : ~PnSameKey(r, pnEdit[t].old)}
  /\ pnEdit' = [pnEdit EXCEPT ![t] = PnNoEdit] /\ pnFresh' = FALSE
  /\ UNCHANGED <<pnData, pnAlive, pnMixed, pnEdits>>

\* The process dies, or ClickHouse does not answer, before the statement.
PnCutShort(t) ==
  /\ pnEdit[t] # PnNoEdit
  /\ pnMixed' = IF pnEdit[t].pc = "write" THEN pnMixed ELSE pnMixed \cup {pnEdit[t].old.id}
  /\ pnEdit' = [pnEdit EXCEPT ![t] = PnNoEdit]
  /\ UNCHANGED <<pnData, pnFresh, pnRows, pnAlive, pnEdits>>

\* delete_expense: every row of the expense.
PnDelete(id) ==
  /\ \E r \in pnRows : r.id = id
  /\ pnEdits < MaxPnEdits
  /\ pnRows' = {r \in pnRows : r.id # id}
  /\ pnAlive' = pnAlive \ {id}
  /\ pnMixed' = IF PnEditing(id) = {} THEN pnMixed ELSE pnMixed \cup {id}
  /\ pnFresh' = FALSE /\ pnEdits' = pnEdits + 1
  /\ UNCHANGED <<pnData, pnEdit>>

PnDataNext ==
  \/ \E a \in PnAccounts, d \in PnMonthDays : \E x \in PnFacts[a] : PnArrive(a, d, x)
  \/ PnMonthEnds \/ PnRebuild
  \/ \E amount \in PnAmounts : PnRealize(amount)

PnBooksNext ==
  \/ \E id \in PnExpenses, month \in PnMonths, day \in {PnUndated, PnLast}, amount \in PnAmounts :
       \/ PnCreate(id, month, day, amount)
       \/ \E t \in PnThreads, old \in pnRows : PnUpdate(t, old, month, day, amount)
  \/ \E t \in PnThreads : PnWrite(t) \/ PnUnlink(t) \/ PnCutShort(t)
  \/ \E id \in PnExpenses : PnDelete(id)

PnNext == PnDataNext \/ PnBooksNext

PnSpec == PnInit /\ [][PnNext]_pnVars

-----------------------------------------------------------------------------
(* Properties *)

\* When the mart is up to date the days of an account that has a row of the month add up to it,
\* to the kopeck, but for the ads: the month takes their cost off and the days do not.
ResultAddsUp ==
  pnFresh => \A a \in PnAccounts : pnMart.row[a] # <<>> =>
    PnSum([d \in PnMonthDays |-> PnDayBeforeTax(a, d)]) = PnBeforeTax(a) + pnMart.row[a].ads

\* The tax of the days is the tax of the month, to the kopeck, when it is confirmed and, but
\* for Wildberries with a report of some of the days, when it is estimated.
TaxAddsUp ==
  PnAnswered => \A a \in PnTaxed :
    LET some == {d \in PnMonthDays : pnDays[a][d].reported}
        whole == PnMarket[a] = "wb" => some \in {{}, PnMonthDays}
    IN pnMart.row[a] # <<>> /\ (whole \/ PnMonthTax(a).status = "confirmed")
         => PnSum(PnDayTax(a)) = PnMonthTax(a).tax

\* An expense is spread over the days without a remainder, the article report of a period has
\* what its days have, and the mart has the same.  Moving an expense to another month never leaves
\* it without a row, and leaves it with one only, also beside moves of other expenses; so do
\* changes of one expense at the same time, as long as none of them moves it.  A move cut short, or
\* at the same time as another change of the expense or its deletion, may leave it with two rows,
\* with none, or with a row after it was deleted.
ExpensesOnce ==
  /\ LET external == [d \in PnMonthDays |-> PnExternal(d)]
     IN /\ \A to \in PnMonthDays : \A from \in 1..to :
             PnPeriodExternal(from..to) = SumOver(external, from..to)
        /\ PnSum(external) = PnSpent
  /\ pnFresh => pnMart.spent = PnSpent
  /\ \A id \in PnExpenses \ pnMixed :
       LET rows == {r \in pnRows : r.id = id}
       IN IF id \notin pnAlive THEN rows = {}
          ELSE rows # {} /\ (PnEditing(id) = {} => Cardinality(rows) = 1)

\* The result, its tax and the expenses are the same by the day and by the month.
PnlAddsUp == ResultAddsUp /\ TaxAddsUp /\ ExpensesOnce
=============================================================================

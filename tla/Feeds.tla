-------------------------------- MODULE Feeds --------------------------------
(***************************************************************************)
(* Reading a list of a marketplace page by page (collectors/ozon/client.py,*)
(* wb/client.py, ym/client.py, reviews.py) while the list changes and the  *)
(* API may answer nonsense or an earlier page again; and the tasks that    *)
(* keep what was read, or fail and are run again.                          *)
(*                                                                         *)
(* An item is its rank in the order of the list.  A cursor, last_id, page  *)
(* token, rrdId or updatedAt/nmID stands for the rank of the last item of  *)
(* a page, an offset for the number of items before it.                    *)
(***************************************************************************)
EXTENDS Naturals, FiniteSets, FiniteSetsExt

CONSTANTS
  FdLast,          \* bound: the ranks are 1..FdLast
  FdReaders,       \* the readers to look at
  FdPage,          \* items of a full page
  FdCap,           \* *_MAX_PAGES
  FdWindow,        \* POSTINGS_MAX_WINDOW_DAYS, in ranks
  MaxFdChanges,    \* bound: changes of the list
  MaxFdFaults      \* bound: wrong answers

ASSUME FdAssumption ==
  /\ FdReaders \subseteq {"postings", "stocks", "ids", "attributes", "accruals", "campaigns",
                          "paged", "orders", "report", "goods", "cards", "feedbacks", "reviews"}
  /\ FdLast \in Nat \ {0} /\ FdPage \in Nat \ {0} /\ FdWindow \in Nat \ {0}
  /\ FdCap \in Nat /\ FdCap * FdPage > FdLast /\ MaxFdChanges \in Nat /\ MaxFdFaults \in Nat

VARIABLES
  fdReader,        \* the reader
  fdListed,        \* what the marketplace lists
  fdRun,           \* the read under way, or the last one
  fdRaw,           \* what has been stored
  fdAlways,        \* items listed since the read began, kept for checking
  fdHit,           \* what befell the read, kept for checking
  fdChanges, fdFaults

fdVars == <<fdReader, fdListed, fdRun, fdRaw, fdAlways, fdHit, fdChanges, fdFaults>>

FdItem == 1..FdLast
FdNone == 0
FdFresh(from) == [pc |-> "page", at |-> FdNone, from |-> from, pages |-> 0, count |-> 0,
                  seen |-> {}, got |-> {}]
FdPlaces == {"idle", "page", "returned", "raised"}

FdTypeOK ==
  /\ fdReader \in FdReaders
  /\ fdListed \subseteq FdItem /\ fdRaw \subseteq FdItem /\ fdAlways \subseteq FdItem
  /\ fdRun.pc \in FdPlaces /\ fdRun.at \in Nat /\ fdRun.from \in Nat /\ fdRun.pages \in Nat
  /\ fdRun.seen \subseteq Nat /\ fdRun.got \subseteq FdItem
  /\ fdHit \subseteq {"noObject", "noList", "replay", "removal", "cap"}
  /\ fdChanges \in 0..MaxFdChanges /\ fdFaults \in 0..MaxFdFaults

FdInit ==
  /\ fdReader \in FdReaders
  /\ fdListed \in {FdItem \ {x} : x \in FdItem}
  /\ fdRun = [FdFresh(1) EXCEPT !.pc = "idle"]
  /\ fdRaw = {} /\ fdAlways = {} /\ fdHit = {}
  /\ fdChanges = 0 /\ fdFaults = 0

-----------------------------------------------------------------------------
(* The list, and what the API answers *)

FdAdd(x) ==
  /\ fdChanges < MaxFdChanges /\ x \notin fdListed
  /\ fdListed' = fdListed \cup {x}
  /\ fdChanges' = fdChanges + 1
  /\ UNCHANGED <<fdReader, fdRun, fdRaw, fdAlways, fdHit, fdFaults>>

FdRemove(x) ==
  /\ fdChanges < MaxFdChanges /\ x \in fdListed
  /\ fdListed' = fdListed \ {x}
  /\ fdAlways' = fdAlways \ {x}
  /\ fdHit' = IF fdRun.pc = "page" THEN fdHit \cup {"removal"} ELSE fdHit
  /\ fdChanges' = fdChanges + 1
  /\ UNCHANGED <<fdReader, fdRun, fdRaw, fdFaults>>

\* Readers that name a place in the list by the number of items before it.
FdByOffset == {"goods", "feedbacks"}
\* Readers that ask for one stretch of time after the other.
FdByWindow == {"postings", "orders"}

\* postings_since_path: a window begins where the last one ends; orders(): the day after.
FdWindowEnd(from) ==
  Min({FdLast, IF fdReader = "postings" THEN from + FdWindow ELSE from + FdWindow - 1})
FdNextWindow(from) ==
  IF fdReader = "postings" THEN FdWindowEnd(from) ELSE FdWindowEnd(from) + 1
FdLastWindow(from) ==
  \/ fdReader \notin FdByWindow
  \/ IF fdReader = "postings" THEN FdNextWindow(from) >= FdLast ELSE FdNextWindow(from) > FdLast

FdInWindow(from) ==
  {x \in fdListed : fdReader \in FdByWindow => x \in from..FdWindowEnd(from)}

\* The items after a place.
FdAfter(at) ==
  LET all == FdInWindow(fdRun.from) IN
  IF fdReader \in FdByOffset
  THEN {x \in all : Cardinality({y \in all : y < x}) >= at}
  ELSE {x \in all : x > at}
FdFirst(xs) == {x \in xs : Cardinality({y \in xs : y < x}) < FdPage}

\* An answer: a page, the place it ends at, whether there is more, and how many items there are.
\* Some lists give a place for the last page too.
FdAnswers(at) ==
  LET rest == FdAfter(at)
      page == FdFirst(rest)
      more == rest # page IN
  {[ok |-> TRUE, items |-> page, next |-> n, more |-> more, total |-> Cardinality(fdListed)] :
     n \in IF page = {} THEN {FdNone} ELSE IF more THEN {Max(page)} ELSE {Max(page), FdNone}}

\* An answer that is no object, and objects without the list: with nothing else, or with the place
\* the page ends at.
FdNoObject == [ok |-> FALSE, items |-> {}, next |-> FdNone, more |-> FALSE, total |-> 0]
FdNoList(at) ==
  {[FdNoObject EXCEPT !.ok = TRUE]} \cup {[a EXCEPT !.items = {}] : a \in FdAnswers(at)}

-----------------------------------------------------------------------------
(* After an answer `a`: "next" page, "end" of the list, or "raise". *)

\* OzonApiClient._postings_window
FdPostings(a) ==
  CASE a.items = {} \/ ~a.more \/ a.next = FdNone -> "end"
    [] a.items # {} /\ a.more /\ a.next # FdNone -> IF a.next = fdRun.at THEN "raise" ELSE "next"

\* OzonApiClient.stocks: a repeated cursor ends the list, and so does the total.
FdStocks(a) ==
  IF \/ a.items = {} \/ a.next \in {FdNone, fdRun.at}
     \/ fdRun.count + Cardinality(a.items) >= a.total
  THEN "end" ELSE "next"

FdCapped == fdRun.pages + 1 = FdCap

\* OzonApiClient.product_ids
FdIds(a) ==
  IF a.items = {} \/ a.next = FdNone THEN "end"
  ELSE IF a.next = fdRun.at \/ FdCapped THEN "raise" ELSE "next"

\* OzonApiClient.product_attributes and product_prices: a repetition ends the list, and so does
\* the number of pages.
FdAttributes(a) ==
  IF a.items = {} \/ a.next \in {FdNone, fdRun.at} \/ FdCapped THEN "end" ELSE "next"

\* Mutant: a last_id that was there before is the last page.
FdAccrualsOver(a) ==
  IF a.items = {} \/ a.next = FdNone \/ a.next \in fdRun.seen THEN "end"
  ELSE IF FdCapped THEN "raise" ELSE "next"

\* OzonApiClient.finance_accruals_for_day
FdAccruals(a) ==
  IF ~a.ok \/ a.items = {} \/ a.next = FdNone THEN "end"
  ELSE IF a.next \in fdRun.seen \/ FdCapped THEN "raise" ELSE "next"

\* YmClient.campaigns: whatever carries no page token is the last page.
FdCampaigns(a) ==
  IF a.next = FdNone THEN "end" ELSE IF a.next \in fdRun.seen THEN "raise" ELSE "next"

\* YmClient._paged: the answer has to be an object, but it need not have the list.
FdPaged(a) == IF ~a.ok THEN "raise" ELSE FdCampaigns(a)

\* WbApiClient.sales_report_lines: rrdId has to grow.
FdReport(a) ==
  IF Cardinality(a.items) < FdPage THEN "end"
  ELSE IF Max(a.items) <= fdRun.at \/ FdCapped THEN "raise" ELSE "next"

\* WbApiClient.stocks and _funnel_products_for_day, WbCatalogClient.prices
FdGoods(a) == IF Cardinality(a.items) < FdPage THEN "end" ELSE "next"

\* WbCatalogClient.cards: an answer that is no object leaves the loop to its last line; an object
\* without cards is the last page.
FdCards(a) ==
  IF ~a.ok THEN "raise"
  ELSE IF Cardinality(a.items) < FdPage THEN "end"
  ELSE IF Max(a.items) \in fdRun.seen \/ FdCapped THEN "raise" ELSE "next"

\* WbFeedbacksClient.feedbacks, up to WB_FEEDBACKS_MAX_SKIP
FdFeedbacks(a) == IF Cardinality(a.items) < FdPage \/ FdCapped THEN "end" ELSE "next"

\* OzonReviewsClient.reviews
FdReviews(a) == IF ~a.more \/ a.next = FdNone \/ FdCapped THEN "end" ELSE "next"

FdVerdict(a) ==
  CASE fdReader = "postings"   -> FdPostings(a)
    [] fdReader = "stocks"     -> FdStocks(a)
    [] fdReader = "ids"        -> FdIds(a)
    [] fdReader = "attributes" -> FdAttributes(a)
    [] fdReader = "accruals"   -> FdAccruals(a)
    [] fdReader = "campaigns"  -> FdCampaigns(a)
    [] fdReader = "paged"      -> FdPaged(a)
    [] fdReader = "orders"     -> FdPaged(a)
    [] fdReader = "report"     -> FdReport(a)
    [] fdReader = "goods"      -> FdGoods(a)
    [] fdReader = "cards"      -> FdCards(a)
    [] fdReader = "feedbacks"  -> FdFeedbacks(a)
    [] fdReader = "reviews"    -> FdReviews(a)

\* Where the next page begins.
FdPlace(a) ==
  CASE fdReader \in FdByOffset -> fdRun.at + FdPage
    [] fdReader \in {"report", "cards"} -> Max(a.items)
    [] OTHER -> a.next

-----------------------------------------------------------------------------
(* A read and its task *)

FdBegin ==
  /\ fdRun.pc # "page"
  /\ fdRun.pc = "returned" => fdRun.got \subseteq fdRaw
  /\ fdRun' = FdFresh(1)
  /\ fdAlways' = fdListed /\ fdHit' = {}
  /\ UNCHANGED <<fdReader, fdListed, fdRaw, fdChanges, fdFaults>>

FdTake(a) ==
  LET read == [fdRun EXCEPT !.got = @ \cup a.items, !.count = @ + Cardinality(a.items),
                            !.pages = @ + 1] IN
  fdRun' = CASE FdVerdict(a) = "raise" -> [read EXCEPT !.pc = "raised"]
             [] FdVerdict(a) = "next"  -> [read EXCEPT !.at = FdPlace(a), !.seen = @ \cup ({FdPlace(a)} \ {FdNone})]
             [] FdVerdict(a) = "end" /\ FdLastWindow(fdRun.from) -> [read EXCEPT !.pc = "returned"]
             [] FdVerdict(a) = "end" /\ ~FdLastWindow(fdRun.from) ->
                  [FdFresh(FdNextWindow(fdRun.from)) EXCEPT !.got = read.got]

\* The read ends at the number of pages, with more to come.
FdHitCap(a) == IF FdVerdict(a) = "end" /\ FdCapped /\ a.more THEN {"cap"} ELSE {}

FdAsk ==
  /\ fdRun.pc = "page"
  /\ \E a \in FdAnswers(fdRun.at) : FdTake(a) /\ fdHit' = fdHit \cup FdHitCap(a)
  /\ UNCHANGED <<fdReader, fdListed, fdRaw, fdAlways, fdChanges, fdFaults>>

\* The API answers with an earlier page, or not with a page.
FdAskFaulty ==
  /\ fdRun.pc = "page" /\ fdFaults < MaxFdFaults
  /\ fdFaults' = fdFaults + 1
  /\ \/ FdTake(FdNoObject) /\ fdHit' = fdHit \cup {"noObject"}
     \/ \E a \in FdNoList(fdRun.at) : FdTake(a) /\ fdHit' = fdHit \cup {"noList"}
     \/ \E at \in (fdRun.seen \cup {FdNone}) \ {fdRun.at} : \E a \in FdAnswers(at) :
          FdTake(a) /\ fdHit' = fdHit \cup {"replay"} \cup FdHitCap(a)
  /\ UNCHANGED <<fdReader, fdListed, fdRaw, fdAlways, fdChanges>>

\* insert_rows; a task whose read raised has failed and stores nothing.
FdStore ==
  /\ fdRun.pc = "returned"
  /\ fdRaw' = fdRaw \cup fdRun.got
  /\ UNCHANGED <<fdReader, fdListed, fdRun, fdAlways, fdHit, fdChanges, fdFaults>>

FdNext ==
  \/ \E x \in FdItem : FdAdd(x) \/ FdRemove(x)
  \/ FdBegin \/ FdAsk \/ FdAskFaulty \/ FdStore

FdSpec == FdInit /\ [][FdNext]_fdVars
\* The API answers, and the beat starts the task again and again.
FdFairness == WF_fdVars(FdBegin) /\ WF_fdVars(FdAsk) /\ WF_fdVars(FdStore)

-----------------------------------------------------------------------------
(* Properties *)

\* What each reader takes silently for the end of the list.
FdSilentOn(reader) ==
  LET malformed == {"noObject", "noList"} IN
  CASE reader \in {"postings", "ids", "accruals", "campaigns", "report"} -> malformed
    [] reader \in {"stocks", "goods", "feedbacks"} -> malformed \cup {"replay", "removal"}
    [] reader = "attributes" -> malformed \cup {"replay"}
    [] reader = "reviews"    -> malformed \cup {"cap"}
    [] reader \in {"paged", "orders", "cards"} -> {"noList"}

\* A read that returns has everything that was listed all the while, however the list grew and
\* shrank and whatever the API answered, but for what the reader is known to be silent on.
FeedComplete ==
  fdRun.pc = "returned" /\ fdHit \cap FdSilentOn(fdReader) = {} => fdAlways \subseteq fdRun.got

FeedsSound == FdTypeOK /\ FeedComplete

\* What stays listed comes to be stored.
FeedSettles == <>[](fdListed \subseteq fdRaw)
=============================================================================

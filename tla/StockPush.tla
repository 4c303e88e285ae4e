------------------------------- MODULE StockPush -------------------------------
(***************************************************************************)
(* Pushing stocks to the marketplaces (integrations_service.py,            *)
(* collectors/marketplace_actions.py): one request of 1C or MoySklad is    *)
(* sent to each marketplace in calls of a warehouse or of a batch; a call  *)
(* may be refused, be applied in part or leave no answer.  The request is  *)
(* answered with what each marketplace said, and an event tells the same.  *)
(*                                                                         *)
(* Requests write whole amounts and share nothing, so one is looked at at  *)
(* a time.  Amounts and tokens are left out.                               *)
(***************************************************************************)
EXTENDS Naturals, FiniteSets

CONSTANTS
  SpSkus,          \* articles; those of SpNumeric are numbers
  SpNumeric,
  SpOwn, SpForeign,\* warehouses of the account, and of others
  NoWarehouse,
  SpBatch,         \* OZON_STOCKS_BATCH
  MaxSpItems

ASSUME SpAssumption ==
  /\ SpNumeric \subseteq SpSkus /\ SpBatch \in Nat \ {0} /\ MaxSpItems \in Nat
  /\ NoWarehouse \notin SpOwn \cup SpForeign

VARIABLES
  spYm,       \* ym_stock_mode, or "off": the account is not the organization's
  spItems,    \* the items of the request
  spAsked,    \* marketplaces it is for
  spPlace,    \* where the request is: "idle", "start", one of SpOrder, "told" or "done"
  spCalls,    \* calls to the marketplace that are still to be made
  spErrors,   \* the marketplace has had an error
  spResult,   \* per marketplace: what the answer says
  spSet,      \* items each marketplace holds by now
  spMissed,   \* items Ozon has left out in an answer that was taken for a success
  spTold      \* results the event carries

spVars == <<spYm, spItems, spAsked, spPlace, spCalls, spErrors, spResult, spSet, spMissed, spTold>>

SpOrder == <<"wb", "ozon", "ym">>
SpMarkets == {"wb", "ozon", "ym"}
SpWarehouses == SpOwn \cup SpForeign \cup {NoWarehouse}
SpItem == [sku : SpSkus, wh : SpWarehouses]
SpRequests == UNION {[1..n -> SpItem] : n \in 1..MaxSpItems}
SpNothing == [mp \in SpMarkets |-> "none"]

SpTypeOK ==
  /\ spYm \in {"grouped", "partner", "off"}
  /\ spItems \in SpRequests \cup {<<>>}
  /\ spAsked \subseteq SpMarkets /\ spPlace \in SpMarkets \cup {"start", "told", "idle", "done"}
  /\ spCalls \subseteq SUBSET (1..MaxSpItems)
  /\ spErrors \in BOOLEAN
  /\ spResult \in [SpMarkets -> {"none", "success", "failed"}]
  /\ spSet \in [SpMarkets -> SUBSET (1..MaxSpItems)]
  /\ spMissed \subseteq 1..MaxSpItems
  /\ spTold \in [SpMarkets -> {"none", "success", "failed"}]

SpInit ==
  /\ spYm \in {"grouped", "partner", "off"}
  /\ spItems = <<>> /\ spAsked = {} /\ spPlace = "idle" /\ spCalls = {} /\ spErrors = FALSE
  /\ spResult = SpNothing /\ spTold = SpNothing /\ spSet = [mp \in SpMarkets |-> {}]
  /\ spMissed = {}

-----------------------------------------------------------------------------
(* What each marketplace is sent *)

SpAll == DOMAIN spItems
SpWith(whs) == {i \in SpAll : spItems[i].wh \in whs}
\* One call per warehouse.
SpByWarehouse(S) == {{i \in S : spItems[i].wh = w} : w \in {spItems[i].wh : i \in S}}
\* Batches in the order of the request.
SpBatches(S) ==
  LET rank(i) == Cardinality({j \in S : j < i})
  IN {{i \in S : rank(i) \div SpBatch = b} : b \in {rank(i) \div SpBatch : i \in S}}
SpTwice == \E i, j \in SpAll : i # j /\ spItems[i].sku = spItems[j].sku

\* A number for WB, a warehouse for WB and Ozon; the others are told as errors by WB, and
\* left out by Ozon.
SpWbItems == {i \in SpWith(SpWarehouses \ {NoWarehouse}) : spItems[i].sku \in SpNumeric}
SpOzonItems == SpWith(SpWarehouses \ {NoWarehouse})
\* All or nothing: warehouses of the campaign in the partner mode; in the grouped mode none, and
\* no article twice.
SpYmItems ==
  IF \/ spYm = "partner" /\ SpWith(SpOwn) = SpAll
     \/ spYm = "grouped" /\ ~SpTwice /\ SpWith({NoWarehouse}) = SpAll
  THEN SpAll ELSE {}

SpItemsFor(mp) ==
  CASE mp = "wb" -> SpWbItems [] mp = "ozon" -> SpOzonItems [] mp = "ym" -> SpYmItems
SpCallsFor(mp) ==
  CASE mp = "wb" -> SpByWarehouse(SpWbItems)
    [] mp = "ozon" -> SpBatches(SpOzonItems)
    [] mp = "ym" -> SpByWarehouse(SpYmItems)

\* Nothing to send is an error; so is, for WB, an item that cannot be sent.
SpErrorsFirst(mp) ==
  \/ SpItemsFor(mp) = {}
  \/ mp = "wb" /\ SpWbItems # SpAll

-----------------------------------------------------------------------------
(* The request *)

SpEnter(mp) ==
  /\ spPlace' = mp /\ spCalls' = SpCallsFor(mp) /\ spErrors' = SpErrorsFirst(mp)
\* The marketplace after mp that the request is for, or the event.
SpGoOn(mp) ==
  LET rest == {i \in 1..3 : SpOrder[i] \in spAsked /\ \A j \in i..3 : SpOrder[j] # mp}
  IN IF rest = {} THEN spPlace' = "told" /\ UNCHANGED <<spCalls, spErrors>>
     ELSE SpEnter(SpOrder[CHOOSE i \in rest : \A j \in rest : i <= j])

\* All marketplaces, or one; the switch MARKETPLACE_ACTIONS_ENABLED is on.
SpRequest ==
  /\ spPlace = "idle"
  /\ spItems' \in SpRequests /\ spAsked' \in {SpMarkets} \cup {{mp} : mp \in SpMarkets}
  /\ spPlace' = "start"
  /\ UNCHANGED <<spYm, spCalls, spErrors, spResult, spSet, spMissed, spTold>>
SpStart ==
  /\ spPlace = "start" /\ SpGoOn("start")
  /\ UNCHANGED <<spYm, spItems, spAsked, spResult, spSet, spMissed, spTold>>

\* What a call may come to: the items that are set, and whether the answer is taken for a success.
\* Ozon says of each item whether it was set, and one it says nothing of counts as set; WB and
\* Yandex take a call or refuse it.
SpOutcomes(mp, call) ==
  {[set |-> S, ok |-> TRUE] : S \in IF mp = "ozon" THEN SUBSET call ELSE {call}}
    \cup {[set |-> S, ok |-> FALSE] : S \in IF mp = "ozon" THEN SUBSET call ELSE {{}, call}}

SpFirst(call) == \A other \in spCalls \ {call}, i \in call : \A j \in other : i < j
\* The calls of WB and Yandex go on after a failure, those of Ozon end with it.
SpCall ==
  /\ spPlace \in SpMarkets /\ spCalls # {}
  /\ \E call \in spCalls, outcome \in UNION {SpOutcomes(spPlace, c) : c \in spCalls} :
       /\ outcome \in SpOutcomes(spPlace, call)
       /\ spPlace = "ozon" => SpFirst(call)
       /\ spSet' = [spSet EXCEPT ![spPlace] = @ \cup outcome.set]
       /\ spMissed' = spMissed \cup (IF outcome.ok THEN call \ outcome.set ELSE {})
       /\ spErrors' = (spErrors \/ ~outcome.ok)
       /\ spCalls' = IF spPlace = "ozon" /\ ~outcome.ok THEN {} ELSE spCalls \ {call}
  /\ UNCHANGED <<spYm, spItems, spAsked, spPlace, spResult, spTold>>

SpResultOf ==
  /\ spPlace \in SpMarkets /\ spCalls = {}
  /\ spResult' = [spResult EXCEPT ![spPlace] = IF spErrors THEN "failed" ELSE "success"]
  /\ SpGoOn(spPlace)
  /\ UNCHANGED <<spYm, spItems, spAsked, spSet, spMissed, spTold>>

\* stock.update.completed carries the results; the request is answered, a broker that refuses
\* the event changes nothing.
SpTell ==
  /\ spPlace = "told" /\ spPlace' = "done"
  /\ spTold' \in {spResult, SpNothing}
  /\ UNCHANGED <<spYm, spItems, spAsked, spCalls, spErrors, spResult, spSet, spMissed>>

SpNext == SpRequest \/ SpStart \/ SpCall \/ SpResultOf \/ SpTell

SpSpec == SpInit /\ [][SpNext]_spVars

-----------------------------------------------------------------------------
(* Properties *)

\* What Ozon has left out without a word.
SpUntold(mp) == IF mp = "ozon" THEN spMissed ELSE {}

\* A marketplace that is said to have taken the stocks holds every item of the request, but for
\* those without a warehouse that Ozon was not sent, and those its answers did not speak of; and
\* of two amounts of one article it was sent both.
SuccessIsTrue ==
  \A mp \in SpMarkets :
    spResult[mp] = "success" =>
      \A i \in SpAll \ SpUntold(mp) :
        i \in spSet[mp] \/ (mp = "ozon" /\ spItems[i].wh = NoWarehouse)

\* Nothing is set in a warehouse of another campaign of Yandex, and no item of a request that names
\* one; nor of a request that names an article twice where the marketplace has one stock for it.
YmWholeOrNothing ==
  spSet["ym"] # {} =>
    \/ spYm = "partner" /\ SpWith(SpOwn) = SpAll
    \/ spYm = "grouped" /\ SpWith({NoWarehouse}) = SpAll /\ ~SpTwice

\* A marketplace that was sent none of the items is never said to have taken them.
EmptyIsNoSuccess ==
  \A mp \in SpMarkets : spResult[mp] = "success" => spSet[mp] \cup SpUntold(mp) # {}

\* The event says of every marketplace that was asked what the answer says, once all have answered.
EventTellsAll ==
  spTold # SpNothing =>
    spTold = spResult /\ \A mp \in SpMarkets : spTold[mp] # "none" <=> mp \in spAsked

PushesSound == SpTypeOK /\ SuccessIsTrue /\ YmWholeOrNothing /\ EmptyIsNoSuccess /\ EventTellsAll
=============================================================================

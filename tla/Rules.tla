--------------------------------- MODULE Rules ---------------------------------
(***************************************************************************)
(* Rules of the repricer and the bidder (repricer_service.py,              *)
(* pricing_service.py, bidder_service.py): what users ask for, one request *)
(* beside another, and what the runs of the tasks take from the table.     *)
(*                                                                         *)
(* A request reads rows, changes some fields and inserts whole rows; the   *)
(* table keeps the last row of a rule.  A deletion is a mutation that      *)
(* ClickHouse applies later, to the rows there were when it was asked for. *)
(*                                                                         *)
(* One organization and marketplace.  Bounds of prices, steps, fallbacks   *)
(* and the columns of the lists are left out.                              *)
(***************************************************************************)
EXTENDS Integers, FiniteSets

CONSTANTS
  RlKinds,          \* of {"price", "bid"}: dim_price_rule and dim_ad_rule
  RlRules,          \* rule_id
  RlCards,          \* an article, or a campaign
  RlThreads,        \* requests at the same time
  RlValues,         \* desired prices and bids
  NoRule,
  MaxRlOps, MaxRlSeconds

ASSUME RlAssumption ==
  /\ RlKinds \subseteq {"price", "bid"} /\ NoRule \notin RlRules
  /\ RlValues \subseteq Nat \ {0} /\ MaxRlOps \in Nat /\ MaxRlSeconds \in Nat

VARIABLES
  rlKind,
  rlRow,         \* per rule: its last row, or none
  rlDoomed,      \* rules whose row a mutation is about to delete
  rlThread,
  rlRun,         \* the run of the task
  rlWant,        \* what was asked for, each request as if it were alone; kept for checking
  rlCause,       \* why a rule may differ from that; kept for checking
  rlClock, rlOps

rlVars == <<rlKind, rlRow, rlDoomed, rlThread, rlRun, rlWant, rlCause, rlClock, rlOps>>

RlNone == [state |-> "none"]
RlRows ==
  [state : {"row"}, card : RlCards, mode : {"buyer_price", "margin"}, target : RlValues,
   max : {0} \cup RlValues, active : BOOLEAN, dry : BOOLEAN, at : 0..MaxRlSeconds]
RlCard == CHOOSE c \in RlCards : TRUE
RlNothing == [x \in {} |-> x]
RlIdleThread ==
  [pc |-> "idle", op |-> "none", rule |-> NoRule, card |-> RlCard,
   patch |-> RlNothing, saw |-> RlNothing, stale |-> {}]
\* rules: what the run has still to look at; wanted: what was wanted live since it began.
RlIdleRun == [going |-> FALSE, rules |-> {}, wanted |-> {}, sent |-> {}]

\* overlapped: a request wrote a rule that another changed after the first had read it; twice: two
\* requests made a rule for a card that had none, or the one that was found was deleted before it
\* was read; left: live rules that keep_prices passed over.
RlTypeOK ==
  /\ rlKind \in RlKinds
  /\ rlRow \in [RlRules -> RlRows \cup {RlNone}] /\ rlWant \in [RlRules -> RlRows \cup {RlNone}]
  /\ rlDoomed \subseteq RlRules
  /\ \A t \in RlThreads : /\ rlThread[t].pc \in {"idle", "find", "read", "write"}
                          /\ DOMAIN rlThread[t].saw \subseteq RlRules
  /\ rlRun.going \in BOOLEAN
  /\ rlCause.overlapped \subseteq RlRules /\ rlCause.left \subseteq RlRules
  /\ rlCause.twice \subseteq RlCards /\ rlCause.off \subseteq RlCards
  /\ rlClock \in 0..MaxRlSeconds /\ rlOps \in 0..MaxRlOps

RlInit ==
  /\ rlKind \in RlKinds
  /\ rlRow = [r \in RlRules |-> RlNone] /\ rlWant = rlRow
  /\ rlDoomed = {} /\ rlThread = [t \in RlThreads |-> RlIdleThread] /\ rlRun = RlIdleRun
  /\ rlCause = [overlapped |-> {}, twice |-> {}, left |-> {}, off |-> {}, asked |-> {},
                used |-> {}]
  /\ rlClock = 0 /\ rlOps = 0

-----------------------------------------------------------------------------
(* What is asked for *)

RlRange(f) == {f[x] : x \in DOMAIN f}
RlHas(rows, r) == rows[r].state = "row"
RlOf(rows, c) == {r \in RlRules : RlHas(rows, r) /\ rows[r].card = c}
\* A rule whose price or bid is sent.
RlLive(row) == row.state = "row" /\ row.active /\ ~row.dry

\* A rule of bids has no mode.
RlModes == IF rlKind = "price" THEN {"buyer_price", "margin"} ELSE {"margin"}
\* update_rule's fields (AdRuleUpdate has no mode), as a request may set them.
RlPatches ==
  [dry : BOOLEAN] \cup [active : BOOLEAN] \cup [target : RlValues]
  \cup IF rlKind = "price" THEN [mode : RlModes]
       ELSE [max : {0} \cup RlValues]

RlOp(t, op, rule, card, patch, pc) ==
  /\ rlThread[t].pc = "idle" /\ rlOps < MaxRlOps /\ rlOps' = rlOps + 1
  /\ rlThread' = [rlThread EXCEPT ![t] =
       [RlIdleThread EXCEPT !.op = op, !.rule = rule, !.card = card, !.patch = patch, !.pc = pc]]
  /\ UNCHANGED <<rlKind, rlRow, rlDoomed, rlRun, rlWant, rlCause, rlClock>>

RlBegin(t) ==
  \/ \E r \in rlCause.used, p \in RlPatches : RlOp(t, "update", r, RlCard, p, "read")
  \/ \E r \in rlCause.used : RlOp(t, "delete", r, RlCard, RlNothing, "read")
  \/ \E c \in RlCards, v \in RlValues, d \in BOOLEAN, m \in RlModes :
       RlOp(t, "create", NoRule, c, [target |-> v, dry |-> d, mode |-> m], "write")
  \/ /\ rlKind = "price"
     /\ \/ \E c \in RlCards, v \in RlValues :
             RlOp(t, "target", NoRule, c, [mode |-> "buyer_price", target |-> v], "find")
        \/ \E v \in RlValues : RlOp(t, "import", NoRule, RlCard,
             [mode |-> "buyer_price", target |-> v, active |-> TRUE], "find")
        \/ \E keep \in BOOLEAN :
             RlOp(t, "keep", NoRule, RlCard, [dry |-> ~keep, active |-> TRUE], "find")

-----------------------------------------------------------------------------
(* The requests, a query at a time *)

\* The newest rule of each card; of several of one second, any.
RlNewest(c) == {r \in RlOf(rlRow, c) : \A s \in RlOf(rlRow, c) : rlRow[s].at <= rlRow[r].at}
RlLatestRules ==
  {S \in SUBSET RlRules :
     /\ \A r \in S : RlHas(rlRow, r) /\ r \in RlNewest(rlRow[r].card)
     /\ \A c \in RlCards : RlOf(rlRow, c) # {} => \E r \in S : S \cap RlOf(rlRow, c) = {r}}

RlSaw(S) == [r \in S |-> rlRow[r]]
\* gone: the card whose rule was deleted after it had been found.
RlGoesOn(t, pc, rule, saw, gone) ==
  /\ rlThread' = [rlThread EXCEPT ![t].pc = pc, ![t].rule = rule, ![t].saw = saw,
                               ![t].stale = @ \cup gone \cup (rlDoomed \cap DOMAIN saw)]
  /\ UNCHANGED <<rlKind, rlRow, rlDoomed, rlRun, rlWant, rlCause, rlClock, rlOps>>
RlGivesUp(t) ==
  /\ rlThread' = [rlThread EXCEPT ![t] = RlIdleThread]
  /\ UNCHANGED <<rlKind, rlRow, rlDoomed, rlRun, rlWant, rlCause, rlClock, rlOps>>

\* _latest_rule_id of a card, or _latest_rules of all.
RlFind(t) ==
  /\ rlThread[t].pc = "find"
  /\ \/ /\ rlThread[t].op = "target"
        /\ \/ \E r \in RlNewest(rlThread[t].card) : RlGoesOn(t, "read", r, RlNothing, {})
           \/ RlOf(rlRow, rlThread[t].card) = {} /\ RlGoesOn(t, "write", NoRule, RlNothing, {})
     \/ /\ rlThread[t].op \in {"import", "keep"}
        /\ \E S \in RlLatestRules : RlGoesOn(t, "write", NoRule, RlSaw(S), {})

\* get_rule: without the rule an update ends, and set_target makes one.
RlRead(t) ==
  LET r == rlThread[t].rule
  IN /\ rlThread[t].pc = "read"
     /\ \/ RlHas(rlRow, r) /\ RlGoesOn(t, "write", r, RlSaw({r}), {})
        \/ /\ ~RlHas(rlRow, r) /\ rlThread[t].op = "target"
           /\ RlGoesOn(t, "write", NoRule, RlNothing, {rlThread[t].card})
        \/ ~RlHas(rlRow, r) /\ rlThread[t].op # "target" /\ RlGivesUp(t)

RlChanged(t, row) ==
  [f \in DOMAIN row |-> IF f = "at" THEN rlClock
                        ELSE IF f \in DOMAIN rlThread[t].patch THEN rlThread[t].patch[f] ELSE row[f]]
\* A new rule is active; that of a desired price only simulates.
RlMade(t, c) ==
  RlChanged(t, [state |-> "row", card |-> c, mode |-> "margin", target |-> rlThread[t].patch.target,
                max |-> 0, active |-> TRUE, dry |-> TRUE, at |-> rlClock])

\* keep_prices takes the rules of a desired price only.
RlTouches(t, r) ==
  rlThread[t].op = "keep" => rlThread[t].saw[r].mode = "buyer_price"
\* Mutant: an import that makes a rule for a card that has one.
RlMakesForEvery(t) ==
  IF rlThread[t].op = "create" THEN {rlThread[t].card}
  ELSE IF rlThread[t].op = "target" /\ DOMAIN rlThread[t].saw = {} THEN {rlThread[t].card}
  ELSE IF rlThread[t].op = "import" THEN RlCards ELSE {}
\* Cards for which the request makes a rule: those that had none when it looked.
RlMakesFor(t) ==
  CASE rlThread[t].op = "create" -> {rlThread[t].card}
    [] rlThread[t].op = "target" /\ DOMAIN rlThread[t].saw = {} -> {rlThread[t].card}
    [] rlThread[t].op = "import" ->
         RlCards \ {rlThread[t].saw[r].card : r \in DOMAIN rlThread[t].saw}
    [] OTHER -> {}

\* What was read before this write is stale for the other requests.
RlOthersStale(t, S) ==
  [u \in RlThreads |-> IF u = t THEN RlIdleThread
                       ELSE IF rlThread[u].pc = "idle" THEN rlThread[u]
                       ELSE [rlThread[u] EXCEPT !.stale = @ \cup S]]

RlWantedLive(want) == {<<r, want[r].target>> : r \in {x \in RlRules : RlLive(want[x])}}

\* Rows of one insert, `made` the new rules and their cards.
RlInsert(t, made) ==
  LET me      == rlThread[t]
      changed == {r \in DOMAIN me.saw : RlTouches(t, r)}
      cards   == {me.saw[r].card : r \in changed} \cup RlRange(made)
      off     == me.op = "keep" /\ me.patch.dry
      late    == changed \cap me.stale
      want    == [r \in RlRules |->
                    IF r \in DOMAIN made THEN RlMade(t, made[r])
                    ELSE IF r \in changed /\ RlHas(rlWant, r) THEN RlChanged(t, rlWant[r])
                    ELSE rlWant[r]]
  IN /\ rlRow' = [r \in RlRules |->
                    IF r \in DOMAIN made THEN RlMade(t, made[r])
                    ELSE IF r \in changed THEN RlChanged(t, me.saw[r])
                    ELSE rlRow[r]]
     /\ rlWant' = want
     /\ rlDoomed' = rlDoomed \ changed
     /\ rlThread' = RlOthersStale(t, changed \cup DOMAIN made \cup cards)
     /\ rlRun' = [rlRun EXCEPT !.wanted = @ \cup IF rlRun.going THEN RlWantedLive(want) ELSE {}]
     /\ rlCause' = [rlCause EXCEPT
          !.overlapped = @ \cup late,
          !.twice = @ \cup IF me.op = "create" THEN {} ELSE RlRange(made) \cap me.stale,
          !.asked = @ \cup IF me.op = "create" THEN DOMAIN made ELSE {},
          !.used = @ \cup DOMAIN made,
          !.left = IF off
                   THEN {r \in RlRules \ changed :
                           /\ RlLive(want[r]) /\ want[r].mode = "buyer_price"
                           /\ \E s \in DOMAIN me.saw : want[r].card = me.saw[s].card}
                   ELSE @,
          !.off = IF off THEN RlCards \ me.stale ELSE @ \ cards]
     /\ UNCHANGED <<rlKind, rlClock, rlOps>>

RlDelete(t) ==
  LET r == rlThread[t].rule
  IN /\ rlDoomed' = IF RlHas(rlRow, r) THEN rlDoomed \cup {r} ELSE rlDoomed
     /\ rlWant' = [rlWant EXCEPT ![r] = RlNone]
     /\ rlThread' = RlOthersStale(t, {r})
     /\ UNCHANGED <<rlKind, rlRow, rlRun, rlCause, rlClock, rlOps>>

\* New rules for the cards, each under an id that was never given out.
RlNewRules(cards) ==
  {made \in UNION {[S -> cards] : S \in SUBSET (RlRules \ rlCause.used)} :
     \A c \in cards : \E r \in DOMAIN made : {s \in DOMAIN made : made[s] = c} = {r}}

RlWrite(t) ==
  /\ rlThread[t].pc = "write"
  /\ \/ rlThread[t].op = "delete" /\ RlDelete(t)
     \/ /\ rlThread[t].op # "delete"
        /\ \E made \in RlNewRules(RlMakesFor(t)) : RlInsert(t, made)

-----------------------------------------------------------------------------
(* ClickHouse, the task, the clock *)

RlMutate(r) ==
  /\ r \in rlDoomed
  /\ rlDoomed' = rlDoomed \ {r} /\ rlRow' = [rlRow EXCEPT ![r] = RlNone]
  /\ UNCHANGED <<rlKind, rlThread, rlRun, rlWant, rlCause, rlClock, rlOps>>

\* fetch_active_rules, once per run.
RlFetch ==
  /\ ~rlRun.going
  /\ rlRun' = [going |-> TRUE, sent |-> {},
               rules |-> {[id |-> r, row |-> rlRow[r]] :
                            r \in {x \in RlRules : RlHas(rlRow, x) /\ rlRow[x].active}},
               wanted |-> RlWantedLive(rlWant)
                          \cup {<<r, rlRow[r].target>> : r \in
                              {x \in rlDoomed \cup rlCause.overlapped : RlHas(rlRow, x)}}]
  /\ UNCHANGED <<rlKind, rlRow, rlDoomed, rlThread, rlWant, rlCause, rlClock, rlOps>>

RlBid(row) == IF row.max > 0 /\ row.max < row.target THEN row.max ELSE row.target
\* plan_bid_change: `shown` is the campaign's current_cpm as last synchronized, 0 when unknown;
\* prices are planned in PricePlan.
RlPlanned(row, shown) == rlKind = "bid" => shown # 0 /\ RlBid(row) # shown
RlAct ==
  /\ rlRun.going
  /\ \E rule \in rlRun.rules, shown \in {0} \cup RlValues :
       rlRun' = [rlRun EXCEPT
         !.rules = @ \ {rule},
         !.sent = @ \cup IF RlPlanned(rule.row, shown) /\ ~rule.row.dry
                         THEN {<<rule.id, rule.row.target>>} ELSE {}]
  /\ UNCHANGED <<rlKind, rlRow, rlDoomed, rlThread, rlWant, rlCause, rlClock, rlOps>>
RlRunEnds ==
  /\ rlRun.going /\ rlRun.rules = {} /\ rlRun' = RlIdleRun
  /\ UNCHANGED <<rlKind, rlRow, rlDoomed, rlThread, rlWant, rlCause, rlClock, rlOps>>

RlTick ==
  /\ rlClock < MaxRlSeconds /\ rlClock' = rlClock + 1
  /\ UNCHANGED <<rlKind, rlRow, rlDoomed, rlThread, rlRun, rlWant, rlCause, rlOps>>

RlNext ==
  \/ \E t \in RlThreads : RlBegin(t) \/ RlFind(t) \/ RlRead(t) \/ RlWrite(t)
  \/ \E r \in RlRules : RlMutate(r)
  \/ RlFetch \/ RlAct \/ RlRunEnds
  \/ RlTick

RlSpec == RlInit /\ [][RlNext]_rlVars

-----------------------------------------------------------------------------
(* Properties *)

\* A rule is what the requests made of it, whatever their order, unless a request overwrote
\* what another had changed after the first had read the rule; and a rule that was deleted is
\* gone as soon as the mutation is applied, unless such a request brought it back.
RuleIsAsAsked ==
  \A r \in RlRules \ rlCause.overlapped : r \notin rlDoomed => rlRow[r] = rlWant[r]

\* A run sends for a rule only what was wanted live at some time since it began.
SentAsWanted == rlRun.sent \subseteq rlRun.wanted \cup (rlCause.overlapped \X RlValues)

\* A card has a second rule only if somebody asked for one, or of two requests that both found none,
\* or of a desired price whose rule was deleted between finding and reading it.
OneRulePerCard ==
  \A c \in RlCards \ rlCause.twice :
    Cardinality(RlOf(rlRow, c) \ (rlDoomed \cup rlCause.asked \cup rlCause.overlapped)) <= 1

\* When the prices are no longer kept (keep_prices), no rule of a desired price is live until
\* somebody changes a rule, but for older rules of a card that has a newer one.
KeptOff ==
  \A c \in rlCause.off : \A r \in RlOf(rlRow, c) :
    RlLive(rlRow[r]) /\ rlRow[r].mode = "buyer_price"
      => r \in rlCause.left \cup rlCause.overlapped \cup rlDoomed

\* The rules are what users asked for, and what is sent is what the rules say.
RulesSound == RlTypeOK /\ RuleIsAsAsked /\ SentAsWanted /\ OneRulePerCard /\ KeptOff
=============================================================================

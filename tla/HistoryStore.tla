----------------------------- MODULE HistoryStore -----------------------------
(***************************************************************************)
(* The git-like history (workers/app/utils/history_store.py and its        *)
(* callers; read by backend/app/services/history_service.py): record reads *)
(* the HEAD of each entity, plans a commit for each observation that       *)
(* differs, and inserts objects, changes, commits and references, four     *)
(* statements with a possible crash before each of them.                   *)
(*                                                                         *)
(* A commit id is a hash of entity, parent and object: here the sequence   *)
(* of the documents from the first commit on.                              *)
(***************************************************************************)
EXTENDS Naturals, SequencesExt, FiniteSets

CONSTANTS
  HistKeys,        \* entities of one repo
  HistCards,       \* the main section of a document
  HistMeaning,     \* what a card says: its reorderings mean the same
  HistPrices,      \* the section of a document that has a source of its own
  NoSection,       \* a document without that section
  HistRuns,        \* calls of record
  HistGuardMin,    \* MIN_ENTITIES_FOR_TOMBSTONE_GUARD
  HistHorizon,     \* bound: the last second
  MaxHistCrashes   \* bound: crashes

HistDocument == [card: HistCards, price: HistPrices \cup {NoSection}]
Deleted == [card |-> "deleted", price |-> NoSection]
Body == HistDocument \cup {Deleted}

ASSUME HistAssumption ==
  /\ IsFiniteSet(HistKeys)
  /\ "deleted" \notin HistCards
  /\ NoSection \notin HistPrices
  /\ HistMeaning \in [HistCards -> HistCards]
  /\ HistGuardMin \in Nat /\ HistHorizon \in Nat /\ MaxHistCrashes \in Nat

VARIABLES
  histObjects,     \* bodies in hist_objects
  histChanges,     \* <<key, id>> of the commits with rows in hist_changes
  histCommits,     \* hist_commits
  histRefs,        \* HEAD of each entity: hist_refs FINAL
  histRuns,        \* calls of record under way
  histNow,         \* the second
  histCrashes,     \* crashes so far
  histCalm         \* no two calls have overlapped

histVars == <<histObjects, histChanges, histCommits, histRefs, histRuns, histNow, histCrashes, histCalm>>

NoHead == [id |-> <<>>, at |-> 0]
HistCommit == [key: HistKeys, id: Seq(Body), parent: Seq(Body), doc: Body, at: Nat]
HistObservation == [key: HistKeys, doc: Body]

\* kind: rows of a collector, a whole listing of the catalogue, or entities to retire.
HistKind == {"rows", "listing", "retire"}
HistPlace == {"new", "read", "planning", "objects", "changes", "commits", "refs", "done", "dead"}

HistRun == [pc: HistPlace, kind: HistKind, carry: BOOLEAN, obs: Seq(HistObservation), i: Nat,
            heads: [HistKeys -> Seq(Body)], commits: SUBSET HistCommit, now: Nat]

HistNewRun == [pc |-> "new", kind |-> "rows", carry |-> FALSE, obs |-> <<>>, i |-> 1,
               heads |-> [k \in HistKeys |-> <<>>], commits |-> {}, now |-> 0]

HistTypeOK ==
  /\ histObjects \subseteq Body
  /\ histChanges \subseteq HistKeys \X Seq(Body)
  /\ histCommits \subseteq HistCommit
  /\ histRefs \in [HistKeys -> [id: Seq(Body), at: Nat]]
  /\ histRuns \in [HistRuns -> HistRun]
  /\ histNow \in Nat
  /\ histCrashes \in Nat
  /\ histCalm \in BOOLEAN

HistInit ==
  /\ histObjects = {} /\ histChanges = {} /\ histCommits = {}
  /\ histRefs = [k \in HistKeys |-> NoHead]
  /\ histRuns = [r \in HistRuns |-> HistNewRun]
  /\ histNow = 1
  /\ histCrashes = 0
  /\ histCalm = TRUE

IsDeleted(id) == id # <<>> /\ Last(id) = Deleted
Live(id) == id # <<>> /\ Last(id) # Deleted

HistAt(r, pc) == histRuns[r].pc = pc
HistGoes(r, from, to) == /\ HistAt(r, from)
                         /\ histRuns' = [histRuns EXCEPT ![r].pc = to]
HistEnds(r, pc) == histRuns' = [histRuns EXCEPT ![r] = [HistNewRun EXCEPT !.pc = pc]]
HistStored == <<histObjects, histChanges, histCommits, histRefs>>

-----------------------------------------------------------------------------
(* Callers. *)

HistIdle == \A r \in HistRuns : histRuns[r].pc \in {"new", "done", "dead"}

\* No lock is common to the collectors, the catalogue and the import: calls may overlap.
HistStart(r, kind, carry, obs) ==
  /\ HistAt(r, "new")
  /\ histRuns' = [histRuns EXCEPT ![r] =
       [histRuns[r] EXCEPT !.pc = "read", !.kind = kind, !.carry = carry, !.obs = obs]]
  /\ histCalm' = (histCalm /\ HistIdle)
  /\ UNCHANGED <<HistStored, histNow, histCrashes>>

\* archive_rows: the rows of one insert, in their order; a key may come twice.  A row has no
\* sections.
ArchiveRows(r) ==
  \E k \in HistKeys, d, e \in {f \in HistDocument : f.price = NoSection} :
    \E obs \in {<<[key |-> k, doc |-> d]>>,
                <<[key |-> k, doc |-> d], [key |-> k, doc |-> e]>>} :
      HistStart(r, "rows", FALSE, obs)

\* _commit_catalogue: one document per card, all without the section whose source refused,
\* which is then carried; tombstones only if there are any cards.
CommitCatalogue(r) ==
  \E carry \in BOOLEAN :
    \E listing \in UNION {[K -> HistDocument] : K \in SUBSET HistKeys} :
      /\ carry => \A k \in DOMAIN listing : listing[k].price = NoSection
      /\ HistStart(r, IF DOMAIN listing = {} THEN "rows" ELSE "listing", carry,
                   [i \in 1..Cardinality(DOMAIN listing) |->
                      LET k == SetToSeq(DOMAIN listing)[i] IN [key |-> k, doc |-> listing[k]]])

\* retire_legacy_entities
RetireEntities(r) ==
  \E k \in HistKeys :
    /\ Live(histRefs[k].id)
    /\ HistStart(r, "retire", FALSE, <<[key |-> k, doc |-> Deleted]>>)

-----------------------------------------------------------------------------
(* record *)

\* _heads, and with tombstone_missing live_keys and the heads of the missing.
SeenKeys(obs) == {obs[i].key : i \in DOMAIN obs}
MissingKeys(obs) == {k \in HistKeys : Live(histRefs[k].id)} \ SeenKeys(obs)

\* More than half of the known entities gone at once is taken for a broken response.
GuardTriggered(obs) ==
  LET missing == Cardinality(MissingKeys(obs))
      known == missing + Cardinality(SeenKeys(obs)) IN
  known >= HistGuardMin /\ 2 * missing > known

Tombstones(r) ==
  IF histRuns[r].kind # "listing" \/ GuardTriggered(histRuns[r].obs) THEN {}
  ELSE MissingKeys(histRuns[r].obs)

\* Mutant: nothing is carried.
HistCarriedNothing(r, o) == o

\* carry: a section that an observation lacks is copied from the document of HEAD.
HistCarried(r, o) ==
  LET head == histRefs[o.key].id IN
  IF histRuns[r].carry /\ Live(head) /\ o.doc.price = NoSection
  THEN [o EXCEPT !.doc.price = Last(head).price] ELSE o

ReadHeads(r) ==
  /\ HistAt(r, "read")
  /\ LET gone == SetToSeq(Tombstones(r)) IN
     histRuns' = [histRuns EXCEPT ![r] =
       [histRuns[r] EXCEPT
          !.pc = "planning",
          !.obs = [i \in DOMAIN histRuns[r].obs |-> HistCarried(r, histRuns[r].obs[i])]
                    \o [i \in DOMAIN gone |-> [key |-> gone[i], doc |-> Deleted]],
          !.heads = [k \in HistKeys |-> histRefs[k].id],
          !.now = histNow]]
  /\ UNCHANGED <<HistStored, histNow, histCrashes, histCalm>>

SameMeaning(d, e) == HistMeaning[d.card] = HistMeaning[e.card] /\ d.price = e.price

\* No commit for the document HEAD has, nor for one that differs in order only.
Unchanged(head, doc) ==
  /\ head # <<>>
  /\ \/ Last(head) = doc
     \/ /\ Last(head) # Deleted /\ doc # Deleted
        /\ SameMeaning(Last(head), doc)

\* Mutant: the next commit of the key has the HEAD that was read as its parent again.
ChainForgotten(run, k, id) == run.heads

\* chain: the commit just made is the parent of the next one of its key.
Chain(run, k, id) == [run.heads EXCEPT ![k] = id]

\* The next observation; a key that came before is compared with its own last commit.
PlanCommit(r) ==
  LET run == histRuns[r]
      o == run.obs[run.i]
      head == run.heads[o.key]
      id == Append(head, o.doc) IN
  /\ HistAt(r, "planning")
  /\ run.i <= Len(run.obs)
  /\ histRuns' = [histRuns EXCEPT ![r] =
       IF Unchanged(head, o.doc) THEN [run EXCEPT !.i = @ + 1]
       ELSE [run EXCEPT !.i = @ + 1, !.heads = Chain(run, o.key, id),
                        !.commits = @ \cup {[key |-> o.key, id |-> id, parent |-> head,
                                             doc |-> o.doc, at |-> run.now]}]]
  /\ UNCHANGED <<HistStored, histNow, histCrashes, histCalm>>

PlanEnds(r) ==
  /\ histRuns[r].i > Len(histRuns[r].obs)
  /\ HistAt(r, "planning")
  /\ IF histRuns[r].commits = {} THEN HistEnds(r, "done") ELSE HistGoes(r, "planning", "objects")
  /\ UNCHANGED <<HistStored, histNow, histCrashes, histCalm>>

ObjectsOf(r) == {c.doc : c \in histRuns[r].commits}

InsertObjects(r) ==
  /\ HistGoes(r, "objects", "changes")
  /\ histObjects' = histObjects \cup ObjectsOf(r)
  /\ UNCHANGED <<histChanges, histCommits, histRefs, histNow, histCrashes, histCalm>>

InsertChanges(r) ==
  /\ HistGoes(r, "changes", "commits")
  /\ histChanges' = histChanges \cup
       {<<c.key, c.id>> : c \in {d \in histRuns[r].commits : Live(d.parent) /\ Live(d.id)}}
  /\ UNCHANGED <<histObjects, histCommits, histRefs, histNow, histCrashes, histCalm>>

InsertCommits(r) ==
  /\ HistGoes(r, "commits", "refs")
  /\ histCommits' = histCommits \cup histRuns[r].commits
  /\ UNCHANGED <<histObjects, histChanges, histRefs, histNow, histCrashes, histCalm>>

\* The entities a run has committed to.
Moved(run) == {c.key : c \in run.commits}

\* Of two rows of an entity FINAL takes the later updated_at, of equal ones the last.
InsertRefs(r) ==
  LET run == histRuns[r] IN
  /\ HistAt(r, "refs")
  /\ HistEnds(r, "done")
  /\ histRefs' = [k \in HistKeys |->
       IF k \in Moved(run) /\ run.now >= histRefs[k].at
       THEN [id |-> run.heads[k], at |-> run.now] ELSE histRefs[k]]
  /\ UNCHANGED <<histObjects, histChanges, histCommits, histNow, histCrashes, histCalm>>

\* A worker that dies before its first insert has done nothing.
HistCrash(r) ==
  /\ histRuns[r].pc \in {"changes", "commits", "refs"}
  /\ histCrashes < MaxHistCrashes
  /\ histCrashes' = histCrashes + 1
  /\ HistEnds(r, "dead")
  /\ UNCHANGED <<HistStored, histNow, histCalm>>

HistTick ==
  /\ histNow < HistHorizon
  /\ histNow' = histNow + 1
  /\ UNCHANGED <<HistStored, histRuns, histCrashes, histCalm>>

HistNext ==
  \/ \E r \in HistRuns :
       \/ ArchiveRows(r) \/ CommitCatalogue(r) \/ RetireEntities(r)
       \/ ReadHeads(r) \/ PlanCommit(r) \/ PlanEnds(r)
       \/ InsertObjects(r) \/ InsertChanges(r) \/ InsertCommits(r) \/ InsertRefs(r)
       \/ HistCrash(r)
  \/ HistTick

HistSpec == HistInit /\ [][HistNext]_histVars

-----------------------------------------------------------------------------
(* Reading at a moment: of the commits of the last second snapshot takes the least id,  *)
(* state the greatest.  Ids are hashes: a child is above its parent, or below it.        *)

Newest(k, t) == LET until == {c \in histCommits : c.key = k /\ c.at <= t} IN
                {c \in until : \A d \in until : d.at <= c.at}
OldestOf(C) == {c.doc : c \in {d \in C : \A e \in C : Len(d.id) <= Len(e.id)}}
YoungestOf(C) == {c.doc : c \in {d \in C : \A e \in C : Len(d.id) >= Len(e.id)}}

CheckoutOne(k, t, up) == IF up THEN OldestOf(Newest(k, t)) ELSE YoungestOf(Newest(k, t))
CheckoutAll(k, t, up) == IF up THEN YoungestOf(Newest(k, t)) ELSE OldestOf(Newest(k, t))

-----------------------------------------------------------------------------
(* Properties. *)

HasId(k, id) == \E c \in histCommits : c.key = k /\ c.id = id

\* However runs overlap and die: HEAD is a commit, a commit's parent is a commit, its object
\* is stored, and so are its field changes if it has any.
HistIntegrity ==
  /\ \A k \in HistKeys : histRefs[k].id # <<>> => HasId(k, histRefs[k].id)
  /\ \A c \in histCommits :
       /\ c.parent # <<>> => HasId(c.key, c.parent)
       /\ c.doc \in histObjects
       /\ Live(c.parent) /\ Live(c.id) => <<c.key, c.id>> \in histChanges

HistSettled == histCalm /\ histCrashes = 0 /\ \A r \in HistRuns : ~HistAt(r, "refs")

\* Without crash and overlap the commits of an entity are one line that ends in HEAD: no
\* commit forks, also when a batch names an entity twice.
HistLinear ==
  HistSettled =>
    \A c \in histCommits :
      /\ Len(c.id) <= Len(histRefs[c.key].id)
      /\ c.id = SubSeq(histRefs[c.key].id, 1, Len(c.id))

\* What git checkout of now answers (the newest commit) is among the commits of the second
\* in which HEAD was written, and HEAD is one of them.
HeadIsNewest ==
  HistSettled =>
    \A k \in HistKeys :
      histRefs[k].id # <<>> => \E c \in Newest(k, histNow) : c.id = histRefs[k].id

\* The two endpoints that check out a moment answer the same, however ids are ordered.
SnapshotIsState ==
  HistSettled =>
    \A k \in HistKeys, t \in 1..histNow, up \in BOOLEAN : CheckoutOne(k, t, up) = CheckoutAll(k, t, up)

Says(id, doc) == IF doc = Deleted THEN ~Live(id) ELSE Live(id) /\ SameMeaning(Last(id), doc)

\* When record returns and nothing came between, HEAD of each entity says what the last
\* observation of it said, be it new, moved, restored or gone.
Recorded ==
  [][\A r \in HistRuns :
       LET run == histRuns[r] IN
       (histRuns'[r].pc = "done" /\ run.pc # "done" /\ histCalm /\ histCrashes = 0) =>
         \A i \in DOMAIN run.obs :
           (\A j \in DOMAIN run.obs : run.obs[j].key = run.obs[i].key => j <= i) =>
             Says(histRefs'[run.obs[i].key].id, run.obs[i].doc)]_histVars

\* A section whose source refused is no removal: only a run that read the source, or that
\* deletes the entity, takes it from HEAD.
SectionCarried ==
  [][\A r \in HistRuns, k \in HistKeys :
       (HistAt(r, "refs") /\ histRuns'[r].pc = "done" /\ histRuns[r].carry /\ histCalm
          /\ Live(histRefs[k].id) /\ Live(histRefs'[k].id)
          /\ Last(histRefs[k].id).price # NoSection)
         => Last(histRefs'[k].id).price # NoSection]_histVars

\* References, commits and objects fit together, and HEAD is where the commits end.
HistorySound == HistTypeOK /\ HistIntegrity /\ HistLinear /\ HeadIsNewest

\* What record leaves behind is what was observed, and only that.
HistoryFaithful == Recorded /\ SectionCarried
=============================================================================

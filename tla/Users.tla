------------------------------- MODULE Users -------------------------------
(***************************************************************************)
(* The row of one user, its API key and its memberships                    *)
(* (backend/app/services/user_service.py, organization_service.py and the  *)
(* handlers of users.py and organizations.py), and the requests that are   *)
(* made with a key (backend/app/core/auth.py).  A change of the user reads *)
(* the whole row, takes the time and writes the whole row again; of all    *)
(* rows the one with the greatest updated_at, in whole seconds, is the one *)
(* that is read.  A membership is removed by a mutation that ClickHouse    *)
(* runs when it gets to it.  A key that is issued with a term is refused   *)
(* when the term is over.  The cache of principals is in Sessions.         *)
(***************************************************************************)
EXTENDS Naturals

CONSTANTS
  UsOrgs,           \* organizations the user may be in
  UsHome,           \* the one it is created in
  UsThreads,        \* requests under way at once
  UsTerms,          \* seconds a key may be issued for; 0 is without end
  MaxUsKeys,        \* bound: keys issued
  MaxUsSeconds,     \* bound: seconds that pass
  MaxUsChanges      \* bound: changes made

ASSUME UsAssumption ==
  /\ UsHome \in UsOrgs /\ UsTerms \subseteq Nat
  /\ MaxUsKeys \in Nat \ {0} /\ MaxUsSeconds \in Nat /\ MaxUsChanges \in Nat

VARIABLES
  usRow,            \* dim_user FINAL
  usNow,            \* the second
  usMember,         \* dim_organization_member FINAL: organization -> role, or "none"
  usDying,          \* organizations whose membership a mutation has yet to remove
  usThread,
  usWord,           \* what the changes that have ended said, kept for checking
  usCalm,           \* no two changes of the user have overlapped, kept for checking
  usIssued,         \* keys issued
  usChanges         \* changes made

usVars == <<usRow, usNow, usMember, usDying, usThread, usWord, usCalm, usIssued, usChanges>>
usGhosts == <<usWord, usCalm>>

UsRoles == {"viewer", "admin"}
UsOps == {"update", "rotate", "revoke", "delete"}
\* What a request is told: nothing yet, 401, 403, or it is served with a role.
UsAnswers == UsRoles \cup {"none", "refused", "forbidden"}

\* A second that no run reaches.
UsNever == MaxUsSeconds + 1
\* _expiry
UsExpiry(now, term) == IF term = 0 THEN UsNever ELSE now + term

\* create_user, and a user of before 0021 whose key has the digest of the migration.
UsCreated(hash, expires) ==
  [key |-> 1, hash |-> hash, expires |-> expires, revoked |-> FALSE, active |-> TRUE,
   org |-> UsHome]
UsIdle == [pc |-> "idle", op |-> "none", key |-> 0, term |-> 0, to |-> UsCreated("scrypt", UsNever),
           copy |-> UsCreated("scrypt", UsNever), stamp |-> 0, clean |-> FALSE, answer |-> "none"]
UsUser == [key : 1..MaxUsKeys, hash : {"none", "sha256", "scrypt"}, expires : Nat,
           revoked : BOOLEAN, active : BOOLEAN, org : UsOrgs]

UsTypeOK ==
  /\ usRow \in [user : UsUser, stamp : 0..MaxUsSeconds]
  /\ usNow \in 0..MaxUsSeconds
  /\ usMember \in [UsOrgs -> UsRoles \cup {"none"}]
  /\ usDying \subseteq {o \in UsOrgs : usMember[o] # "none"}
  /\ \A t \in UsThreads :
       /\ usThread[t].pc \in {"idle", "find", "read", "stamp", "write", "role"}
       /\ usThread[t].copy \in UsUser /\ usThread[t].to \in UsUser
       /\ usThread[t].stamp \in 0..usNow /\ usThread[t].answer \in UsAnswers
  /\ usIssued \in 1..MaxUsKeys /\ usChanges \in 0..MaxUsChanges

UsInit ==
  /\ \E hash \in {"sha256", "scrypt"}, term \in UsTerms :
       /\ usRow = [user |-> UsCreated(hash, UsExpiry(0, term)), stamp |-> 0]
       /\ usWord = [key |-> 1, expires |-> UsExpiry(0, term), alive |-> TRUE, active |-> TRUE,
                    org |-> UsHome]
  /\ usNow = 0
  /\ usMember = [o \in UsOrgs |-> IF o = UsHome THEN "admin" ELSE "none"]
  /\ usDying = {}
  /\ usThread = [t \in UsThreads |-> UsIdle]
  /\ usCalm = TRUE
  /\ usIssued = 1 /\ usChanges = 0

UsAt(t, pc) == usThread[t].pc = pc
\* Requests that have begun to change the row and have not written it.
UsChanging == {t \in UsThreads : usThread[t].pc \in {"read", "stamp", "write"}}
\* Requests under way that have seen the row, or may, as it was before a change that is now made.
UsDirtied(ts) ==
  [t \in UsThreads |-> IF t \in ts THEN usThread[t] ELSE [usThread[t] EXCEPT !.clean = FALSE]]

-----------------------------------------------------------------------------
(* Changes of the user *)

\* update_user, rotate_api_key, revoke_api_key (and revoke_all_api_keys, user by user),
\* delete_user.  A key is drawn before the row is written.
UsBegin(t, op, to, term) ==
  /\ UsAt(t, "idle") /\ usChanges < MaxUsChanges
  /\ IF op = "rotate" THEN usIssued < MaxUsKeys ELSE term = 0
  /\ op # "update" => to = usRow.user
  /\ usIssued' = IF op = "rotate" THEN usIssued + 1 ELSE usIssued
  /\ usThread' = [UsDirtied({}) EXCEPT ![t] =
       [UsIdle EXCEPT !.pc = "read", !.op = op, !.key = usIssued', !.to = to, !.term = term]]
  /\ usCalm' = (usCalm /\ UsChanging = {})
  /\ usChanges' = usChanges + 1
  /\ UNCHANGED <<usRow, usNow, usMember, usDying, usWord>>

\* _get_stored
UsRead(t) ==
  /\ UsAt(t, "read")
  /\ usThread' = [usThread EXCEPT ![t].pc = "stamp", ![t].copy = usRow.user]
  /\ UNCHANGED <<usRow, usNow, usMember, usDying, usGhosts, usIssued, usChanges>>

\* utc_now
UsStamp(t) ==
  /\ UsAt(t, "stamp")
  /\ usThread' = [usThread EXCEPT ![t].pc = "write", ![t].stamp = usNow]
  /\ UNCHANGED <<usRow, usNow, usMember, usDying, usGhosts, usIssued, usChanges>>

\* Mutant: a new key does not clear the revocation of the old one.
UsRotatedStillRevoked(user, key, expires) ==
  [user EXCEPT !.key = key, !.hash = "scrypt", !.expires = expires]

UsRotated(user, key, expires) ==
  [user EXCEPT !.key = key, !.hash = "scrypt", !.expires = expires, !.revoked = FALSE]

\* The fields a change does not name are those of the row it has read.
UsWritten(op, user, key, expires, to) ==
  CASE op = "update" -> [user EXCEPT !.active = to.active, !.org = to.org]
    [] op = "rotate" -> UsRotated(user, key, expires)
    [] op = "revoke" -> [user EXCEPT !.hash = "none", !.revoked = TRUE]
    [] op = "delete" -> [user EXCEPT !.hash = "none", !.revoked = TRUE, !.active = FALSE]
    [] op = "upgrade" -> [user EXCEPT !.hash = "scrypt"]

UsSaid(op, key, expires, to) ==
  CASE op = "update" -> [usWord EXCEPT !.active = to.active, !.org = to.org]
    [] op = "rotate" -> [usWord EXCEPT !.key = key, !.expires = expires, !.alive = TRUE]
    [] op = "revoke" -> [usWord EXCEPT !.alive = FALSE]
    [] op = "delete" -> [usWord EXCEPT !.alive = FALSE, !.active = FALSE]
    [] op = "upgrade" -> usWord

\* _write; of two rows of one second the later one is read.
UsWrite(t) ==
  LET th == usThread[t]
      expires == UsExpiry(th.stamp, th.term) IN
  /\ UsAt(t, "write")
  /\ usRow' = IF th.stamp >= usRow.stamp
              THEN [user |-> UsWritten(th.op, th.copy, th.key, expires, th.to), stamp |-> th.stamp]
              ELSE usRow
  /\ usWord' = UsSaid(th.op, th.key, expires, th.to)
  /\ usThread' = [UsDirtied({t}) EXCEPT
       ![t] = IF th.op = "upgrade" THEN [th EXCEPT !.pc = "role"] ELSE UsIdle]
  /\ UNCHANGED <<usNow, usMember, usDying, usCalm, usIssued, usChanges>>

-----------------------------------------------------------------------------
(* Memberships *)

\* add_member and update_member write a row that no mutation on its way removes.
UsGrant(o, role) ==
  /\ usChanges < MaxUsChanges
  /\ usMember' = [usMember EXCEPT ![o] = role]
  /\ usDying' = usDying \ {o}
  /\ usThread' = UsDirtied({})
  /\ usChanges' = usChanges + 1
  /\ UNCHANGED <<usRow, usNow, usGhosts, usIssued>>

\* remove_member, and delete_organization for its members, queue the mutation.
UsRemove(o) ==
  /\ usChanges < MaxUsChanges /\ usMember[o] # "none" /\ o \notin usDying
  /\ usDying' = usDying \cup {o}
  /\ usThread' = UsDirtied({})
  /\ usChanges' = usChanges + 1
  /\ UNCHANGED <<usRow, usNow, usMember, usGhosts, usIssued>>

UsMutation(o) ==
  /\ o \in usDying
  /\ usMember' = [usMember EXCEPT ![o] = "none"]
  /\ usDying' = usDying \ {o}
  /\ usThread' = UsDirtied({})
  /\ UNCHANGED <<usRow, usNow, usGhosts, usIssued, usChanges>>

-----------------------------------------------------------------------------
(* Requests *)

\* A request with a key that was handed out; clean as long as nothing changes under it.
UsRequest(t, key) ==
  /\ UsAt(t, "idle") /\ key <= usIssued
  /\ usThread' = [usThread EXCEPT ![t] =
       [UsIdle EXCEPT !.pc = "find", !.key = key, !.clean = UsChanging = {}]]
  /\ UNCHANGED <<usRow, usNow, usMember, usDying, usGhosts, usIssued, usChanges>>

\* find_by_key_id, verify_secret, and the checks of _authenticate_user_key.
UsAccepts(user, key, now) ==
  user.key = key /\ user.active /\ user.hash # "none" /\ ~user.revoked /\ now < user.expires

\* Refused with 401, or let on; a digest of before 0021 is replaced first, with the row as it
\* was found.
UsFind(t) ==
  LET accepted == UsAccepts(usRow.user, usThread[t].key, usNow)
      legacy == usRow.user.hash = "sha256" IN
  /\ UsAt(t, "find")
  /\ usThread' = [usThread EXCEPT ![t] =
       IF ~accepted THEN [UsIdle EXCEPT !.answer = "refused"]
       ELSE [@ EXCEPT !.copy = usRow.user, !.op = IF legacy THEN "upgrade" ELSE "none",
                      !.pc = IF legacy THEN "stamp" ELSE "role"]]
  /\ usCalm' = (usCalm /\ (accepted /\ legacy => UsChanging = {}))
  /\ UNCHANGED <<usRow, usNow, usMember, usDying, usWord, usIssued, usChanges>>

\* A request of a user of the organization: 403, or served with the role of the membership.
UsPlaced(o) == IF usMember[o] = "none" THEN "forbidden" ELSE usMember[o]

\* get_member_role in the organization of the row that was found.
UsRole(t) ==
  /\ UsAt(t, "role")
  /\ usThread' = [usThread EXCEPT ![t] = [UsIdle EXCEPT !.answer = UsPlaced(usThread[t].copy.org)]]
  /\ UNCHANGED <<usRow, usNow, usMember, usDying, usGhosts, usIssued, usChanges>>

UsTick ==
  /\ usNow < MaxUsSeconds
  /\ usNow' = usNow + 1
  /\ UNCHANGED <<usRow, usMember, usDying, usThread, usGhosts, usIssued, usChanges>>

UsNext ==
  \/ \E t \in UsThreads :
       \/ \E op \in UsOps, active \in BOOLEAN, o \in UsOrgs, term \in UsTerms \cup {0} :
            UsBegin(t, op, [usRow.user EXCEPT !.active = active, !.org = o], term)
       \/ UsRead(t) \/ UsStamp(t) \/ UsWrite(t)
       \/ \E key \in 1..MaxUsKeys : UsRequest(t, key)
       \/ UsFind(t) \/ UsRole(t)
  \/ \E o \in UsOrgs : (\E role \in UsRoles : UsGrant(o, role)) \/ UsRemove(o) \/ UsMutation(o)
  \/ UsTick

UsSpec == UsInit /\ [][UsNext]_usVars

-----------------------------------------------------------------------------
(* Properties *)

\* What the last changes said of a key.
UsTrusted(key) ==
  key = usWord.key /\ usWord.alive /\ usWord.active /\ usNow < usWord.expires

\* What the last changes said of a key is what the table answers, as long as no two changes
\* overlap (a first request with an old key is one): a revoked or replaced key, one of a
\* deleted user and one whose term is over is refused, also after the user is edited or made
\* active again, and the last key issued is accepted, whatever was revoked before it.
KeySaysWhatWasSaid ==
  usCalm /\ UsChanging = {} =>
    \A key \in 1..usIssued : UsAccepts(usRow.user, key, usNow) <=> UsTrusted(key)

UsersSound == UsTypeOK /\ KeySaysWhatWasSaid

\* Keys keep their word; and a request under which nothing changes is told what the changes
\* before it said: 401 exactly for a key that is not to be trusted, 403 if the user is no member
\* of the organization it was last moved to, and otherwise the role of its membership there.
UsersKept ==
  /\ UsersSound
  /\ [][/\ UsersSound'
        /\ \A t \in UsThreads :
             usCalm /\ usThread[t].clean =>
               /\ UsAt(t, "find") /\ ~UsAt(t, "find")' =>
                    (usThread[t].answer' = "refused" <=> ~UsTrusted(usThread[t].key))
               /\ UsAt(t, "role") /\ ~UsAt(t, "role")' =>
                    usThread[t].answer' = UsPlaced(usWord.org)]_usVars
=============================================================================

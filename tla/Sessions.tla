------------------------------ MODULE Sessions ------------------------------
(***************************************************************************)
(* Browser sessions of one user and the cache of principals of every API   *)
(* process (backend/app/core/auth.py, services/session_service.py,         *)
(* api/v1/login.py, and the handlers of users.py and organizations.py that *)
(* end a principal).  A request reads the session, the user and the        *)
(* membership in three statements and caches what it found.  Time is kept  *)
(* relative: the ticks an entry of the cache has left, the ticks since a   *)
(* condition of access last held, the ticks a request has been resolving.  *)
(***************************************************************************)
EXTENDS Naturals

CONSTANTS
  SsIds,            \* sessions that may be opened
  SsThreads,        \* requests that may be under way at once
  SsProcesses,      \* API processes, each with a cache of its own
  NoSession, NoProcess,
  SsCacheTtl,       \* AUTH_CACHE_TTL_SECONDS in ticks
  SsMaxResolve,     \* the longest a principal takes to resolve: the statements time out
  MaxSsAdmin        \* bound: changes an administrator makes

ASSUME SsAssumption ==
  /\ NoSession \notin SsIds /\ NoProcess \notin SsProcesses
  /\ SsCacheTtl \in Nat \ {0} /\ SsMaxResolve \in Nat /\ MaxSsAdmin \in Nat

VARIABLES
  ssRow,            \* sys_user_session: "none", "live", "revoked", or past expires_at
  ssUser,           \* is_active of the user
  ssMember,         \* the user has a row in dim_organization_member
  ssCache,          \* process -> session -> ticks the entry has left, 0 without one
  ssThread,
  ssAdmin,          \* administrator's changes so far
  ssGone            \* ticks since the session, the user, the membership last held

ssVars == <<ssRow, ssUser, ssMember, ssCache, ssThread, ssAdmin, ssGone>>
ssStore == <<ssRow, ssUser, ssMember, ssGone>>

SsFree == [pc |-> "idle", op |-> "none", process |-> NoProcess, sid |-> NoSession,
           age |-> 0, reads |-> {}, owed |-> {}]
SsResolving == {"session", "user", "member", "put"}
SsPcs == {"idle", "lookup", "served", "create", "set", "revoke", "write", "clear"} \cup SsResolving
SsBound == SsCacheTtl + SsMaxResolve
SsAges == 0..(SsBound + 1)

SsTypeOK ==
  /\ ssRow \in [SsIds -> {"none", "live", "expired", "revoked"}]
  /\ ssUser \in BOOLEAN /\ ssMember \in BOOLEAN
  /\ ssCache \in [SsProcesses -> [SsIds -> 0..(SsCacheTtl + 1)]]
  /\ ssThread \in [SsThreads -> [pc: SsPcs, op: {"none", "read", "logout", "change", "login", "end"},
                                 process: SsProcesses \cup {NoProcess}, sid: SsIds \cup {NoSession},
                                 age: 0..SsMaxResolve, reads: SUBSET SsIds, owed: SUBSET SsIds]]
  /\ ssAdmin \in 0..MaxSsAdmin
  /\ ssGone \in [session: [SsIds -> SsAges], user: SsAges, member: SsAges]

SsInit ==
  /\ ssRow = [s \in SsIds |-> "none"]
  /\ ssUser = TRUE /\ ssMember = TRUE
  /\ ssCache = [p \in SsProcesses |-> [s \in SsIds |-> 0]]
  /\ ssThread = [t \in SsThreads |-> SsFree]
  /\ ssAdmin = 0
  /\ ssGone = [session |-> [s \in SsIds |-> 0], user |-> 0, member |-> 0]

\* Mutant: the time of an entry is written and never looked at.
SsAgedNever(n) == n

\* An entry of the cache a tick later.
SsAged(n) == IF n = 0 THEN 0 ELSE n - 1

\* Statements time out, so a request does not resolve its principal for ever.  What has been
\* gone for longer than the bound is not told apart.
SsTick ==
  LET older(n, holds) == IF holds THEN 0 ELSE IF n > SsBound THEN n ELSE n + 1 IN
  /\ \A t \in SsThreads : ssThread[t].pc \in SsResolving => ssThread[t].age < SsMaxResolve
  /\ ssThread' = [t \in SsThreads |-> IF ssThread[t].pc \in SsResolving
                                      THEN [ssThread[t] EXCEPT !.age = @ + 1] ELSE ssThread[t]]
  /\ ssCache' = [p \in SsProcesses |-> [s \in SsIds |-> SsAged(ssCache[p][s])]]
  /\ ssGone' = [session |-> [s \in SsIds |-> older(ssGone.session[s], ssRow[s] \in {"none", "live"})],
                user |-> older(ssGone.user, ssUser), member |-> older(ssGone.member, ssMember)]
  /\ UNCHANGED <<ssRow, ssUser, ssMember, ssAdmin>>

\* SESSION_TTL is days, any moment as the rest of the state goes.
SsExpire(s) ==
  /\ ssRow[s] = "live"
  /\ ssRow' = [ssRow EXCEPT ![s] = "expired"]
  /\ UNCHANGED <<ssUser, ssMember, ssCache, ssThread, ssAdmin, ssGone>>

\* get: an entry past its time counts as missing.
SsLookup(t) ==
  /\ ssThread[t].pc = "lookup"
  /\ ssThread' = [ssThread EXCEPT ![t].pc =
       IF ssCache[ssThread[t].process][ssThread[t].sid] # 0 THEN "served" ELSE "session"]
  /\ UNCHANGED <<ssStore, ssCache, ssAdmin>>

\* _authenticate_session: three reads, each of which may refuse the request.
SsRead(t) ==
  LET read(pc, next, holds) ==
        /\ ssThread[t].pc = pc
        /\ ssThread' = [ssThread EXCEPT ![t] = IF holds THEN [@ EXCEPT !.pc = next] ELSE SsFree] IN
  /\ \/ read("session", "user", ssRow[ssThread[t].sid] = "live")
     \/ read("user", "member", ssUser)
     \/ read("member", "put", ssMember)
  /\ UNCHANGED <<ssStore, ssCache, ssAdmin>>

\* put: a cache that other principals have filled is emptied first.
SsPut(t) ==
  LET p == ssThread[t].process  s == ssThread[t].sid IN
  /\ ssThread[t].pc = "put"
  /\ \E kept \in {ssCache[p], [x \in SsIds |-> 0]} :
       ssCache' = [ssCache EXCEPT ![p] = [kept EXCEPT ![s] = SsCacheTtl + 1]]
  /\ ssThread' = [ssThread EXCEPT ![t].pc = "served", ![t].age = 0]
  /\ UNCHANGED <<ssStore, ssAdmin>>

\* revoke and its siblings look at revoked_at alone.
SsOpen == {"live", "expired"}

\* The handler behind the dependency: nothing to do for most, the first read of logout,
\* the check of the current password for change_password (the caller knows it or is refused).
SsServe(t) ==
  LET s == ssThread[t].sid IN
  /\ ssThread[t].pc = "served"
  /\ ssThread' = [ssThread EXCEPT ![t] =
       CASE @.op = "read" -> SsFree
         [] @.op = "logout" -> [@ EXCEPT !.pc = IF ssRow[s] \in SsOpen THEN "write" ELSE "clear",
                                         !.reads = IF ssRow[s] \in SsOpen THEN {s} ELSE {}]
         [] @.op = "change" -> [@ EXCEPT !.pc = "set"]]
  /\ UNCHANGED <<ssStore, ssCache, ssAdmin>>

\* set_password; the password itself is not kept, for a login checks it before any of its
\* steps here.  The sessions open now, but for the caller's, are owed an end.
SsSetPassword(t) ==
  /\ ssThread[t].pc = "set"
  /\ ssThread' = [ssThread EXCEPT ![t].pc = "revoke",
                                  ![t].owed = {s \in SsIds : ssRow[s] \in SsOpen} \ {ssThread[t].sid}]
  /\ UNCHANGED <<ssStore, ssCache, ssAdmin>>

\* revoked_at IS NULL, but for the caller's session.
SsOthers(t) == {s \in SsIds : ssRow[s] \in SsOpen} \ {ssThread[t].sid}

\* revoke_other_sessions for the caller's own change, revoke_all_for_user for an administrator's.
SsReadOthers(t) ==
  /\ ssThread[t].pc = "revoke"
  /\ ssThread' = [ssThread EXCEPT ![t].reads = SsOthers(t),
                                  ![t].pc = IF SsOthers(t) = {} THEN "clear" ELSE "write"]
  /\ UNCHANGED <<ssStore, ssCache, ssAdmin>>

SsRevoke(t) ==
  /\ ssThread[t].pc = "write"
  /\ ssRow' = [s \in SsIds |-> IF s \in ssThread[t].reads THEN "revoked" ELSE ssRow[s]]
  /\ ssThread' = [ssThread EXCEPT ![t].pc = "clear"]
  /\ UNCHANGED <<ssUser, ssMember, ssCache, ssAdmin, ssGone>>

\* invalidate_auth_cache, of this process only.
SsClear(t) ==
  /\ ssThread[t].pc = "clear"
  /\ ssCache' = [ssCache EXCEPT ![ssThread[t].process] = [s \in SsIds |-> 0]]
  /\ ssThread' = [ssThread EXCEPT ![t] = SsFree]
  /\ UNCHANGED <<ssStore, ssAdmin>>

\* create_session, for a login that has checked the password.
SsCreate(t) ==
  /\ ssThread[t].pc = "create"
  /\ \E s \in SsIds :
       /\ ssRow[s] = "none"
       /\ ssRow' = [ssRow EXCEPT ![s] = "live"]
  /\ ssThread' = [ssThread EXCEPT ![t] = SsFree]
  /\ UNCHANGED <<ssUser, ssMember, ssCache, ssAdmin, ssGone>>

SsStep(t) ==
  \/ SsLookup(t) \/ SsRead(t) \/ SsPut(t) \/ SsServe(t) \/ SsSetPassword(t)
  \/ SsReadOthers(t) \/ SsRevoke(t) \/ SsClear(t) \/ SsCreate(t)

\* A request with a token that was handed out arrives at a process.
SsRequest(t, p, s, op) ==
  /\ ssThread[t].pc = "idle" /\ ssRow[s] # "none"
  /\ ssThread' = [ssThread EXCEPT ![t] = [SsFree EXCEPT !.pc = "lookup", !.op = op, !.process = p, !.sid = s]]
  /\ UNCHANGED <<ssStore, ssCache, ssAdmin>>

\* login: verify_login finds the active user and the stored password.
SsLogin(t) ==
  /\ ssThread[t].pc = "idle" /\ ssUser
  /\ \E s \in SsIds : ssRow[s] = "none"
  /\ ssThread' = [ssThread EXCEPT ![t] = [SsFree EXCEPT !.pc = "create", !.op = "login"]]
  /\ UNCHANGED <<ssStore, ssCache, ssAdmin>>

\* delete_user, update_user, remove_member, add_member: the row, then the cache of this process;
\* set_user_password: the password next.
SsAdminister(t, p) ==
  /\ ssThread[t].pc = "idle" /\ ssAdmin < MaxSsAdmin
  /\ ssAdmin' = ssAdmin + 1
  /\ \/ /\ ssUser' = ~ssUser /\ UNCHANGED ssMember
        /\ ssGone' = [ssGone EXCEPT !.user = 0]
        /\ ssThread' = [ssThread EXCEPT ![t] = [SsFree EXCEPT !.pc = "clear", !.op = "end", !.process = p]]
     \/ /\ ssMember' = ~ssMember /\ UNCHANGED ssUser
        /\ ssGone' = [ssGone EXCEPT !.member = 0]
        /\ ssThread' = [ssThread EXCEPT ![t] = [SsFree EXCEPT !.pc = "clear", !.op = "end", !.process = p]]
     \/ /\ UNCHANGED <<ssUser, ssMember, ssGone>>
        /\ ssThread' = [ssThread EXCEPT ![t] = [SsFree EXCEPT !.pc = "set", !.op = "end", !.process = p]]
  /\ UNCHANGED <<ssRow, ssCache>>

SsNext ==
  \/ \E t \in SsThreads : SsStep(t) \/ SsLogin(t)
  \/ \E t \in SsThreads, p \in SsProcesses :
       \/ SsAdminister(t, p)
       \/ \E s \in SsIds, op \in {"read", "logout", "change"} : SsRequest(t, p, s, op)
  \/ \E s \in SsIds : SsExpire(s)
  \/ SsTick

SsSpec == SsInit /\ [][SsNext]_ssVars

-----------------------------------------------------------------------------

\* A request is served only if the session, the user and the membership each held within the
\* time an entry of the cache lives and a principal takes to resolve: the caches of the other
\* processes, and entries put after an invalidation, are stale no longer than that.
RevokedSoonRefused ==
  [][\A t \in SsThreads : ssThread[t].pc # "served" /\ ssThread'[t].pc = "served" =>
       /\ ssGone.session[ssThread[t].sid] <= SsBound
       /\ ssGone.user <= SsBound /\ ssGone.member <= SsBound]_ssVars

\* When a change of the password is about to answer, no session that was open as the new
\* password was stored is left, but for the caller's own: logins, logouts and other changes
\* under way do not save one from the read that the revocation works from.
ChangeEndsOthers ==
  \A t \in SsThreads : ssThread[t].pc = "clear" => \A s \in ssThread[t].owed : ssRow[s] = "revoked"

\* A change of the password leaves no other session of the user open.
SessionsSound == SsTypeOK /\ ChangeEndsOthers

\* Whoever lost access is refused soon, and a new password ends the other sessions.
SessionsKept == []SessionsSound /\ RevokedSoonRefused
=============================================================================

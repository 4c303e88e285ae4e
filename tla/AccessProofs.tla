--------------------------- MODULE AccessProofs ---------------------------
(***************************************************************************)
(* What Users, Sessions, Insights and Rules guarantee whatever the number  *)
(* of requests, processes, runs, sessions, keys, cards and rules: that the *)
(* row of a user is what its changes said, that a session which has ended  *)
(* is soon refused, that a user is given one task about a thing, and that  *)
(* rules and what is sent by them are what was asked for.                  *)
(*                                                                         *)
(* The inductions follow the requests statement by statement.  Rows are    *)
(* written whole and without a lock: those of users and rules claim        *)
(* nothing of a row that two changes overlapped on, and rest on this, that *)
(* what a request saw and nobody has changed since is still so.  That of   *)
(* the sessions carries an age for every request and every entry of the    *)
(* cache, which bounds how long ago what it rests on has ended.            *)
(***************************************************************************)
EXTENDS Sessions, Users, Insights, Rules, Integers, FiniteSetTheorems, TLAPS

-----------------------------------------------------------------------------
(* The row of a user *)

\* A request as it goes through the statements of a change or of a check.
UsRequests ==
  [pc : {"idle", "find", "read", "stamp", "write", "role"},
   op : UsOps \cup {"none", "upgrade"}, key : Nat, term : Nat, to : UsUser, copy : UsUser,
   stamp : Nat, clean : BOOLEAN, answer : UsAnswers]
UsWords == [key : Nat, expires : Nat, alive : BOOLEAN, active : BOOLEAN, org : UsOrgs]

UsTyped ==
  /\ usThread \in [UsThreads -> UsRequests]
  /\ usWord \in UsWords
  /\ usCalm \in BOOLEAN
  /\ \A t \in UsThreads :
       /\ usThread[t].pc \in {"read", "stamp", "write"} => usThread[t].op # "none"
       /\ usThread[t].pc = "read" => usThread[t].op # "upgrade"
       /\ usThread[t].op = "rotate" => usThread[t].key \in 1..usIssued

\* The row is not stamped later than now.
UsStampsPast == usRow.stamp <= usNow

\* A key that is accepted as long as its term lasts.
UsStanding(user) == user.active /\ user.hash # "none" /\ ~user.revoked

\* As long as no two changes overlap there is one at most, it works on the row as it is, and
\* writes it with a time that the row's does not exceed.
UsOneAtATime ==
  usCalm =>
    /\ \A t, u \in UsChanging : t = u
    /\ \A t \in UsThreads :
         /\ usThread[t].pc \in {"stamp", "write"} =>
              /\ usThread[t].copy = usRow.user
              /\ usThread[t].op = "upgrade" => UsStanding(usRow.user)
         /\ usThread[t].pc = "write" => usThread[t].stamp >= usRow.stamp

\* As long as no two changes overlap the row is what the changes said.
UsRowIsWord ==
  usCalm =>
    /\ usRow.user.key = usWord.key
    /\ usRow.user.expires = usWord.expires
    /\ usRow.user.active = usWord.active
    /\ usRow.user.org = usWord.org
    /\ usWord.alive <=> (usRow.user.hash # "none" /\ ~usRow.user.revoked)

\* A request under which nothing has changed has found the organization the user is in.
UsCleanFound ==
  usCalm => \A t \in UsThreads :
    usThread[t].pc = "role" /\ usThread[t].clean => usThread[t].copy.org = usWord.org

\* A request that is under way has not been answered.
UsWaits == \A t \in UsThreads : usThread[t].pc # "idle" => usThread[t].answer = "none"

UsInv ==
  UsTypeOK /\ UsTyped /\ UsStampsPast /\ UsOneAtATime /\ UsRowIsWord /\ UsCleanFound /\ UsWaits

\* A change elsewhere leaves what a request has found, but for its being clean.
LEMMA UsDirtiedIs ==
  ASSUME UsTyped, NEW ts
  PROVE  /\ UsDirtied(ts) \in [UsThreads -> UsRequests]
         /\ \A t \in UsThreads :
              /\ UsDirtied(ts)[t].pc = usThread[t].pc /\ UsDirtied(ts)[t].op = usThread[t].op
              /\ UsDirtied(ts)[t].key = usThread[t].key /\ UsDirtied(ts)[t].to = usThread[t].to
              /\ UsDirtied(ts)[t].copy = usThread[t].copy
              /\ UsDirtied(ts)[t].stamp = usThread[t].stamp
              /\ UsDirtied(ts)[t].answer = usThread[t].answer
         /\ \A t \in UsThreads : UsDirtied(ts)[t].clean => t \in ts /\ usThread[t].clean
<1> DEFINE wiped(t) == [usThread[t] EXCEPT !.clean = FALSE]
<1>1. usThread \in [UsThreads -> UsRequests]
  BY DEF UsTyped
<1>2. \A t \in UsThreads :
        /\ wiped(t) \in UsRequests
        /\ wiped(t).pc = usThread[t].pc /\ wiped(t).op = usThread[t].op
        /\ wiped(t).key = usThread[t].key /\ wiped(t).to = usThread[t].to
        /\ wiped(t).copy = usThread[t].copy /\ wiped(t).stamp = usThread[t].stamp
        /\ wiped(t).answer = usThread[t].answer
  BY <1>1 DEF UsRequests
<1>3. \A t \in UsThreads : wiped(t).clean = FALSE
  BY <1>1 DEF UsRequests
<1>4. UsDirtied(ts) = [t \in UsThreads |-> IF t \in ts THEN usThread[t] ELSE wiped(t)]
  BY DEF UsDirtied
<1> HIDE DEF wiped
<1>5. \A t \in UsThreads : UsDirtied(ts)[t] = IF t \in ts THEN usThread[t] ELSE wiped(t)
  BY <1>4
<1>6. UsDirtied(ts) \in [UsThreads -> UsRequests]
  BY <1>1, <1>2, <1>4
<1>7. \A t \in UsThreads :
              /\ UsDirtied(ts)[t].pc = usThread[t].pc /\ UsDirtied(ts)[t].op = usThread[t].op
              /\ UsDirtied(ts)[t].key = usThread[t].key /\ UsDirtied(ts)[t].to = usThread[t].to
              /\ UsDirtied(ts)[t].copy = usThread[t].copy
              /\ UsDirtied(ts)[t].stamp = usThread[t].stamp
              /\ UsDirtied(ts)[t].answer = usThread[t].answer
  BY <1>2, <1>5
<1>8. \A t \in UsThreads : UsDirtied(ts)[t].clean => t \in ts /\ usThread[t].clean
  BY <1>3, <1>5
<1>. QED BY <1>6, <1>7, <1>8

\* Steps that leave the row, the words and what the requests have found keep what is said of
\* them, also if they make requests not clean.
LEMMA UsFrame ==
  ASSUME UsInv, usThread' \in [UsThreads -> UsRequests],
         \A t \in UsThreads :
           /\ usThread'[t].pc = usThread[t].pc /\ usThread'[t].op = usThread[t].op
           /\ usThread'[t].key = usThread[t].key /\ usThread'[t].copy = usThread[t].copy
           /\ usThread'[t].stamp = usThread[t].stamp /\ usThread'[t].answer = usThread[t].answer
           /\ usThread'[t].clean => usThread[t].clean,
         UNCHANGED <<usRow, usWord, usCalm, usIssued>>
  PROVE  UsTyped' /\ UsOneAtATime' /\ UsRowIsWord' /\ UsCleanFound' /\ UsWaits'
<1>0. UsTyped /\ UsOneAtATime /\ UsRowIsWord /\ UsCleanFound /\ UsWaits
  BY DEF UsInv
<1>1. UsTyped'
  BY <1>0 DEF UsTyped
<1>2. UsChanging' = UsChanging
  BY DEF UsChanging
<1>3. UsOneAtATime'
  BY <1>0, <1>2 DEF UsOneAtATime
<1>4. UsRowIsWord'
  BY <1>0 DEF UsRowIsWord
<1>5. UsCleanFound'
  BY <1>0 DEF UsCleanFound
<1>6. UsWaits'
  BY <1>0 DEF UsWaits
<1>. QED BY <1>1, <1>3, <1>4, <1>5, <1>6

\* The keys, the row and the words stay as they are when a membership changes.
LEMMA UsMembersKeep ==
  ASSUME UsInv, NEW o \in UsOrgs,
         (\E role \in UsRoles : UsGrant(o, role)) \/ UsRemove(o) \/ UsMutation(o)
  PROVE  UsInv'
<1>0. UsTypeOK /\ UsTyped /\ UsStampsPast
  BY DEF UsInv
<1>1. /\ usThread' = UsDirtied({})
      /\ UNCHANGED <<usRow, usNow, usWord, usCalm, usIssued>>
  BY DEF UsGrant, UsRemove, UsMutation, usGhosts
<1>2. UsTyped' /\ UsOneAtATime' /\ UsRowIsWord' /\ UsCleanFound' /\ UsWaits'
  BY <1>0, <1>1, UsDirtiedIs, UsFrame
<1>3. /\ usMember' \in [UsOrgs -> UsRoles \cup {"none"}]
      /\ usDying' \subseteq {x \in UsOrgs : usMember'[x] # "none"}
  <2>1. /\ usMember \in [UsOrgs -> UsRoles \cup {"none"}]
        /\ usDying \subseteq {x \in UsOrgs : usMember[x] # "none"}
    BY <1>0 DEF UsTypeOK
  <2>2. \A role \in UsRoles : role # "none"
    BY DEF UsRoles
  <2>. QED BY <2>1, <2>2 DEF UsGrant, UsRemove, UsMutation
<1>4. usChanges' \in 0..MaxUsChanges
  BY <1>0, UsAssumption DEF UsTypeOK, UsGrant, UsRemove, UsMutation
<1>5. \A t \in UsThreads :
        /\ usThread'[t].pc = usThread[t].pc /\ usThread'[t].copy = usThread[t].copy
        /\ usThread'[t].to = usThread[t].to /\ usThread'[t].stamp = usThread[t].stamp
        /\ usThread'[t].answer = usThread[t].answer
  BY <1>0, <1>1, UsDirtiedIs
<1>6. UsTypeOK'
  BY <1>0, <1>1, <1>3, <1>4, <1>5 DEF UsTypeOK
<1>7. UsStampsPast'
  BY <1>0, <1>1 DEF UsStampsPast
<1>. QED BY <1>2, <1>6, <1>7 DEF UsInv

\* So they do when a second passes.
LEMMA UsTickKeeps ==
  ASSUME UsInv, UsTick
  PROVE  UsInv'
<1>0. UsTypeOK /\ UsTyped /\ UsStampsPast
  BY DEF UsInv
<1>1. /\ usNow' = usNow + 1 /\ usNow < MaxUsSeconds
      /\ UNCHANGED <<usRow, usMember, usDying, usThread, usWord, usCalm, usIssued, usChanges>>
  BY DEF UsTick, usGhosts
<1>2. UsTyped' /\ UsOneAtATime' /\ UsRowIsWord' /\ UsCleanFound' /\ UsWaits'
  BY <1>0, <1>1, UsFrame DEF UsTyped
<1>3. /\ usNow' \in 0..MaxUsSeconds
      /\ \A n \in 0..usNow : n \in 0..usNow'
      /\ usRow.stamp <= usNow'
  <2>1. usNow \in Int /\ 0 <= usNow /\ usRow.stamp \in Int /\ usRow.stamp <= usNow
    BY <1>0 DEF UsTypeOK, UsStampsPast
  <2>. QED BY <1>1, <2>1, UsAssumption
<1>4. UsTypeOK'
  BY <1>0, <1>1, <1>3 DEF UsTypeOK
<1>5. UsStampsPast'
  BY <1>1, <1>3 DEF UsStampsPast
<1>. QED BY <1>2, <1>4, <1>5 DEF UsInv

-----------------------------------------------------------------------------
\* A request that waits, and the user that is created, are of their types.
LEMMA UsIdleTyped ==
  /\ UsIdle \in UsRequests
  /\ UsIdle.pc = "idle" /\ UsIdle.op = "none" /\ UsIdle.key = 0 /\ UsIdle.stamp = 0
  /\ ~UsIdle.clean /\ UsIdle.answer = "none"
  /\ UsIdle.copy \in UsUser /\ UsIdle.to \in UsUser
<1>1. UsCreated("scrypt", UsNever) \in UsUser
  BY UsAssumption DEF UsCreated, UsUser, UsNever
<1>2. UsIdle \in UsRequests /\ ~UsIdle.clean /\ UsIdle.answer = "none"
  BY <1>1 DEF UsIdle, UsRequests, UsOps, UsAnswers
<1>3. /\ UsIdle.pc = "idle" /\ UsIdle.op = "none" /\ UsIdle.key = 0 /\ UsIdle.stamp = 0
      /\ UsIdle.copy \in UsUser /\ UsIdle.to \in UsUser
  BY <1>1 DEF UsIdle
<1>. QED BY <1>2, <1>3

\* A step of one request leaves the types if what the request becomes has them.
LEMMA UsOneTyped ==
  ASSUME UsInv, NEW t \in UsThreads, NEW n \in UsRequests,
         n.stamp \in 0..usNow,
         n.pc \in {"read", "stamp", "write"} => n.op # "none",
         n.pc = "read" => n.op # "upgrade",
         n.op = "rotate" => n.key \in 1..usIssued',
         usThread'[t] = n, usThread' \in [UsThreads -> UsRequests],
         \A u \in UsThreads \ {t} :
           /\ usThread'[u].pc = usThread[u].pc /\ usThread'[u].op = usThread[u].op
           /\ usThread'[u].key = usThread[u].key /\ usThread'[u].stamp = usThread[u].stamp,
         usIssued' \in 1..MaxUsKeys, usIssued <= usIssued', usCalm' \in BOOLEAN,
         usWord' \in UsWords,
         usChanges' \in 0..MaxUsChanges,
         usRow' \in [user : UsUser, stamp : 0..MaxUsSeconds],
         UNCHANGED <<usNow, usMember, usDying>>
  PROVE  UsTypeOK' /\ UsTyped'
<1>0. UsTypeOK /\ UsTyped
  BY DEF UsInv
<1>1. \A u \in UsThreads :
        /\ usThread'[u].pc \in {"read", "stamp", "write"} => usThread'[u].op # "none"
        /\ usThread'[u].pc = "read" => usThread'[u].op # "upgrade"
  BY <1>0 DEF UsTyped
<1>2. \A u \in UsThreads : usThread'[u].op = "rotate" => usThread'[u].key \in 1..usIssued'
  <2>1. usIssued \in Int /\ usIssued' \in Int /\ usIssued <= usIssued'
    BY <1>0 DEF UsTypeOK
  <2>2. \A k \in 1..usIssued : k \in 1..usIssued'
    BY <2>1
  <2>. QED BY <1>0, <2>2 DEF UsTyped
<1>3. UsTyped'
  BY <1>1, <1>2 DEF UsTyped
<1>4. \A u \in UsThreads :
        /\ usThread'[u].pc \in {"idle", "find", "read", "stamp", "write", "role"}
        /\ usThread'[u].copy \in UsUser /\ usThread'[u].to \in UsUser
        /\ usThread'[u].answer \in UsAnswers
  BY DEF UsRequests
<1>5. \A u \in UsThreads : usThread'[u].stamp \in 0..usNow'
  BY <1>0 DEF UsTypeOK
<1>6. UsTypeOK'
  BY <1>0, <1>4, <1>5 DEF UsTypeOK
<1>. QED BY <1>3, <1>6

\* A change begins: if no other is under way it is the one.
LEMMA UsBeginKeeps ==
  ASSUME UsInv, NEW t \in UsThreads, NEW op \in UsOps, NEW to \in UsUser, NEW term \in Nat,
         UsBegin(t, op, to, term)
  PROVE  UsInv'
<1> DEFINE n == [UsIdle EXCEPT !.pc = "read", !.op = op, !.key = usIssued', !.to = to, !.term = term]
<1>0. UsTypeOK /\ UsTyped /\ UsStampsPast /\ UsRowIsWord
  BY DEF UsInv
<1>1. /\ usIssued \in 1..MaxUsKeys /\ usIssued' \in 1..MaxUsKeys /\ usIssued <= usIssued'
      /\ usIssued' \in Nat
  BY <1>0, UsAssumption DEF UsTypeOK, UsBegin
<1>2. /\ n \in UsRequests /\ n.pc = "read" /\ n.op = op /\ n.key = usIssued' /\ n.stamp = 0
  BY <1>1, UsIdleTyped DEF UsRequests
<1>3. ~n.clean /\ n.answer = "none"
  BY UsIdleTyped DEF UsRequests
<1>4. /\ usThread' = [UsDirtied({}) EXCEPT ![t] = n]
      /\ usCalm' = (usCalm /\ UsChanging = {})
      /\ UNCHANGED <<usRow, usNow, usMember, usDying, usWord>>
  BY DEF UsBegin
<1>5. usChanges' \in 0..MaxUsChanges /\ usCalm' \in BOOLEAN
  BY <1>0, UsAssumption DEF UsTypeOK, UsBegin
<1> HIDE DEF n
<1>6. /\ usThread' \in [UsThreads -> UsRequests] /\ usThread'[t] = n
      /\ \A u \in UsThreads \ {t} :
           /\ usThread'[u].pc = usThread[u].pc /\ usThread'[u].op = usThread[u].op
           /\ usThread'[u].key = usThread[u].key /\ usThread'[u].stamp = usThread[u].stamp
           /\ ~usThread'[u].clean /\ usThread'[u].answer = usThread[u].answer
  BY <1>0, <1>2, <1>4, UsDirtiedIs
<1>7. UsTypeOK' /\ UsTyped'
  <2>1. n.stamp \in 0..usNow /\ n.op # "none" /\ n.op # "upgrade" /\ n.key \in 1..usIssued'
    BY <1>0, <1>1, <1>2 DEF UsOps, UsTypeOK
  <2>2. /\ usWord' \in UsWords
        /\ usRow' \in [user : UsUser, stamp : 0..MaxUsSeconds]
    BY <1>0, <1>4 DEF UsTypeOK, UsTyped
  <2>. QED BY <1>1, <1>2, <1>4, <1>5, <1>6, <2>1, <2>2, UsOneTyped
<1>8. UsStampsPast' /\ UsRowIsWord'
  BY <1>0, <1>4 DEF UsStampsPast, UsRowIsWord
<1>9. UsOneAtATime'
  <2>1. usCalm' => \A u \in UsThreads \ {t} : usThread'[u].pc \notin {"read", "stamp", "write"}
    BY <1>4, <1>6 DEF UsChanging
  <2>. QED BY <1>2, <1>6, <2>1 DEF UsOneAtATime, UsChanging
<1>10. UsCleanFound'
  BY <1>3, <1>6 DEF UsCleanFound
<1>11. UsWaits'
  BY <1>3, <1>6 DEF UsInv, UsWaits
<1>. QED BY <1>7, <1>8, <1>9, <1>10, <1>11 DEF UsInv

\* It reads the row, and takes the time.
LEMMA UsReadKeeps ==
  ASSUME UsInv, NEW t \in UsThreads, UsRead(t) \/ UsStamp(t)
  PROVE  UsInv'
<1>0. UsTypeOK /\ UsTyped /\ UsStampsPast /\ UsRowIsWord /\ UsOneAtATime /\ UsCleanFound
  BY DEF UsInv
<1>1. /\ usThread \in [UsThreads -> UsRequests]
      /\ usRow.user \in UsUser /\ usRow.stamp \in Nat /\ usNow \in Nat
      /\ usThread[t].stamp \in 0..usNow
  BY <1>0, UsAssumption DEF UsTypeOK, UsTyped
<1>2. /\ UNCHANGED <<usRow, usNow, usMember, usDying, usWord, usCalm, usIssued, usChanges>>
      /\ \A u \in UsThreads \ {t} : usThread'[u] = usThread[u]
  BY <1>1 DEF UsRead, UsStamp, usGhosts
<1>3. /\ usThread' \in [UsThreads -> UsRequests]
      /\ usThread'[t].op = usThread[t].op /\ usThread'[t].key = usThread[t].key
  BY <1>1 DEF UsRead, UsStamp, UsRequests
<1>4. \/ /\ usThread[t].pc = "read" /\ usThread'[t].pc = "stamp"
         /\ usThread'[t].copy = usRow.user /\ usThread'[t].stamp = usThread[t].stamp
      \/ /\ usThread[t].pc = "stamp" /\ usThread'[t].pc = "write"
         /\ usThread'[t].copy = usThread[t].copy /\ usThread'[t].stamp = usNow
  BY <1>1 DEF UsRead, UsStamp, UsRequests, UsAt
<1>a. usThread'[t].answer = usThread[t].answer
  BY <1>1 DEF UsRead, UsStamp, UsRequests
<1>5. UsTypeOK' /\ UsTyped'
  <2>1. usThread'[t] \in UsRequests /\ usThread'[t].stamp \in 0..usNow
    BY <1>1, <1>3, <1>4
  <2>2. /\ usThread'[t].pc \in {"read", "stamp", "write"} => usThread'[t].op # "none"
        /\ usThread'[t].pc = "read" => usThread'[t].op # "upgrade"
        /\ usThread'[t].op = "rotate" => usThread'[t].key \in 1..usIssued'
    BY <1>0, <1>2, <1>3, <1>4 DEF UsTyped
  <2>3. /\ usIssued' \in 1..MaxUsKeys /\ usIssued <= usIssued' /\ usCalm' \in BOOLEAN
        /\ usChanges' \in 0..MaxUsChanges
        /\ usWord' \in UsWords
        /\ usRow' \in [user : UsUser, stamp : 0..MaxUsSeconds]
    BY <1>0, <1>2, UsAssumption DEF UsTypeOK, UsTyped
  <2>. QED BY <1>2, <1>3, <2>1, <2>2, <2>3, UsOneTyped
<1>6. UsStampsPast' /\ UsRowIsWord'
  BY <1>0, <1>2 DEF UsStampsPast, UsRowIsWord
<1>7. UsChanging' = UsChanging
  BY <1>2, <1>4 DEF UsChanging
<1>8. UsOneAtATime'
  <2>1. usThread[t].pc = "read" => usThread[t].op # "upgrade"
    BY <1>0 DEF UsTyped
  <2>2. usRow.stamp <= usNow
    BY <1>0 DEF UsStampsPast
  <2>. QED BY <1>0, <1>2, <1>3, <1>4, <1>7, <2>1, <2>2 DEF UsOneAtATime
<1>9. UsCleanFound'
  BY <1>0, <1>2, <1>4 DEF UsCleanFound
<1>10. UsWaits'
  BY <1>2, <1>4, <1>a DEF UsInv, UsWaits
<1>. QED BY <1>5, <1>6, <1>8, <1>9, <1>10 DEF UsInv

\* What a change writes and what it says of the user agree, if the row it has read and what
\* was said before do, and an old digest is replaced only for a key that is accepted.
LEMMA UsWrittenIsSaid ==
  ASSUME UsTyped, NEW op \in UsOps \cup {"upgrade"}, NEW user \in UsUser, NEW key \in 1..MaxUsKeys,
         NEW expires \in Nat, NEW to \in UsUser
  PROVE  /\ UsWritten(op, user, key, expires, to) \in UsUser
         /\ UsSaid(op, key, expires, to) \in UsWords
         /\ /\ user.key = usWord.key /\ user.expires = usWord.expires /\ user.active = usWord.active
            /\ user.org = usWord.org
            /\ usWord.alive <=> (user.hash # "none" /\ ~user.revoked)
            /\ op = "upgrade" => usWord.alive
            => /\ UsWritten(op, user, key, expires, to).key = UsSaid(op, key, expires, to).key
               /\ UsWritten(op, user, key, expires, to).expires
                    = UsSaid(op, key, expires, to).expires
               /\ UsWritten(op, user, key, expires, to).active = UsSaid(op, key, expires, to).active
               /\ UsWritten(op, user, key, expires, to).org = UsSaid(op, key, expires, to).org
               /\ UsSaid(op, key, expires, to).alive <=> (/\ UsWritten(op, user, key, expires, to).hash # "none"
                                                 /\ ~UsWritten(op, user, key, expires, to).revoked)
<1>1. usWord \in UsWords /\ key \in Nat
  BY UsAssumption DEF UsTyped
<1>2. CASE op = "update"
  <2>1. /\ UsWritten(op, user, key, expires, to) = [user EXCEPT !.active = to.active, !.org = to.org]
        /\ UsSaid(op, key, expires, to) = [usWord EXCEPT !.active = to.active, !.org = to.org]
    BY <1>2 DEF UsWritten, UsSaid
  <2>. QED BY <1>1, <1>2, <2>1 DEF UsUser, UsWords
<1>3. CASE op = "rotate"
  <2>1. /\ UsWritten(op, user, key, expires, to)
             = [user EXCEPT !.key = key, !.hash = "scrypt", !.expires = expires,
                            !.revoked = FALSE]
        /\ UsSaid(op, key, expires, to)
             = [usWord EXCEPT !.key = key, !.expires = expires, !.alive = TRUE]
    BY <1>3 DEF UsWritten, UsSaid, UsRotated
  <2> DEFINE w == UsWritten(op, user, key, expires, to)
             said == UsSaid(op, key, expires, to)
  <2>2. /\ w \in UsUser /\ w.key = key /\ w.expires = expires /\ w.active = user.active
        /\ w.org = user.org /\ w.hash = "scrypt" /\ ~w.revoked
    BY <2>1 DEF UsUser
  <2>3. /\ said \in UsWords /\ said.key = key /\ said.expires = expires
        /\ said.active = usWord.active /\ said.org = usWord.org /\ said.alive
    BY <1>1, <2>1 DEF UsWords
  <2> HIDE DEF w, said
  <2>. QED BY <2>2, <2>3 DEF w, said
<1>4. CASE op = "revoke"
  <2>1. /\ UsWritten(op, user, key, expires, to) = [user EXCEPT !.hash = "none", !.revoked = TRUE]
        /\ UsSaid(op, key, expires, to) = [usWord EXCEPT !.alive = FALSE]
    BY <1>4 DEF UsWritten, UsSaid
  <2>. QED BY <1>1, <1>4, <2>1 DEF UsUser, UsWords
<1>5. CASE op = "delete"
  <2>1. /\ UsWritten(op, user, key, expires, to)
             = [user EXCEPT !.hash = "none", !.revoked = TRUE, !.active = FALSE]
        /\ UsSaid(op, key, expires, to) = [usWord EXCEPT !.alive = FALSE, !.active = FALSE]
    BY <1>5 DEF UsWritten, UsSaid
  <2>. QED BY <1>1, <1>5, <2>1 DEF UsUser, UsWords
<1>6. CASE op = "upgrade"
  <2>1. /\ UsWritten(op, user, key, expires, to) = [user EXCEPT !.hash = "scrypt"]
        /\ UsSaid(op, key, expires, to) = usWord
    BY <1>6 DEF UsWritten, UsSaid
  <2>. QED BY <1>1, <1>6, <2>1 DEF UsUser, UsWords
<1>. QED BY <1>2, <1>3, <1>4, <1>5, <1>6 DEF UsOps

\* And it writes the row: alone, it makes the row what it says.
LEMMA UsWriteKeeps ==
  ASSUME UsInv, NEW t \in UsThreads, UsWrite(t)
  PROVE  UsInv'
<1> DEFINE th == usThread[t]
           n == IF th.op = "upgrade" THEN [th EXCEPT !.pc = "role"] ELSE UsIdle
           expires == UsExpiry(th.stamp, th.term)
           written == UsWritten(th.op, th.copy, th.key, expires, th.to)
<1>0. UsTypeOK /\ UsTyped /\ UsStampsPast /\ UsRowIsWord /\ UsOneAtATime /\ UsCleanFound
  BY DEF UsInv
<1>1. /\ th \in UsRequests /\ th.pc = "write" /\ th.copy \in UsUser /\ th.to \in UsUser
      /\ th.op \in UsOps \cup {"upgrade"} /\ th.stamp \in 0..usNow
      /\ th.op = "rotate" => th.key \in 1..MaxUsKeys
  BY <1>0, UsAssumption DEF UsTypeOK, UsTyped, UsWrite, UsAt, UsRequests
<1>2. /\ usRow' = IF th.stamp >= usRow.stamp THEN [user |-> written, stamp |-> th.stamp] ELSE usRow
      /\ usWord' = UsSaid(th.op, th.key, expires, th.to)
      /\ usThread' = [UsDirtied({t}) EXCEPT ![t] = n]
      /\ UNCHANGED <<usNow, usMember, usDying, usCalm, usIssued, usChanges>>
  BY DEF UsWrite
<1>e. expires \in Nat
  BY <1>1, UsAssumption DEF UsRequests, UsExpiry, UsNever
<1> HIDE DEF expires
<1>3. PICK key \in 1..MaxUsKeys : th.op = "rotate" => key = th.key
  BY <1>1, UsAssumption
<1>4. /\ written = UsWritten(th.op, th.copy, key, expires, th.to)
      /\ UsSaid(th.op, th.key, expires, th.to) = UsSaid(th.op, key, expires, th.to)
  BY <1>1, <1>3 DEF UsWritten, UsSaid, UsOps
<1>5. /\ n \in UsRequests /\ n.stamp \in 0..usNow
      /\ n.pc \in {"role", "idle"} /\ n.op # "rotate"
      /\ n.pc = "role" => th.op = "upgrade" /\ n.copy = th.copy
      /\ n.answer = "none"
  <2>1. CASE th.op = "upgrade"
    BY <1>0, <1>1, <2>1 DEF UsRequests, UsInv, UsWaits
  <2>2. CASE th.op # "upgrade"
    BY <1>0, <2>2, UsIdleTyped DEF UsTypeOK
  <2>. QED BY <2>1, <2>2
<1>6. /\ usNow \in Int /\ 0 <= usNow /\ usNow <= MaxUsSeconds /\ MaxUsSeconds \in Int
      /\ usRow.stamp \in Int /\ usRow.stamp <= usNow
      /\ usRow \in [user : UsUser, stamp : 0..MaxUsSeconds]
  BY <1>0, UsAssumption DEF UsTypeOK, UsStampsPast
<1> HIDE DEF n, written
<1>7. /\ usThread' \in [UsThreads -> UsRequests] /\ usThread'[t] = n
      /\ \A u \in UsThreads \ {t} :
           /\ usThread'[u].pc = usThread[u].pc /\ usThread'[u].op = usThread[u].op
           /\ usThread'[u].key = usThread[u].key /\ usThread'[u].stamp = usThread[u].stamp
           /\ usThread'[u].copy = usThread[u].copy
           /\ ~usThread'[u].clean /\ usThread'[u].answer = usThread[u].answer
  BY <1>0, <1>2, <1>5, UsDirtiedIs
<1>8. written \in UsUser
      /\ usWord' \in UsWords
  BY <1>0, <1>1, <1>2, <1>4, <1>e, UsWrittenIsSaid
<1>9. usRow' \in [user : UsUser, stamp : 0..MaxUsSeconds] /\ usRow'.stamp <= usNow
  <2>1. th.stamp \in 0..MaxUsSeconds /\ th.stamp <= usNow
    BY <1>1, <1>6
  <2>2. [user |-> written, stamp |-> th.stamp] \in [user : UsUser, stamp : 0..MaxUsSeconds]
    BY <1>8, <2>1
  <2>. QED BY <1>2, <1>6, <2>1, <2>2
<1>10. UsTypeOK' /\ UsTyped'
  <2>1. /\ usIssued' \in 1..MaxUsKeys /\ usIssued <= usIssued' /\ usCalm' \in BOOLEAN
        /\ usChanges' \in 0..MaxUsChanges
    BY <1>0, <1>2, UsAssumption DEF UsTypeOK, UsTyped
  <2>. QED BY <1>2, <1>5, <1>7, <1>8, <1>9, <2>1, UsOneTyped
<1>11. UsStampsPast'
  BY <1>2, <1>9 DEF UsStampsPast
<1>12. UsOneAtATime'
  <2>1. usCalm => \A u \in UsThreads \ {t} : usThread[u].pc \notin {"read", "stamp", "write"}
    BY <1>0, <1>1 DEF UsOneAtATime, UsChanging
  <2>2. usCalm' => \A u \in UsThreads : usThread'[u].pc \notin {"read", "stamp", "write"}
    BY <1>2, <1>5, <1>7, <2>1
  <2>. QED BY <2>2 DEF UsOneAtATime, UsChanging
<1>13. usCalm =>
         /\ th.copy = usRow.user /\ usRow' = [user |-> written, stamp |-> th.stamp]
         /\ th.op = "upgrade" => UsStanding(usRow.user)
  BY <1>0, <1>1, <1>2 DEF UsOneAtATime
<1>14. UsRowIsWord'
  <2> SUFFICES ASSUME usCalm
               PROVE  /\ usRow'.user.key = usWord'.key
                      /\ usRow'.user.expires = usWord'.expires
                      /\ usRow'.user.active = usWord'.active
                      /\ usRow'.user.org = usWord'.org
                      /\ usWord'.alive <=> (usRow'.user.hash # "none" /\ ~usRow'.user.revoked)
    BY <1>2 DEF UsRowIsWord
  <2>1. /\ th.copy.key = usWord.key /\ th.copy.expires = usWord.expires
        /\ th.copy.active = usWord.active /\ th.copy.org = usWord.org
        /\ usWord.alive <=> (th.copy.hash # "none" /\ ~th.copy.revoked)
    BY <1>0, <1>13 DEF UsRowIsWord
  <2>2. th.op = "upgrade" => usWord.alive
    BY <1>13, <2>1 DEF UsStanding
  <2>3. usRow'.user = written
    BY <1>13
  <2>. QED BY <1>0, <1>1, <1>2, <1>4, <2>1, <2>2, <2>3, <1>e, UsWrittenIsSaid
<1>15. UsCleanFound'
  <2>1. usCalm /\ th.op = "upgrade" => th.copy.org = usWord.org /\ usWord' = usWord
    BY <1>0, <1>2, <1>13 DEF UsRowIsWord, UsSaid
  <2>. QED BY <1>2, <1>5, <1>7, <2>1 DEF UsCleanFound
<1>16. UsWaits'
  BY <1>5, <1>7 DEF UsInv, UsWaits
<1>. QED BY <1>10, <1>11, <1>12, <1>14, <1>15, <1>16 DEF UsInv

\* A request that is not changing the row becomes n: it has found the row or nothing.
LEMMA UsCheckKeeps ==
  ASSUME UsInv, NEW t \in UsThreads, NEW n \in UsRequests,
         usThread' = [usThread EXCEPT ![t] = n],
         usThread[t].pc \notin {"read", "stamp", "write"},
         UNCHANGED <<usRow, usNow, usMember, usDying, usWord, usIssued, usChanges>>,
         usCalm' \in BOOLEAN, usCalm' => usCalm,
         n.stamp \in 0..usNow, n.pc \in {"idle", "find", "stamp", "role"},
         n.op \in {"none", "upgrade"}, n.pc # "idle" => n.answer = "none",
         n.pc = "stamp" => n.op = "upgrade" /\ UsStanding(usRow.user),
         n.pc \in {"stamp", "role"} => n.copy = usRow.user,
         n.pc = "stamp" /\ usCalm' => UsChanging = {}
  PROVE  UsInv'
<1>0. UsTypeOK /\ UsTyped /\ UsStampsPast /\ UsRowIsWord /\ UsOneAtATime /\ UsCleanFound
  BY DEF UsInv
<1>1. /\ usThread' \in [UsThreads -> UsRequests] /\ usThread'[t] = n
      /\ \A u \in UsThreads \ {t} : usThread'[u] = usThread[u]
  BY <1>0 DEF UsTyped
<1>2. UsTypeOK' /\ UsTyped'
  <2>1. /\ usIssued' \in 1..MaxUsKeys /\ usIssued <= usIssued' /\ usChanges' \in 0..MaxUsChanges
        /\ usWord' \in UsWords
        /\ usRow' \in [user : UsUser, stamp : 0..MaxUsSeconds]
    BY <1>0, UsAssumption DEF UsTypeOK, UsTyped
  <2>2. /\ n.pc \in {"read", "stamp", "write"} => n.op # "none"
        /\ n.pc = "read" => n.op # "upgrade"
        /\ n.op = "rotate" => n.key \in 1..usIssued'
    OBVIOUS
  <2>. QED BY <1>1, <2>1, <2>2, UsOneTyped
<1>3. UsStampsPast' /\ UsRowIsWord'
  BY <1>0 DEF UsStampsPast, UsRowIsWord
<1>4. UsOneAtATime'
  <2>1. \A u \in UsThreads \ {t} : u \in UsChanging' <=> u \in UsChanging
    BY <1>1 DEF UsChanging
  <2>2. t \in UsChanging' => n.pc = "stamp"
    BY <1>1 DEF UsChanging
  <2>3. usCalm' => \A u, v \in UsChanging' : u = v
    BY <1>0, <2>1, <2>2 DEF UsOneAtATime, UsChanging
  <2>. QED BY <1>0, <1>1, <2>3 DEF UsOneAtATime
<1>5. UsCleanFound'
  BY <1>0, <1>1 DEF UsCleanFound, UsRowIsWord
<1>6. UsWaits'
  BY <1>1 DEF UsInv, UsWaits
<1>. QED BY <1>2, <1>3, <1>4, <1>5, <1>6 DEF UsInv

\* A request with a key begins.
LEMMA UsRequestKeeps ==
  ASSUME UsInv, NEW t \in UsThreads, NEW key \in 1..MaxUsKeys, UsRequest(t, key)
  PROVE  UsInv'
<1> DEFINE alone == UsChanging = {}
           n == [UsIdle EXCEPT !.pc = "find", !.key = key, !.clean = alone]
<1>1. n \in UsRequests /\ n.pc = "find" /\ n.op = "none" /\ n.stamp = 0
      /\ n.answer = "none"
  <2>1. alone \in BOOLEAN /\ key \in Nat
    BY UsAssumption
  <2> HIDE DEF alone
  <2>. QED BY <2>1, UsIdleTyped DEF UsRequests
<1>2. /\ usThread' = [usThread EXCEPT ![t] = n] /\ usThread[t].pc = "idle"
      /\ UNCHANGED <<usRow, usNow, usMember, usDying, usWord, usCalm, usIssued, usChanges>>
  BY DEF UsRequest, UsAt, usGhosts
<1>3. 0 \in 0..usNow /\ usCalm \in BOOLEAN
  BY DEF UsInv, UsTypeOK, UsTyped
<1> HIDE DEF n
<1>. QED BY <1>1, <1>2, <1>3, UsCheckKeeps

\* It finds the row: it is refused, let in, or let in once an old digest is replaced.
LEMMA UsFindKeeps ==
  ASSUME UsInv, NEW t \in UsThreads, UsFind(t)
  PROVE  UsInv'
<1> DEFINE accepted == UsAccepts(usRow.user, usThread[t].key, usNow)
           legacy == usRow.user.hash = "sha256"
           found == [usThread[t] EXCEPT !.copy = usRow.user,
                                        !.op = IF legacy THEN "upgrade" ELSE "none",
                                        !.pc = IF legacy THEN "stamp" ELSE "role"]
           no == [UsIdle EXCEPT !.answer = "refused"]
           n == IF ~accepted THEN no ELSE found
<1>1. /\ usThread' = [usThread EXCEPT ![t] = n] /\ usThread[t].pc = "find"
      /\ usCalm' = (usCalm /\ (accepted /\ legacy => UsChanging = {}))
      /\ UNCHANGED <<usRow, usNow, usMember, usDying, usWord, usIssued, usChanges>>
  BY DEF UsFind, UsAt
<1>2. /\ usThread[t] \in UsRequests /\ usRow.user \in UsUser
      /\ usThread[t].stamp \in 0..usNow /\ 0 \in 0..usNow /\ usCalm \in BOOLEAN
  BY DEF UsInv, UsTypeOK, UsTyped
<1>3. /\ found \in UsRequests /\ found.stamp = usThread[t].stamp /\ found.copy = usRow.user
      /\ found.pc = IF legacy THEN "stamp" ELSE "role"
      /\ found.op = IF legacy THEN "upgrade" ELSE "none"
      /\ found.answer = usThread[t].answer /\ usThread[t].answer = "none"
  BY <1>1, <1>2 DEF UsRequests, UsInv, UsWaits
<1>4. accepted => UsStanding(usRow.user)
  BY DEF UsAccepts, UsStanding
<1>5. /\ n \in UsRequests /\ n.stamp \in 0..usNow
      /\ n.pc \in {"idle", "find", "stamp", "role"} /\ n.op \in {"none", "upgrade"}
      /\ n.pc = "stamp" => n.op = "upgrade" /\ accepted /\ legacy
      /\ n.pc \in {"stamp", "role"} => n.copy = usRow.user
      /\ n.pc # "idle" => n.answer = "none"
  <2>0. no \in UsRequests /\ no.pc = "idle" /\ no.op = "none" /\ no.stamp = 0
    BY UsIdleTyped DEF UsRequests, UsAnswers
  <2> HIDE DEF found, no
  <2>1. CASE accepted
    BY <1>2, <1>3, <2>1
  <2>2. CASE ~accepted
    BY <1>2, <2>0, <2>2
  <2>. QED BY <2>1, <2>2
<1>6. usCalm' \in BOOLEAN /\ (usCalm' => usCalm) /\ (n.pc = "stamp" /\ usCalm' => UsChanging = {})
  <2> HIDE DEF n, accepted, legacy
  <2>. QED BY <1>1, <1>2, <1>5
<1> HIDE DEF n
<1>7. n.pc = "stamp" => n.op = "upgrade" /\ UsStanding(usRow.user)
  BY <1>4, <1>5
<1>. QED BY <1>1, <1>5, <1>6, <1>7, UsCheckKeeps

\* It reads the role, and is answered.
LEMMA UsRoleKeeps ==
  ASSUME UsInv, NEW t \in UsThreads, UsRole(t)
  PROVE  UsInv'
<1> DEFINE n == [UsIdle EXCEPT !.answer = UsPlaced(usThread[t].copy.org)]
<1>1. /\ usThread' = [usThread EXCEPT ![t] = n] /\ usThread[t].pc = "role"
      /\ UNCHANGED <<usRow, usNow, usMember, usDying, usWord, usCalm, usIssued, usChanges>>
  BY DEF UsRole, UsAt, usGhosts
<1>2. 0 \in 0..usNow /\ usCalm \in BOOLEAN
  BY DEF UsInv, UsTypeOK, UsTyped
<1>3. UsPlaced(usThread[t].copy.org) \in UsAnswers
  <2>1. /\ usThread[t].copy.org \in UsOrgs /\ usMember \in [UsOrgs -> UsRoles \cup {"none"}]
    BY DEF UsInv, UsTypeOK, UsUser
  <2>. QED BY <2>1 DEF UsPlaced, UsAnswers
<1>4. n \in UsRequests /\ n.pc = "idle" /\ n.op = "none" /\ n.stamp = 0
  BY <1>3, UsIdleTyped DEF UsRequests
<1> HIDE DEF n
<1>. QED BY <1>1, <1>2, <1>4, UsCheckKeeps

\* What every step keeps of the users.
LEMMA UsInductive ==
  ASSUME UsInv, [UsNext]_usVars
  PROVE  UsInv'
<1>1. ASSUME NEW t \in UsThreads, NEW op \in UsOps, NEW active \in BOOLEAN, NEW o \in UsOrgs,
             NEW term \in UsTerms \cup {0},
             UsBegin(t, op, [usRow.user EXCEPT !.active = active, !.org = o], term)
      PROVE  UsInv'
  <2>1. [usRow.user EXCEPT !.active = active, !.org = o] \in UsUser
    BY DEF UsInv, UsTypeOK, UsUser
  <2>2. term \in Nat
    BY UsAssumption
  <2>. QED BY <1>1, <2>1, <2>2, UsBeginKeeps
<1>2. CASE UNCHANGED usVars
  <2>1. UsTypeOK' /\ UsStampsPast'
    BY <1>2 DEF usVars, UsInv, UsTypeOK, UsStampsPast
  <2>2. UsTyped' /\ UsOneAtATime' /\ UsRowIsWord' /\ UsCleanFound' /\ UsWaits'
    BY <1>2, UsFrame DEF usVars, UsInv, UsTyped
  <2>. QED BY <2>1, <2>2 DEF UsInv
<1>3. CASE UsNext
  BY <1>1, <1>3, UsReadKeeps, UsWriteKeeps, UsRequestKeeps, UsFindKeeps, UsRoleKeeps,
     UsMembersKeep, UsTickKeeps
  DEF UsNext
<1>. QED BY <1>2, <1>3

\* A user begins with a key that is accepted and no request under way.
LEMMA UsStarts ==
  ASSUME UsInit
  PROVE  UsInv
<1>1. \A hash \in {"sha256", "scrypt"}, expires \in Nat :
        LET user == UsCreated(hash, expires) IN
        /\ user \in UsUser
        /\ user.key = 1 /\ user.org = UsHome /\ user.hash = hash /\ user.expires = expires
        /\ user.active /\ ~user.revoked
  BY UsAssumption DEF UsCreated, UsUser
<1>e. \A term \in UsTerms : UsExpiry(0, term) \in Nat
  BY UsAssumption DEF UsExpiry, UsNever
<1>2. PICK hash \in {"sha256", "scrypt"}, expires \in Nat :
        /\ usRow = [user |-> UsCreated(hash, expires), stamp |-> 0]
        /\ usWord = [key |-> 1, expires |-> expires, alive |-> TRUE, active |-> TRUE,
                     org |-> UsHome]
  BY <1>e DEF UsInit
<1>4. /\ usNow = 0 /\ usCalm = TRUE /\ usIssued = 1 /\ usChanges = 0 /\ usDying = {}
      /\ usThread = [t \in UsThreads |-> UsIdle]
      /\ usMember = [o \in UsOrgs |-> IF o = UsHome THEN "admin" ELSE "none"]
  BY DEF UsInit
<1>5. /\ usWord \in UsWords
      /\ usWord.key = 1 /\ usWord.alive /\ usWord.active /\ usWord.org = UsHome
      /\ usWord.expires = expires
  BY <1>2, UsAssumption DEF UsWords
<1>6. /\ usRow \in [user : UsUser, stamp : 0..MaxUsSeconds]
      /\ usRow.stamp = 0 /\ usRow.user = UsCreated(hash, expires)
  BY <1>1, <1>2, UsAssumption
<1>7. UsTypeOK
  <2>1. usMember \in [UsOrgs -> UsRoles \cup {"none"}] /\ usDying \subseteq UsOrgs
    BY <1>4 DEF UsRoles
  <2>. QED BY <1>4, <1>6, <2>1, UsIdleTyped, UsAssumption DEF UsTypeOK, UsAnswers
<1>8. UsTyped /\ UsStampsPast /\ UsCleanFound
  BY <1>4, <1>5, <1>6, UsIdleTyped DEF UsTyped, UsStampsPast, UsCleanFound
<1>9. UsOneAtATime /\ UsWaits
  <2>1. \A t \in UsThreads : usThread[t].pc = "idle"
    BY <1>4, UsIdleTyped
  <2>. QED BY <2>1 DEF UsOneAtATime, UsChanging, UsWaits
<1>10. UsRowIsWord
  <2> DEFINE user == UsCreated(hash, expires)
  <2>1. /\ user.key = 1 /\ user.expires = expires /\ user.active /\ user.org = UsHome
        /\ user.hash # "none" /\ ~user.revoked
    BY <1>1
  <2> HIDE DEF user
  <2>2. usRow.user = user
    BY <1>6 DEF user
  <2>. QED BY <1>5, <2>1, <2>2 DEF UsRowIsWord
<1>. QED BY <1>7, <1>8, <1>9, <1>10 DEF UsInv

\* A key is accepted as the last change said of it.
LEMMA UsInvSays ==
  ASSUME UsInv
  PROVE  UsersSound
<1>1. UsTypeOK /\ UsRowIsWord
  BY DEF UsInv
<1>2. KeySaysWhatWasSaid
  BY <1>1 DEF UsRowIsWord, KeySaysWhatWasSaid, UsAccepts, UsTrusted
<1>. QED BY <1>1, <1>2 DEF UsersSound

\* What a request that finds the row is told follows from the row, and so from the words.
LEMMA UsFindTells ==
  ASSUME UsInv, usCalm, NEW t \in UsThreads, UsFind(t)
  PROVE  usThread[t].answer' = "refused" <=> ~UsTrusted(usThread[t].key)
<1> DEFINE accepted == UsAccepts(usRow.user, usThread[t].key, usNow)
           found == [usThread[t] EXCEPT !.copy = usRow.user,
                       !.op = IF usRow.user.hash = "sha256" THEN "upgrade" ELSE "none",
                       !.pc = IF usRow.user.hash = "sha256" THEN "stamp" ELSE "role"]
           no == [UsIdle EXCEPT !.answer = "refused"]
<1>1. usThread \in [UsThreads -> UsRequests] /\ UsRowIsWord /\ usThread[t].pc = "find"
  BY DEF UsInv, UsTyped, UsFind, UsAt
<1>2. usThread'[t] = IF ~accepted THEN no ELSE found
  BY <1>1 DEF UsFind
<1>3. no.answer = "refused" /\ found.answer = usThread[t].answer
  BY <1>1, UsIdleTyped DEF UsRequests
<1>4. usThread[t].answer # "refused"
  BY <1>1 DEF UsInv, UsWaits
<1>5. accepted <=> UsTrusted(usThread[t].key)
  BY <1>1 DEF UsRowIsWord, UsAccepts, UsTrusted
<1> HIDE DEF accepted, found, no
<1>. QED BY <1>2, <1>3, <1>4, <1>5

\* Only its own steps take a request on from looking for the row or for the role.
LEMMA UsOwnStep ==
  ASSUME UsInv, [UsNext]_usVars, NEW t \in UsThreads
  PROVE  /\ UsAt(t, "find") /\ ~UsAt(t, "find")' => UsFind(t)
         /\ UsAt(t, "role") /\ ~UsAt(t, "role")' => UsRole(t)
<1>0. usThread \in [UsThreads -> UsRequests] /\ UsTyped
  BY DEF UsInv, UsTyped
<1>1. CASE UNCHANGED usVars
  BY <1>1 DEF usVars, UsAt
<1>2. ASSUME NEW u \in UsThreads, NEW op \in UsOps, NEW to, NEW term, UsBegin(u, op, to, term)
      PROVE  /\ usThread[t].pc \in {"find", "role"} => usThread'[t].pc = usThread[t].pc
  BY <1>0, <1>2, UsDirtiedIs DEF UsBegin, UsAt
<1>3. ASSUME NEW u \in UsThreads, UsRead(u) \/ UsStamp(u)
      PROVE  usThread[t].pc \in {"find", "role"} => usThread'[t].pc = usThread[t].pc
  BY <1>0, <1>3 DEF UsRead, UsStamp, UsAt
<1>4. ASSUME NEW u \in UsThreads, UsWrite(u)
      PROVE  usThread[t].pc \in {"find", "role"} => usThread'[t].pc = usThread[t].pc
  BY <1>0, <1>4, UsDirtiedIs DEF UsWrite, UsAt
<1>5. ASSUME NEW u \in UsThreads, NEW key, UsRequest(u, key)
      PROVE  usThread[t].pc \in {"find", "role"} => usThread'[t].pc = usThread[t].pc
  BY <1>0, <1>5 DEF UsRequest, UsAt
<1>6. ASSUME NEW u \in UsThreads, UsFind(u) \/ UsRole(u), u # t
      PROVE  usThread'[t] = usThread[t]
  BY <1>0, <1>6 DEF UsFind, UsRole
<1>7. ASSUME NEW o \in UsOrgs, (\E role \in UsRoles : UsGrant(o, role)) \/ UsRemove(o) \/ UsMutation(o)
      PROVE  usThread'[t].pc = usThread[t].pc
  BY <1>0, <1>7, UsDirtiedIs DEF UsGrant, UsRemove, UsMutation
<1>8. CASE UsTick
  BY <1>8 DEF UsTick, UsAt
<1>9. CASE UsNext
  BY <1>2, <1>3, <1>4, <1>5, <1>6, <1>7, <1>8, <1>9 DEF UsNext, UsAt, UsFind, UsRole
<1>. QED BY <1>1, <1>9

\* What the property says of a step.
UsTells(t) ==
  usCalm /\ usThread[t].clean =>
    /\ UsAt(t, "find") /\ ~UsAt(t, "find")' =>
         (usThread[t].answer' = "refused" <=> ~UsTrusted(usThread[t].key))
    /\ UsAt(t, "role") /\ ~UsAt(t, "role")' =>
         usThread[t].answer' = UsPlaced(usWord.org)

LEMMA UsStepTells ==
  ASSUME UsInv, [UsNext]_usVars, NEW t \in UsThreads
  PROVE  UsTells(t)
<1>1. CASE UsAt(t, "find") /\ ~UsAt(t, "find")'
  BY <1>1, UsOwnStep, UsFindTells DEF UsTells, UsAt
<1>2. CASE UsAt(t, "role") /\ ~UsAt(t, "role")'
  <2> SUFFICES ASSUME usCalm, usThread[t].clean
               PROVE  usThread[t].answer' = UsPlaced(usWord.org)
    BY <1>2 DEF UsTells, UsAt
  <2>1. UsRole(t) /\ usThread[t].copy.org = usWord.org
    BY <1>2, UsOwnStep DEF UsInv, UsCleanFound, UsAt
  <2>2. usThread'[t] = [UsIdle EXCEPT !.answer = UsPlaced(usWord.org)]
    BY <2>1 DEF UsRole, UsInv, UsTyped
  <2>. QED BY <2>2, UsIdleTyped DEF UsRequests
<1>. QED BY <1>1, <1>2 DEF UsTells

\* For every number of requests, organizations, keys, terms and seconds: as long as no two
\* changes of a user overlap, a key is accepted exactly if the last changes said so and its term
\* is not over, and a request under which nothing changed is told 401, 403 or the role that
\* follows from them.
THEOREM UsersKeepTheirWord == UsSpec => UsersKept
<1>1. UsInit => UsInv
  BY UsStarts
<1>2. UsInv /\ [UsNext]_usVars => UsInv'
  BY UsInductive
<1>3. UsInv => UsersSound
  BY UsInvSays
<1>4. UsInv' => UsersSound'
  BY <1>3, PTL
<1>5. UsInv /\ [UsNext]_usVars =>
        [/\ UsersSound'
         /\ \A t \in UsThreads :
              usCalm /\ usThread[t].clean =>
                /\ UsAt(t, "find") /\ ~UsAt(t, "find")' =>
                     (usThread[t].answer' = "refused" <=> ~UsTrusted(usThread[t].key))
                /\ UsAt(t, "role") /\ ~UsAt(t, "role")' =>
                     usThread[t].answer' = UsPlaced(usWord.org)]_usVars
  BY <1>2, <1>4, UsStepTells DEF UsTells
<1>. QED BY <1>1, <1>2, <1>3, <1>5, PTL DEF UsSpec, UsersKept

-----------------------------------------------------------------------------
(* The sessions *)

SsRows == [SsIds -> {"none", "live", "expired", "revoked"}]
SsGones == [session: [SsIds -> SsAges], user: SsAges, member: SsAges]
SsCaches == [SsProcesses -> [SsIds -> 0..(SsCacheTtl + 1)]]
SsRequests ==
  [pc: SsPcs, op: {"none", "read", "logout", "change", "login", "end"},
   process: SsProcesses \cup {NoProcess}, sid: SsIds \cup {NoSession},
   age: 0..SsMaxResolve, reads: SUBSET SsIds, owed: SUBSET SsIds]

\* What a request th is among sessions like row and conditions gone for as long as gone: one that
\* is resolving or served is for a session at a process; what it has read held when it began to
\* resolve its principal, or since; the sessions it owes an end are not the caller's, and are
\* found by its read, and revoked by its write.
SsFits(th, row, gone) ==
  /\ th.pc \in SsResolving \cup {"lookup", "served"} =>
       /\ th.op \in {"read", "logout", "change"}
       /\ th.process \in SsProcesses /\ th.sid \in SsIds
  /\ th.pc \in {"lookup", "served"} => th.age = 0
  /\ th.pc \in {"user", "member", "put"} => gone.session[th.sid] <= th.age
  /\ th.pc \in {"member", "put"} => gone.user <= th.age
  /\ th.pc = "put" => gone.member <= th.age
  /\ th.pc \notin {"revoke", "write", "clear"} => th.owed = {}
  /\ \A s \in th.owed :
       /\ row[s] # "none" /\ s # th.sid
       /\ th.pc = "write" => row[s] = "revoked" \/ s \in th.reads
       /\ th.pc = "clear" => row[s] = "revoked"

\* What holds has not been gone for any time.
SsHeld ==
  /\ \A s \in SsIds : ssRow[s] \in {"none", "live"} => ssGone.session[s] = 0
  /\ ssUser => ssGone.user = 0
  /\ ssMember => ssGone.member = 0

\* The older an entry of the cache, the longer ago what it stands for may have held.
SsCacheLately ==
  \A p \in SsProcesses, s \in SsIds :
    ssCache[p][s] > 0 =>
      /\ ssGone.session[s] + ssCache[p][s] <= SsBound + 1
      /\ ssGone.user + ssCache[p][s] <= SsBound + 1
      /\ ssGone.member + ssCache[p][s] <= SsBound + 1

SsInv ==
  /\ SsTypeOK /\ SsHeld /\ SsCacheLately
  /\ \A t \in SsThreads : SsFits(ssThread[t], ssRow, ssGone)

\* The ticks are natural numbers, and the bound on what is not told apart exceeds those of a
\* request and of an entry.
LEMMA SsNumbers ==
  /\ SsCacheTtl \in Nat /\ SsCacheTtl > 0 /\ SsMaxResolve \in Nat
  /\ SsBound \in Nat /\ SsBound = SsCacheTtl + SsMaxResolve
  /\ SsAges = 0..(SsBound + 1)
BY SsAssumption DEF SsBound, SsAges

\* The parts of the type invariant by name.
LEMMA SsTypes ==
  ASSUME SsTypeOK
  PROVE  /\ ssRow \in SsRows /\ ssGone \in SsGones /\ ssCache \in SsCaches
         /\ ssThread \in [SsThreads -> SsRequests]
         /\ ssUser \in BOOLEAN /\ ssMember \in BOOLEAN /\ ssAdmin \in 0..MaxSsAdmin
BY DEF SsTypeOK, SsRows, SsGones, SsCaches, SsRequests

\* And the other way round, after a step.
LEMMA SsTyped ==
  ASSUME ssRow' \in SsRows, ssGone' \in SsGones, ssCache' \in SsCaches,
         ssThread' \in [SsThreads -> SsRequests],
         ssUser' \in BOOLEAN, ssMember' \in BOOLEAN, ssAdmin' \in 0..MaxSsAdmin
  PROVE  SsTypeOK'
BY DEF SsTypeOK, SsRows, SsGones, SsCaches, SsRequests

\* A request that waits.
LEMMA SsFreeFits ==
  /\ SsFree \in SsRequests
  /\ \A row, gone : SsFits(SsFree, row, gone)
<1>1. SsFree \in SsRequests
  BY SsNumbers DEF SsFree, SsRequests, SsPcs, SsResolving
<1>2. /\ SsFree.pc = "idle" /\ SsFree.owed = {} /\ SsFree.age = 0 /\ SsFree.sid = NoSession
  BY DEF SsFree
<1>. QED BY <1>1, <1>2 DEF SsFits, SsResolving

\* Opening, ending and forgiving sessions leaves what a request is.
LEMMA SsFitsStays ==
  ASSUME NEW row, NEW row2, NEW gone \in SsGones, NEW gone2 \in SsGones,
         \A s \in SsIds : /\ row[s] # "none" => row2[s] # "none"
                          /\ row[s] = "revoked" => row2[s] = "revoked"
                          /\ gone2.session[s] <= gone.session[s],
         gone2.user <= gone.user, gone2.member <= gone.member,
         NEW th \in SsRequests, SsFits(th, row, gone)
  PROVE  SsFits(th, row2, gone2)
<1>1. th.owed \subseteq SsIds /\ th.age \in Int
  BY SsNumbers DEF SsRequests
<1>2. /\ gone.user \in Int /\ gone2.user \in Int /\ gone.member \in Int /\ gone2.member \in Int
      /\ \A s \in SsIds : gone.session[s] \in Int /\ gone2.session[s] \in Int
  BY SsNumbers DEF SsGones
<1>3. th.pc \in {"user", "member", "put"} => th.sid \in SsIds
  BY DEF SsFits, SsResolving
<1>4. /\ th.pc \in {"user", "member", "put"} => gone2.session[th.sid] <= th.age
      /\ th.pc \in {"member", "put"} => gone2.user <= th.age
      /\ th.pc = "put" => gone2.member <= th.age
  BY <1>1, <1>2, <1>3 DEF SsFits
<1>5. \A s \in th.owed :
       /\ row2[s] # "none" /\ s # th.sid
       /\ th.pc = "write" => row2[s] = "revoked" \/ s \in th.reads
       /\ th.pc = "clear" => row2[s] = "revoked"
  BY <1>1 DEF SsFits
<1>. QED BY <1>4, <1>5 DEF SsFits

\* A step of one request that leaves the store and the caches.
LEMMA SsThreadKeeps ==
  ASSUME SsInv, NEW t \in SsThreads, NEW n \in SsRequests,
         ssThread' = [ssThread EXCEPT ![t] = n], SsFits(n, ssRow, ssGone),
         UNCHANGED <<ssStore, ssCache, ssAdmin>>
  PROVE  SsInv'
<1>0. SsTypeOK /\ SsHeld /\ SsCacheLately
  BY DEF SsInv
<1>1. UNCHANGED <<ssRow, ssUser, ssMember, ssGone, ssCache, ssAdmin>>
  BY DEF ssStore
<1>2. /\ ssThread' \in [SsThreads -> SsRequests] /\ ssThread'[t] = n
      /\ \A u \in SsThreads \ {t} : ssThread'[u] = ssThread[u]
  BY <1>0, SsTypes
<1>3. SsTypeOK'
  BY <1>0, <1>1, <1>2, SsTypes, SsTyped
<1>4. SsHeld' /\ SsCacheLately'
  BY <1>0, <1>1 DEF SsHeld, SsCacheLately
<1>5. \A u \in SsThreads : SsFits(ssThread'[u], ssRow', ssGone')
  BY <1>1, <1>2 DEF SsInv
<1>. QED BY <1>3, <1>4, <1>5 DEF SsInv

\* A request arrives, or a login.
LEMMA SsArriveKeeps ==
  ASSUME SsInv, NEW t \in SsThreads,
         \/ SsLogin(t)
         \/ \E p \in SsProcesses, s \in SsIds, op \in {"read", "logout", "change"} :
              SsRequest(t, p, s, op)
  PROVE  SsInv'
<1>1. CASE SsLogin(t)
  <2> DEFINE n == [SsFree EXCEPT !.pc = "create", !.op = "login"]
  <2>1. n \in SsRequests /\ n.pc = "create" /\ n.owed = {}
    BY SsFreeFits DEF SsFree, SsRequests, SsPcs
  <2>2. SsFits(n, ssRow, ssGone)
    BY <2>1 DEF SsFits, SsResolving
  <2>3. ssThread' = [ssThread EXCEPT ![t] = n] /\ UNCHANGED <<ssStore, ssCache, ssAdmin>>
    BY <1>1 DEF SsLogin
  <2> HIDE DEF n
  <2>. QED BY <2>1, <2>2, <2>3, SsThreadKeeps
<1>2. ASSUME NEW p \in SsProcesses, NEW s \in SsIds, NEW op \in {"read", "logout", "change"},
             SsRequest(t, p, s, op)
      PROVE  SsInv'
  <2> DEFINE n == [SsFree EXCEPT !.pc = "lookup", !.op = op, !.process = p, !.sid = s]
  <2>1. /\ n \in SsRequests /\ n.pc = "lookup" /\ n.owed = {} /\ n.age = 0
        /\ n.op = op /\ n.process = p /\ n.sid = s
    BY SsFreeFits DEF SsFree, SsRequests, SsPcs
  <2>2. SsFits(n, ssRow, ssGone)
    BY <2>1 DEF SsFits, SsResolving
  <2>3. ssThread' = [ssThread EXCEPT ![t] = n] /\ UNCHANGED <<ssStore, ssCache, ssAdmin>>
    BY <1>2 DEF SsRequest
  <2> HIDE DEF n
  <2>. QED BY <2>1, <2>2, <2>3, SsThreadKeeps
<1>. QED BY <1>1, <1>2

\* A request looks into the cache, and resolves its principal in three reads.
LEMMA SsResolveKeeps ==
  ASSUME SsInv, NEW t \in SsThreads, SsLookup(t) \/ SsRead(t)
  PROVE  SsInv'
<1> DEFINE th == ssThread[t]
<1>0. /\ SsTypeOK /\ SsHeld /\ th \in SsRequests /\ SsFits(th, ssRow, ssGone)
      /\ ssThread \in [SsThreads -> SsRequests]
  BY SsTypes DEF SsInv
<1>1. CASE SsLookup(t)
  <2> DEFINE pc == IF ssCache[th.process][th.sid] # 0 THEN "served" ELSE "session"
             n == [th EXCEPT !.pc = pc]
  <2>1. th.pc = "lookup" /\ pc \in {"served", "session"}
    BY <1>1 DEF SsLookup
  <2>2. ssThread' = [ssThread EXCEPT ![t] = n] /\ UNCHANGED <<ssStore, ssCache, ssAdmin>>
    BY <1>1 DEF SsLookup
  <2> HIDE DEF pc
  <2>3. /\ n \in SsRequests /\ n.pc = pc /\ n.owed = th.owed /\ n.age = th.age
        /\ n.op = th.op /\ n.process = th.process /\ n.sid = th.sid
    BY <1>0, <2>1 DEF SsRequests, SsPcs, SsResolving
  <2> HIDE DEF n
  <2>4. SsFits(n, ssRow, ssGone)
    BY <1>0, <2>1, <2>3 DEF SsFits, SsResolving
  <2>. QED BY <2>2, <2>3, <2>4, SsThreadKeeps
<1>2. ASSUME NEW pc \in {"session", "user", "member"}, NEW next \in {"user", "member", "put"},
             th.pc = pc, ssThread' = [ssThread EXCEPT ![t] = [th EXCEPT !.pc = next]],
             UNCHANGED <<ssStore, ssCache, ssAdmin>>,
             \/ pc = "session" /\ next = "user" /\ ssRow[th.sid] = "live"
             \/ pc = "user" /\ next = "member" /\ ssUser
             \/ pc = "member" /\ next = "put" /\ ssMember
      PROVE  SsInv'
  <2> DEFINE n == [th EXCEPT !.pc = next]
  <2>1. /\ n \in SsRequests /\ n.pc = next /\ n.owed = th.owed /\ n.age = th.age
        /\ n.op = th.op /\ n.process = th.process /\ n.sid = th.sid
    BY <1>0 DEF SsRequests, SsPcs, SsResolving
  <2> HIDE DEF n
  <2>2. th.sid \in SsIds /\ 0 <= th.age
    BY <1>0, <1>2, SsNumbers DEF SsFits, SsResolving, SsRequests
  <2>3. SsFits(n, ssRow, ssGone)
    BY <1>0, <1>2, <2>1, <2>2 DEF SsFits, SsResolving, SsHeld
  <2>. QED BY <1>2, <2>1, <2>3, SsThreadKeeps DEF n
<1>3. ASSUME ssThread' = [ssThread EXCEPT ![t] = SsFree], UNCHANGED <<ssStore, ssCache, ssAdmin>>
      PROVE  SsInv'
  BY <1>3, SsFreeFits, SsThreadKeeps
<1>4. CASE SsRead(t)
  <2>1. UNCHANGED <<ssStore, ssCache, ssAdmin>>
    BY <1>4 DEF SsRead
  <2>2. \/ /\ th.pc = "session"
           /\ ssThread' = [ssThread EXCEPT ![t] = IF ssRow[th.sid] = "live"
                                                  THEN [th EXCEPT !.pc = "user"] ELSE SsFree]
        \/ /\ th.pc = "user"
           /\ ssThread' = [ssThread EXCEPT ![t] = IF ssUser THEN [th EXCEPT !.pc = "member"]
                                                            ELSE SsFree]
        \/ /\ th.pc = "member"
           /\ ssThread' = [ssThread EXCEPT ![t] = IF ssMember THEN [th EXCEPT !.pc = "put"]
                                                              ELSE SsFree]
    BY <1>4 DEF SsRead
  <2> HIDE DEF th
  <2>. QED BY <1>2, <1>3, <2>1, <2>2
<1>. QED BY <1>1, <1>4

\* The handler: what it does not do it has nothing to answer for.
LEMMA SsServeKeeps ==
  ASSUME SsInv, NEW t \in SsThreads, SsServe(t)
  PROVE  SsInv'
<1> DEFINE th == ssThread[t]
<1>0. /\ th \in SsRequests /\ SsFits(th, ssRow, ssGone) /\ th.pc = "served"
      /\ UNCHANGED <<ssStore, ssCache, ssAdmin>>
  BY SsTypes DEF SsInv, SsServe
<1>1. th.op \in {"read", "logout", "change"} /\ th.sid \in SsIds /\ th.owed = {}
  BY <1>0 DEF SsFits, SsResolving
<1>2. CASE th.op = "read"
  <2>1. ssThread' = [ssThread EXCEPT ![t] = SsFree]
    BY <1>2 DEF SsServe
  <2>. QED BY <1>0, <2>1, SsFreeFits, SsThreadKeeps
<1>3. CASE th.op = "logout"
  <2> DEFINE n == [th EXCEPT !.pc = IF ssRow[th.sid] \in SsOpen THEN "write" ELSE "clear",
                             !.reads = IF ssRow[th.sid] \in SsOpen THEN {th.sid} ELSE {}]
  <2>1. ssThread' = [ssThread EXCEPT ![t] = n]
    BY <1>3 DEF SsServe
  <2>2. n \in SsRequests /\ n.pc \in {"write", "clear"} /\ n.owed = {}
    BY <1>0, <1>1 DEF SsRequests, SsPcs
  <2> HIDE DEF n
  <2>3. SsFits(n, ssRow, ssGone)
    BY <2>2 DEF SsFits, SsResolving
  <2>. QED BY <1>0, <2>1, <2>2, <2>3, SsThreadKeeps
<1>4. CASE th.op = "change"
  <2> DEFINE n == [th EXCEPT !.pc = "set"]
  <2>1. ssThread' = [ssThread EXCEPT ![t] = n]
    BY <1>4 DEF SsServe
  <2>2. n \in SsRequests /\ n.pc = "set" /\ n.owed = {}
    BY <1>0, <1>1 DEF SsRequests, SsPcs
  <2> HIDE DEF n
  <2>3. SsFits(n, ssRow, ssGone)
    BY <2>2 DEF SsFits, SsResolving
  <2>. QED BY <1>0, <2>1, <2>2, <2>3, SsThreadKeeps
<1>. QED BY <1>1, <1>2, <1>3, <1>4

\* A change of the password: what is open when it is stored is still there, or revoked, when
\* the others are read.
LEMMA SsChangeKeeps ==
  ASSUME SsInv, NEW t \in SsThreads, SsSetPassword(t) \/ SsReadOthers(t)
  PROVE  SsInv'
<1> DEFINE th == ssThread[t]
<1>0. /\ th \in SsRequests /\ SsFits(th, ssRow, ssGone) /\ ssRow \in SsRows
      /\ UNCHANGED <<ssStore, ssCache, ssAdmin>>
  BY SsTypes DEF SsInv, SsSetPassword, SsReadOthers
<1>1. CASE SsSetPassword(t)
  <2> DEFINE owed == {s \in SsIds : ssRow[s] \in SsOpen} \ {th.sid}
             n == [th EXCEPT !.pc = "revoke", !.owed = owed]
  <2>1. ssThread' = [ssThread EXCEPT ![t] = n]
    BY <1>1 DEF SsSetPassword
  <2>2. owed \subseteq SsIds /\ \A s \in owed : ssRow[s] # "none" /\ s # th.sid
    BY DEF SsOpen
  <2> HIDE DEF owed
  <2>3. n \in SsRequests /\ n.pc = "revoke" /\ n.owed = owed /\ n.sid = th.sid
    BY <1>0, <2>2 DEF SsRequests, SsPcs
  <2> HIDE DEF n
  <2>4. SsFits(n, ssRow, ssGone)
    BY <2>2, <2>3 DEF SsFits, SsResolving
  <2>. QED BY <1>0, <2>1, <2>3, <2>4, SsThreadKeeps
<1>2. CASE SsReadOthers(t)
  <2> DEFINE others == SsOthers(t)
             n == [th EXCEPT !.reads = others, !.pc = IF others = {} THEN "clear" ELSE "write"]
  <2>1. ssThread' = [ssThread EXCEPT ![t] = n] /\ th.pc = "revoke"
    BY <1>2 DEF SsReadOthers
  <2>2. /\ others \subseteq SsIds
        /\ \A s \in th.owed : ssRow[s] = "revoked" \/ s \in others
    BY <1>0, <2>1 DEF SsOthers, SsOpen, SsFits, SsRequests, SsRows
  <2> HIDE DEF others
  <2>3. /\ n \in SsRequests /\ n.reads = others /\ n.owed = th.owed /\ n.sid = th.sid
        /\ n.pc = IF others = {} THEN "clear" ELSE "write"
    BY <1>0, <2>2 DEF SsRequests, SsPcs
  <2> HIDE DEF n
  <2>4. SsFits(n, ssRow, ssGone)
    BY <1>0, <2>2, <2>3 DEF SsFits, SsResolving
  <2>. QED BY <1>0, <2>1, <2>3, <2>4, SsThreadKeeps
<1>. QED BY <1>1, <1>2

\* Rows open and end; those that are revoked, or there, stay so.
LEMMA SsRowsKeep ==
  ASSUME SsInv, NEW t \in SsThreads, NEW n \in SsRequests,
         ssThread' = [ssThread EXCEPT ![t] = n], SsFits(n, ssRow', ssGone),
         ssRow' \in SsRows,
         \A s \in SsIds : /\ ssRow[s] # "none" => ssRow'[s] # "none"
                          /\ ssRow[s] = "revoked" => ssRow'[s] = "revoked"
                          /\ ssRow'[s] \in {"none", "live"} => ssRow[s] \in {"none", "live"},
         UNCHANGED <<ssUser, ssMember, ssCache, ssAdmin, ssGone>>
  PROVE  SsInv'
<1>0. SsTypeOK /\ SsHeld /\ SsCacheLately /\ ssGone \in SsGones
      /\ ssThread \in [SsThreads -> SsRequests]
  BY SsTypes DEF SsInv
<1>1. /\ ssThread' \in [SsThreads -> SsRequests] /\ ssThread'[t] = n
      /\ \A u \in SsThreads \ {t} : ssThread'[u] = ssThread[u]
  BY <1>0
<1>2. SsTypeOK'
  BY <1>0, <1>1, SsTypes, SsTyped
<1>3. SsHeld' /\ SsCacheLately'
  BY <1>0 DEF SsHeld, SsCacheLately
<1>4. \A u \in SsThreads \ {t} : SsFits(ssThread[u], ssRow', ssGone)
  <2>1. ssGone.user <= ssGone.user /\ ssGone.member <= ssGone.member
        /\ \A s \in SsIds : ssGone.session[s] <= ssGone.session[s]
    BY <1>0, SsNumbers DEF SsGones
  <2>2. \A u \in SsThreads : ssThread[u] \in SsRequests /\ SsFits(ssThread[u], ssRow, ssGone)
    BY <1>0 DEF SsInv
  <2>. QED BY <1>0, <2>1, <2>2, SsFitsStays
<1>5. \A u \in SsThreads : SsFits(ssThread'[u], ssRow', ssGone')
  BY <1>1, <1>4
<1>. QED BY <1>2, <1>3, <1>5 DEF SsInv

\* The sessions found are revoked, a login opens one.
LEMMA SsWriteKeeps ==
  ASSUME SsInv, NEW t \in SsThreads, SsRevoke(t) \/ SsCreate(t)
  PROVE  SsInv'
<1> DEFINE th == ssThread[t]
<1>0. th \in SsRequests /\ SsFits(th, ssRow, ssGone) /\ ssRow \in SsRows
  BY SsTypes DEF SsInv
<1>1. CASE SsRevoke(t)
  <2> DEFINE n == [th EXCEPT !.pc = "clear"]
  <2>1. /\ ssThread' = [ssThread EXCEPT ![t] = n] /\ th.pc = "write"
        /\ ssRow' = [s \in SsIds |-> IF s \in th.reads THEN "revoked" ELSE ssRow[s]]
        /\ UNCHANGED <<ssUser, ssMember, ssCache, ssAdmin, ssGone>>
    BY <1>1 DEF SsRevoke
  <2>2. /\ ssRow' \in SsRows
        /\ \A s \in SsIds : ssRow'[s] = IF s \in th.reads THEN "revoked" ELSE ssRow[s]
    BY <1>0, <2>1 DEF SsRows
  <2>3. n \in SsRequests /\ n.pc = "clear" /\ n.owed = th.owed /\ n.sid = th.sid
    BY <1>0 DEF SsRequests, SsPcs
  <2>4. \A s \in th.owed : s # th.sid /\ ssRow'[s] = "revoked"
    BY <1>0, <2>1, <2>2 DEF SsFits, SsRequests
  <2> HIDE DEF n
  <2>5. SsFits(n, ssRow', ssGone)
    BY <2>3, <2>4 DEF SsFits, SsResolving
  <2>. QED BY <2>1, <2>2, <2>3, <2>5, SsRowsKeep
<1>2. CASE SsCreate(t)
  <2>1. PICK s \in SsIds : ssRow[s] = "none" /\ ssRow' = [ssRow EXCEPT ![s] = "live"]
    BY <1>2 DEF SsCreate
  <2>2. /\ ssThread' = [ssThread EXCEPT ![t] = SsFree]
        /\ UNCHANGED <<ssUser, ssMember, ssCache, ssAdmin, ssGone>>
    BY <1>2 DEF SsCreate
  <2>3. /\ ssRow' \in SsRows /\ ssRow'[s] = "live"
        /\ \A r \in SsIds \ {s} : ssRow'[r] = ssRow[r]
    BY <1>0, <2>1 DEF SsRows
  <2>. QED BY <2>1, <2>2, <2>3, SsFreeFits, SsRowsKeep
<1>. QED BY <1>1, <1>2

\* A session runs out.
LEMMA SsExpireKeeps ==
  ASSUME SsInv, NEW s \in SsIds, SsExpire(s)
  PROVE  SsInv'
<1>0. SsTypeOK /\ SsHeld /\ SsCacheLately /\ ssGone \in SsGones
      /\ ssThread \in [SsThreads -> SsRequests]
  BY SsTypes DEF SsInv
<1>1. UNCHANGED <<ssUser, ssMember, ssCache, ssThread, ssAdmin, ssGone>>
  BY DEF SsExpire
<1>2. /\ ssRow' \in SsRows /\ ssRow'[s] = "expired" /\ ssRow[s] = "live"
      /\ \A r \in SsIds \ {s} : ssRow'[r] = ssRow[r]
  BY <1>0, SsTypes DEF SsExpire, SsRows
<1>3. SsTypeOK'
  BY <1>0, <1>1, <1>2, SsTypes, SsTyped
<1>4. SsHeld' /\ SsCacheLately'
  BY <1>0, <1>1, <1>2 DEF SsHeld, SsCacheLately
<1>5. \A u \in SsThreads : SsFits(ssThread[u], ssRow', ssGone)
  <2>1. ssGone.user <= ssGone.user /\ ssGone.member <= ssGone.member
        /\ \A r \in SsIds : ssGone.session[r] <= ssGone.session[r]
    BY <1>0, SsNumbers DEF SsGones
  <2>2. \A u \in SsThreads : ssThread[u] \in SsRequests /\ SsFits(ssThread[u], ssRow, ssGone)
    BY <1>0 DEF SsInv
  <2>3. \A r \in SsIds : /\ ssRow[r] # "none" => ssRow'[r] # "none"
                         /\ ssRow[r] = "revoked" => ssRow'[r] = "revoked"
    BY <1>2
  <2>. QED BY <1>0, <2>1, <2>2, <2>3, SsFitsStays
<1>. QED BY <1>1, <1>3, <1>4, <1>5 DEF SsInv

\* What is cached was read lately; emptying a cache keeps everything.
LEMMA SsCacheKeeps ==
  ASSUME SsInv, NEW t \in SsThreads, NEW n \in SsRequests, NEW p \in SsProcesses,
         NEW c \in [SsIds -> 0..(SsCacheTtl + 1)],
         ssThread' = [ssThread EXCEPT ![t] = n], SsFits(n, ssRow, ssGone),
         ssCache' = [ssCache EXCEPT ![p] = c],
         \A s \in SsIds : c[s] > 0 =>
           /\ ssGone.session[s] + c[s] <= SsBound + 1
           /\ ssGone.user + c[s] <= SsBound + 1
           /\ ssGone.member + c[s] <= SsBound + 1,
         UNCHANGED <<ssStore, ssAdmin>>
  PROVE  SsInv'
<1>0. SsTypeOK /\ SsHeld /\ SsCacheLately /\ ssCache \in SsCaches
      /\ ssThread \in [SsThreads -> SsRequests]
  BY SsTypes DEF SsInv
<1>1. UNCHANGED <<ssRow, ssUser, ssMember, ssGone, ssAdmin>>
  BY DEF ssStore
<1>2. /\ ssThread' \in [SsThreads -> SsRequests] /\ ssThread'[t] = n
      /\ \A u \in SsThreads \ {t} : ssThread'[u] = ssThread[u]
  BY <1>0
<1>3. /\ ssCache' \in SsCaches /\ ssCache'[p] = c
      /\ \A q \in SsProcesses \ {p} : ssCache'[q] = ssCache[q]
  BY <1>0 DEF SsCaches
<1>4. SsTypeOK'
  BY <1>0, <1>1, <1>2, <1>3, SsTypes, SsTyped
<1>5. SsHeld'
  BY <1>0, <1>1 DEF SsHeld
<1>6. SsCacheLately'
  BY <1>0, <1>1, <1>3 DEF SsCacheLately
<1>7. \A u \in SsThreads : SsFits(ssThread'[u], ssRow', ssGone')
  BY <1>1, <1>2 DEF SsInv
<1>. QED BY <1>4, <1>5, <1>6, <1>7 DEF SsInv

\* A principal is put into the cache of its process, or the cache is emptied.
LEMMA SsPutKeeps ==
  ASSUME SsInv, NEW t \in SsThreads, SsPut(t) \/ SsClear(t)
  PROVE  SsInv'
<1> DEFINE th == ssThread[t]
           p == th.process
           empty == [x \in SsIds |-> 0]
<1>0. /\ SsTypeOK /\ SsCacheLately /\ ssCache \in SsCaches /\ ssGone \in SsGones
      /\ th \in SsRequests /\ SsFits(th, ssRow, ssGone)
  BY SsTypes DEF SsInv
<1>1. /\ SsBound \in Int /\ SsMaxResolve \in Int /\ SsCacheTtl \in Int /\ SsCacheTtl > 0
      /\ SsBound = SsCacheTtl + SsMaxResolve
      /\ \A s \in SsIds : ssGone.session[s] \in Int
      /\ ssGone.user \in Int /\ ssGone.member \in Int
  BY <1>0, SsNumbers DEF SsGones
<1>2. empty \in [SsIds -> 0..(SsCacheTtl + 1)] /\ \A s \in SsIds : empty[s] = 0
  BY SsNumbers
<1>5. \A s \in SsIds : ~(empty[s] > 0)
  OBVIOUS
<1>3. CASE SsPut(t)
  <2> DEFINE n == [th EXCEPT !.pc = "served", !.age = 0]
  <2>1. /\ th.pc = "put" /\ UNCHANGED <<ssStore, ssAdmin>>
        /\ \E kept \in {ssCache[p], empty} :
             ssCache' = [ssCache EXCEPT ![p] = [kept EXCEPT ![th.sid] = SsCacheTtl + 1]]
        /\ ssThread' = [ssThread EXCEPT ![t] = n]
    BY <1>3 DEF SsPut
  <2>2. th.sid \in SsIds /\ p \in SsProcesses
    BY <1>0, <2>1 DEF SsFits, SsResolving
  <2>3. /\ n \in SsRequests /\ n.pc = "served" /\ n.age = 0 /\ n.owed = th.owed
        /\ n.op = th.op /\ n.process = p /\ n.sid = th.sid
    <3>1. 0 \in 0..SsMaxResolve /\ "served" \in SsPcs
      BY SsNumbers DEF SsPcs
    <3>. QED BY <1>0, <3>1 DEF SsRequests
  <2> HIDE DEF n, p, empty
  <2>4. SsFits(n, ssRow, ssGone)
    BY <1>0, <2>1, <2>2, <2>3 DEF SsFits, SsResolving
  <2>5. /\ ssGone.session[th.sid] <= SsMaxResolve
        /\ ssGone.user <= SsMaxResolve /\ ssGone.member <= SsMaxResolve
    BY <1>0, <1>1, <2>1, <2>2 DEF SsFits, SsRequests
  <2>6. ssCache[p] \in [SsIds -> 0..(SsCacheTtl + 1)]
    BY <1>0, <2>2 DEF SsCaches
  <2>7. PICK kept \in {ssCache[p], empty} :
          ssCache' = [ssCache EXCEPT ![p] = [kept EXCEPT ![th.sid] = SsCacheTtl + 1]]
    BY <2>1
  <2>8. kept \in [SsIds -> 0..(SsCacheTtl + 1)]
    BY <1>2, <2>6
  <2> DEFINE c == [kept EXCEPT ![th.sid] = SsCacheTtl + 1]
  <2>9. /\ c \in [SsIds -> 0..(SsCacheTtl + 1)] /\ c[th.sid] = SsCacheTtl + 1
        /\ \A s \in SsIds \ {th.sid} : c[s] = kept[s]
    BY <1>1, <2>2, <2>8
  <2> HIDE DEF c
  <2>10. \A s \in SsIds : kept[s] > 0 =>
           /\ ssGone.session[s] + kept[s] <= SsBound + 1
           /\ ssGone.user + kept[s] <= SsBound + 1
           /\ ssGone.member + kept[s] <= SsBound + 1
    BY <1>0, <1>2, <2>2, <2>7 DEF SsCacheLately
  <2>11. /\ ssGone.session[th.sid] + (SsCacheTtl + 1) <= SsBound + 1
         /\ ssGone.user + (SsCacheTtl + 1) <= SsBound + 1
         /\ ssGone.member + (SsCacheTtl + 1) <= SsBound + 1
    BY <1>1, <2>2, <2>5
  <2>12. \A s \in SsIds : c[s] > 0 =>
           /\ ssGone.session[s] + c[s] <= SsBound + 1
           /\ ssGone.user + c[s] <= SsBound + 1
           /\ ssGone.member + c[s] <= SsBound + 1
    BY <2>9, <2>10, <2>11
  <2>. QED BY <2>1, <2>2, <2>3, <2>4, <2>7, <2>9, <2>12, SsCacheKeeps DEF c
<1>4. CASE SsClear(t)
  <2>1. /\ ssCache' = [ssCache EXCEPT ![p] = empty] /\ ssThread' = [ssThread EXCEPT ![t] = SsFree]
        /\ UNCHANGED <<ssStore, ssAdmin>>
    BY <1>4 DEF SsClear
  <2> HIDE DEF p, empty
  <2>2. CASE p \in SsProcesses
    BY <1>2, <1>5, <2>1, <2>2, SsFreeFits, SsCacheKeeps
  <2>3. CASE p \notin SsProcesses
    <3>1. ssCache' = ssCache
      BY <1>0, <2>1, <2>3 DEF SsCaches
    <3>. QED BY <2>1, <3>1, SsFreeFits, SsThreadKeeps
  <2>. QED BY <2>2, <2>3
<1>. QED BY <1>3, <1>4

\* An administrator ends or restores what access depends on: it is gone from now.
LEMMA SsAdministerKeeps ==
  ASSUME SsInv, NEW t \in SsThreads, NEW p \in SsProcesses, SsAdminister(t, p)
  PROVE  SsInv'
<1>0. /\ SsTypeOK /\ SsHeld /\ SsCacheLately /\ ssGone \in SsGones /\ ssRow \in SsRows
      /\ ssThread \in [SsThreads -> SsRequests]
      /\ ssUser \in BOOLEAN /\ ssMember \in BOOLEAN /\ ssAdmin \in 0..MaxSsAdmin
      /\ ssCache \in SsCaches
  BY SsTypes DEF SsInv
<1>1. PICK n : /\ n = [SsFree EXCEPT !.pc = n.pc, !.op = "end", !.process = p]
               /\ n.pc \in {"clear", "set"} /\ ssThread' = [ssThread EXCEPT ![t] = n]
  <2>1. CASE ssThread' = [ssThread EXCEPT ![t] =
                             [SsFree EXCEPT !.pc = "clear", !.op = "end", !.process = p]]
    <3>1. [SsFree EXCEPT !.pc = "clear", !.op = "end", !.process = p].pc = "clear"
      BY DEF SsFree
    <3>. QED BY <2>1, <3>1
  <2>2. CASE ssThread' = [ssThread EXCEPT ![t] =
                             [SsFree EXCEPT !.pc = "set", !.op = "end", !.process = p]]
    <3>1. [SsFree EXCEPT !.pc = "set", !.op = "end", !.process = p].pc = "set"
      BY DEF SsFree
    <3>. QED BY <2>2, <3>1
  <2>. QED BY <2>1, <2>2 DEF SsAdminister
<1>2. n \in SsRequests /\ n.owed = {}
  <2>1. n.pc \in SsPcs /\ SsFree \in SsRequests /\ SsFree.owed = {}
    BY <1>1, SsFreeFits DEF SsPcs, SsFree
  <2>. QED BY <1>1, <2>1 DEF SsRequests
<1>3. \A row, gone : SsFits(n, row, gone)
  BY <1>1, <1>2 DEF SsFits, SsResolving
<1>4. /\ ssThread' \in [SsThreads -> SsRequests] /\ ssThread'[t] = n
      /\ \A u \in SsThreads \ {t} : ssThread'[u] = ssThread[u]
  BY <1>0, <1>1, <1>2
<1>5. /\ UNCHANGED <<ssRow, ssCache>> /\ ssAdmin' \in 0..MaxSsAdmin
      /\ ssUser' \in BOOLEAN /\ ssMember' \in BOOLEAN
  <2>1. MaxSsAdmin \in Nat
    BY SsAssumption
  <2>2. UNCHANGED <<ssRow, ssCache>> /\ ssAdmin' \in 0..MaxSsAdmin
    BY <1>0, <2>1 DEF SsAdminister
  <2>3. ssUser' \in BOOLEAN /\ ssMember' \in BOOLEAN
    BY <1>0, Zenon DEF SsAdminister
  <2>. QED BY <2>2, <2>3
<1>6. /\ ssGone' \in SsGones
      /\ \A s \in SsIds : ssGone'.session[s] = ssGone.session[s]
      /\ ssGone'.user \in {0, ssGone.user} /\ ssGone'.member \in {0, ssGone.member}
      /\ ssUser' # ssUser => ssGone'.user = 0
      /\ ssMember' # ssMember => ssGone'.member = 0
  <2>1. 0 \in SsAges
    BY SsNumbers
  <2>2. CASE UNCHANGED <<ssUser, ssMember, ssGone>>
    BY <1>0, <2>2
  <2>3. CASE ssGone' = [ssGone EXCEPT !.user = 0] /\ UNCHANGED ssMember
    BY <1>0, <2>1, <2>3 DEF SsGones
  <2>4. CASE ssGone' = [ssGone EXCEPT !.member = 0] /\ UNCHANGED ssUser
    BY <1>0, <2>1, <2>4 DEF SsGones
  <2>. QED BY <2>2, <2>3, <2>4 DEF SsAdminister
<1>7. /\ \A s \in SsIds : ssGone.session[s] \in Int
      /\ ssGone.user \in Int /\ ssGone.member \in Int /\ 0 <= ssGone.user /\ 0 <= ssGone.member
      /\ ssGone'.user <= ssGone.user /\ ssGone'.member <= ssGone.member
  <2>1. /\ \A s \in SsIds : ssGone.session[s] \in Int
        /\ ssGone.user \in Int /\ ssGone.member \in Int /\ 0 <= ssGone.user /\ 0 <= ssGone.member
    BY <1>0, SsNumbers DEF SsGones
  <2>. QED BY <1>6, <2>1
<1>8. SsTypeOK'
  BY <1>0, <1>4, <1>5, <1>6, SsTyped
<1>9. SsHeld'
  <2>1. \A s \in SsIds : ssRow'[s] \in {"none", "live"} => ssGone'.session[s] = 0
    BY <1>0, <1>5, <1>6 DEF SsHeld
  <2>2. ssUser' => ssGone'.user = 0
    BY <1>0, <1>6 DEF SsHeld
  <2>3. ssMember' => ssGone'.member = 0
    BY <1>0, <1>6 DEF SsHeld
  <2>. QED BY <2>1, <2>2, <2>3 DEF SsHeld
<1>10. SsCacheLately'
  <2>1. \A q \in SsProcesses, s \in SsIds : ssCache[q][s] \in Int
    BY <1>0, SsNumbers DEF SsCaches
  <2>2. SsBound \in Int
    BY SsNumbers
  <2>. QED BY <1>0, <1>5, <1>6, <1>7, <2>1, <2>2 DEF SsCacheLately
<1>11. \A u \in SsThreads \ {t} : SsFits(ssThread[u], ssRow, ssGone')
  <2>1. \A s \in SsIds : ssGone'.session[s] <= ssGone.session[s]
    BY <1>6, <1>7
  <2>2. \A u \in SsThreads : ssThread[u] \in SsRequests /\ SsFits(ssThread[u], ssRow, ssGone)
    BY <1>0 DEF SsInv
  <2>. QED BY <1>0, <1>6, <1>7, <2>1, <2>2, SsFitsStays
<1>12. \A u \in SsThreads : SsFits(ssThread'[u], ssRow', ssGone')
  BY <1>3, <1>4, <1>5, <1>11
<1>. QED BY <1>8, <1>9, <1>10, <1>12 DEF SsInv

\* A tick: what is gone is gone a tick longer, and the requests that resolve and the entries
\* of the caches are a tick older.
LEMMA SsTickKeeps ==
  ASSUME SsInv, SsTick
  PROVE  SsInv'
<1> DEFINE older(n, holds) == IF holds THEN 0 ELSE IF n > SsBound THEN n ELSE n + 1
           aged(th) == IF th.pc \in SsResolving THEN [th EXCEPT !.age = @ + 1] ELSE th
<1>0. /\ SsTypeOK /\ SsHeld /\ SsCacheLately /\ ssGone \in SsGones /\ ssRow \in SsRows
      /\ ssThread \in [SsThreads -> SsRequests] /\ ssCache \in SsCaches
      /\ ssUser \in BOOLEAN /\ ssMember \in BOOLEAN /\ ssAdmin \in 0..MaxSsAdmin
  BY SsTypes DEF SsInv
<1>1. /\ SsBound \in Int /\ 0 <= SsBound /\ SsMaxResolve \in Int /\ SsCacheTtl \in Int
      /\ SsCacheTtl <= SsBound
      /\ \A s \in SsIds : ssGone.session[s] \in 0..(SsBound + 1)
      /\ ssGone.user \in 0..(SsBound + 1) /\ ssGone.member \in 0..(SsBound + 1)
  BY <1>0, SsNumbers DEF SsGones
<1>2. /\ \A t \in SsThreads : ssThread[t].pc \in SsResolving => ssThread[t].age < SsMaxResolve
      /\ ssThread' = [t \in SsThreads |-> aged(ssThread[t])]
      /\ ssCache' = [q \in SsProcesses |-> [s \in SsIds |-> SsAged(ssCache[q][s])]]
      /\ ssGone' = [session |-> [s \in SsIds |->
                                   older(ssGone.session[s], ssRow[s] \in {"none", "live"})],
                    user |-> older(ssGone.user, ssUser), member |-> older(ssGone.member, ssMember)]
      /\ UNCHANGED <<ssRow, ssUser, ssMember, ssAdmin>>
  BY DEF SsTick
<1>3. \A n \in 0..(SsBound + 1) :
        /\ older(n, TRUE) = 0 /\ older(n, FALSE) \in 0..(SsBound + 1) /\ older(n, FALSE) <= n + 1
        /\ 0 \in 0..(SsBound + 1)
  BY <1>1
<1>4. \A n \in 0..(SsBound + 1), holds \in BOOLEAN :
        older(n, holds) \in 0..(SsBound + 1) /\ older(n, holds) <= n + 1
        /\ (holds => older(n, holds) = 0)
  BY <1>1, <1>3
<1> HIDE DEF older
<1>5. /\ ssGone' \in SsGones
      /\ \A s \in SsIds : /\ ssGone'.session[s] <= ssGone.session[s] + 1
                          /\ ssRow[s] \in {"none", "live"} => ssGone'.session[s] = 0
      /\ ssGone'.user <= ssGone.user + 1 /\ (ssUser => ssGone'.user = 0)
      /\ ssGone'.member <= ssGone.member + 1 /\ (ssMember => ssGone'.member = 0)
  <2>1. /\ \A s \in SsIds :
             ssGone'.session[s] = older(ssGone.session[s], ssRow[s] \in {"none", "live"})
        /\ ssGone'.session =
             [s \in SsIds |-> older(ssGone.session[s], ssRow[s] \in {"none", "live"})]
        /\ ssGone'.user = older(ssGone.user, ssUser)
        /\ ssGone'.member = older(ssGone.member, ssMember)
    BY <1>2
  <2>2. \A s \in SsIds :
          LET o == older(ssGone.session[s], ssRow[s] \in {"none", "live"}) IN
          /\ o \in 0..(SsBound + 1) /\ o <= ssGone.session[s] + 1
          /\ ssRow[s] \in {"none", "live"} => o = 0
    <3> SUFFICES ASSUME NEW s \in SsIds
                 PROVE  LET o == older(ssGone.session[s], ssRow[s] \in {"none", "live"}) IN
                        /\ o \in 0..(SsBound + 1) /\ o <= ssGone.session[s] + 1
                        /\ ssRow[s] \in {"none", "live"} => o = 0
      OBVIOUS
    <3>1. ssGone.session[s] \in 0..(SsBound + 1)
      BY <1>1
    <3>2. CASE ssRow[s] \in {"none", "live"}
      <4>1. older(ssGone.session[s], ssRow[s] \in {"none", "live"}) = 0
        BY <3>2 DEF older
      <4>. QED BY <1>1, <3>1, <4>1
    <3>3. CASE ssRow[s] \notin {"none", "live"}
      <4>1. older(ssGone.session[s], ssRow[s] \in {"none", "live"})
              = IF ssGone.session[s] > SsBound THEN ssGone.session[s] ELSE ssGone.session[s] + 1
        BY <3>3 DEF older
      <4>. QED BY <1>1, <3>1, <3>3, <4>1
    <3>. QED BY <3>2, <3>3
  <2>3. /\ ssGone'.user \in 0..(SsBound + 1) /\ ssGone'.member \in 0..(SsBound + 1)
        /\ ssGone'.user <= ssGone.user + 1 /\ (ssUser => ssGone'.user = 0)
        /\ ssGone'.member <= ssGone.member + 1 /\ (ssMember => ssGone'.member = 0)
    BY <1>0, <1>1, <1>4, <2>1
  <2>4. ssGone'.session \in [SsIds -> 0..(SsBound + 1)]
    BY <2>1, <2>2
  <2>5. ssGone' = [session |-> ssGone'.session, user |-> ssGone'.user, member |-> ssGone'.member]
    BY <1>2
  <2>6. ssGone' \in SsGones
    BY <2>3, <2>4, <2>5, SsNumbers DEF SsGones
  <2>. QED BY <2>1, <2>2, <2>3, <2>6
<1>6. SsHeld'
  BY <1>2, <1>5 DEF SsHeld
<1>7. /\ ssCache' \in SsCaches
      /\ \A q \in SsProcesses, s \in SsIds :
           ssCache'[q][s] > 0 => ssCache[q][s] > 0 /\ ssCache'[q][s] = ssCache[q][s] - 1
  <2>1. \A q \in SsProcesses, s \in SsIds : ssCache[q][s] \in 0..(SsCacheTtl + 1)
    BY <1>0 DEF SsCaches
  <2>2. \A n \in 0..(SsCacheTtl + 1) :
          SsAged(n) \in 0..(SsCacheTtl + 1) /\ (SsAged(n) > 0 => n > 0 /\ SsAged(n) = n - 1)
    BY <1>1 DEF SsAged
  <2>3. \A q \in SsProcesses, s \in SsIds : ssCache'[q][s] = SsAged(ssCache[q][s])
    BY <1>2
  <2>. QED BY <1>2, <2>1, <2>2, <2>3 DEF SsCaches
<1>8. SsCacheLately'
  <2> SUFFICES ASSUME NEW q \in SsProcesses, NEW s \in SsIds, ssCache'[q][s] > 0
               PROVE  /\ ssGone'.session[s] + ssCache'[q][s] <= SsBound + 1
                      /\ ssGone'.user + ssCache'[q][s] <= SsBound + 1
                      /\ ssGone'.member + ssCache'[q][s] <= SsBound + 1
    BY DEF SsCacheLately
  <2>1. /\ ssGone.session[s] + ssCache[q][s] <= SsBound + 1
        /\ ssGone.user + ssCache[q][s] <= SsBound + 1
        /\ ssGone.member + ssCache[q][s] <= SsBound + 1
        /\ ssCache'[q][s] = ssCache[q][s] - 1
    BY <1>0, <1>7 DEF SsCacheLately
  <2>2. /\ ssCache[q][s] \in Int /\ ssGone.session[s] \in Int /\ ssGone.user \in Int
        /\ ssGone.member \in Int /\ ssGone'.session[s] \in Int /\ ssGone'.user \in Int
        /\ ssGone'.member \in Int
    BY <1>0, <1>1, <1>5, SsNumbers DEF SsCaches, SsGones
  <2>3. /\ ssGone'.session[s] <= ssGone.session[s] + 1
        /\ ssGone'.user <= ssGone.user + 1 /\ ssGone'.member <= ssGone.member + 1
    BY <1>5
  <2>. QED BY <1>1, <2>1, <2>2, <2>3
<1>9. \A t \in SsThreads :
        LET th == ssThread[t]  n == ssThread'[t] IN
        /\ n \in SsRequests /\ n.pc = th.pc /\ n.op = th.op /\ n.process = th.process
        /\ n.sid = th.sid /\ n.reads = th.reads /\ n.owed = th.owed
        /\ n.age = IF th.pc \in SsResolving THEN th.age + 1 ELSE th.age
  <2> SUFFICES ASSUME NEW t \in SsThreads
               PROVE  LET th == ssThread[t]  n == ssThread'[t] IN
                      /\ n \in SsRequests /\ n.pc = th.pc /\ n.op = th.op /\ n.process = th.process
                      /\ n.sid = th.sid /\ n.reads = th.reads /\ n.owed = th.owed
                      /\ n.age = IF th.pc \in SsResolving THEN th.age + 1 ELSE th.age
    OBVIOUS
  <2>1. ssThread[t] \in SsRequests /\ ssThread'[t] = aged(ssThread[t])
    BY <1>0, <1>2
  <2>2. CASE ssThread[t].pc \in SsResolving
    <3>1. ssThread[t].age + 1 \in 0..SsMaxResolve
      BY <1>1, <1>2, <2>1, <2>2 DEF SsRequests
    <3>2. ssThread'[t] = [ssThread[t] EXCEPT !.age = ssThread[t].age + 1]
      BY <2>1, <2>2
    <3>. QED BY <2>1, <2>2, <3>1, <3>2 DEF SsRequests
  <2>3. CASE ssThread[t].pc \notin SsResolving
    BY <2>1, <2>3
  <2>. QED BY <2>2, <2>3
<1>10. ssThread' \in [SsThreads -> SsRequests]
  BY <1>2, <1>9
<1>11. SsTypeOK'
  BY <1>0, <1>2, <1>5, <1>7, <1>10, SsTyped
<1>12. ASSUME NEW t \in SsThreads  PROVE SsFits(ssThread'[t], ssRow', ssGone')
  <2>1. SsFits(ssThread[t], ssRow, ssGone) /\ ssThread[t] \in SsRequests
    BY <1>0 DEF SsInv
  <2>2. /\ ssThread[t].age \in Int /\ ssGone.user \in Int /\ ssGone'.user \in Int
        /\ ssGone.member \in Int /\ ssGone'.member \in Int
        /\ \A s \in SsIds : ssGone.session[s] \in Int /\ ssGone'.session[s] \in Int
    BY <1>0, <1>5, <2>1, SsNumbers DEF SsGones, SsRequests
  <2>3. ssThread[t].pc \in {"user", "member", "put"} => ssThread[t].sid \in SsIds
    BY <2>1 DEF SsFits, SsResolving
  <2>4. /\ ssThread[t].pc \in {"user", "member", "put"} =>
             ssGone'.session[ssThread[t].sid] <= ssThread[t].age + 1
        /\ ssThread[t].pc \in {"member", "put"} => ssGone'.user <= ssThread[t].age + 1
        /\ ssThread[t].pc = "put" => ssGone'.member <= ssThread[t].age + 1
    BY <1>5, <2>1, <2>2, <2>3 DEF SsFits
  <2>5. ssThread'[t].pc = ssThread[t].pc /\ ssThread'[t].sid = ssThread[t].sid
    BY <1>9
  <2>6. /\ ssThread'[t].pc \in {"user", "member", "put"} =>
             ssGone'.session[ssThread'[t].sid] <= ssThread'[t].age
        /\ ssThread'[t].pc \in {"member", "put"} => ssGone'.user <= ssThread'[t].age
        /\ ssThread'[t].pc = "put" => ssGone'.member <= ssThread'[t].age
    BY <1>9, <2>4, <2>5 DEF SsResolving
  <2>7. ssThread'[t].pc \in {"lookup", "served"} => ssThread'[t].age = 0
    BY <1>9, <2>1, <2>5 DEF SsFits, SsResolving
  <2>8. \A s \in ssThread'[t].owed :
          /\ ssRow'[s] # "none" /\ s # ssThread'[t].sid
          /\ ssThread'[t].pc = "write" => ssRow'[s] = "revoked" \/ s \in ssThread'[t].reads
          /\ ssThread'[t].pc = "clear" => ssRow'[s] = "revoked"
    BY <1>2, <1>9, <2>1 DEF SsFits
  <2>. QED BY <1>9, <2>1, <2>6, <2>7, <2>8 DEF SsFits
<1>. QED BY <1>6, <1>8, <1>11, <1>12 DEF SsInv

\* What every step keeps of the sessions.
LEMMA SsInductive ==
  ASSUME SsInv, [SsNext]_ssVars
  PROVE  SsInv'
<1>1. CASE UNCHANGED ssVars
  BY <1>1 DEF ssVars, SsInv, SsTypeOK, SsHeld, SsCacheLately, SsFits
<1>2. CASE SsNext
  BY <1>2, SsArriveKeeps, SsResolveKeeps, SsServeKeeps, SsChangeKeeps, SsWriteKeeps, SsPutKeeps,
     SsAdministerKeeps, SsExpireKeeps, SsTickKeeps
  DEF SsNext, SsStep
<1>. QED BY <1>1, <1>2

\* A request is served from an entry of the cache or by one it has put there.
LEMMA SsServedLately ==
  ASSUME SsInv, [SsNext]_ssVars, NEW t \in SsThreads,
         ssThread[t].pc # "served", ssThread'[t].pc = "served"
  PROVE  /\ ssGone.session[ssThread[t].sid] <= SsBound
         /\ ssGone.user <= SsBound /\ ssGone.member <= SsBound
<1> DEFINE th == ssThread[t]
<1>0. /\ SsTypeOK /\ SsCacheLately /\ ssThread \in [SsThreads -> SsRequests]
      /\ ssCache \in SsCaches /\ ssGone \in SsGones
      /\ th \in SsRequests /\ SsFits(th, ssRow, ssGone)
  BY SsTypes DEF SsInv
<1>1. /\ SsBound \in Int /\ SsMaxResolve \in Int /\ SsMaxResolve <= SsBound
      /\ \A s \in SsIds : ssGone.session[s] \in Int
      /\ ssGone.user \in Int /\ ssGone.member \in Int
      /\ \A p \in SsProcesses, s \in SsIds : ssCache[p][s] \in Int /\ 0 <= ssCache[p][s]
  BY <1>0, SsNumbers DEF SsGones, SsCaches
<1>2. CASE SsLookup(t)
  <2>1. /\ th.pc = "lookup" /\ ssCache[th.process][th.sid] # 0
        /\ th.process \in SsProcesses /\ th.sid \in SsIds
    <3>1. th.pc = "lookup" /\ th.process \in SsProcesses /\ th.sid \in SsIds
      BY <1>0, <1>2 DEF SsLookup, SsFits
    <3>2. ssThread'[t].pc = IF ssCache[th.process][th.sid] # 0 THEN "served" ELSE "session"
      BY <1>0, <1>2 DEF SsLookup, SsRequests
    <3>. QED BY <3>1, <3>2
  <2>. QED BY <1>0, <1>1, <2>1 DEF SsCacheLately
<1>3. CASE SsPut(t)
  <2>1. th.pc = "put" /\ th.sid \in SsIds /\ th.age \in Int /\ th.age <= SsMaxResolve
    BY <1>0, <1>3, SsNumbers DEF SsPut, SsFits, SsResolving, SsRequests
  <2>. QED BY <1>0, <1>1, <2>1 DEF SsFits
<1>4. ASSUME NEW n, n.pc # "served", ssThread' = [ssThread EXCEPT ![t] = n]  PROVE FALSE
  BY <1>0, <1>4
<1>5. SsFree.pc = "idle"
  BY DEF SsFree
<1>6. CASE \E u \in SsThreads \ {t} : SsStep(u) \/ SsLogin(u)
  <2>1. ssThread'[t] = ssThread[t]
    BY <1>0, <1>6 DEF SsStep, SsLookup, SsRead, SsPut, SsServe, SsSetPassword, SsReadOthers,
                      SsRevoke, SsClear, SsCreate, SsLogin
  <2>. QED BY <2>1
<1>7. CASE SsRead(t)
  <2>1. \E n \in {SsFree} \cup {[th EXCEPT !.pc = next] : next \in {"user", "member", "put"}} :
          ssThread' = [ssThread EXCEPT ![t] = n]
    BY <1>7 DEF SsRead
  <2>2. \A next \in {"user", "member", "put"} : [th EXCEPT !.pc = next].pc = next
    BY <1>0 DEF SsRequests
  <2>. QED BY <1>4, <1>5, <2>1, <2>2
<1>8. CASE SsServe(t)
  BY <1>8 DEF SsServe
<1>9. CASE SsSetPassword(t) \/ SsReadOthers(t) \/ SsRevoke(t)
  <2>1. ssThread'[t].pc \in {"revoke", "clear", "write"}
    BY <1>0, <1>9 DEF SsSetPassword, SsReadOthers, SsRevoke, SsRequests
  <2>. QED BY <2>1
<1>10. CASE SsClear(t) \/ SsCreate(t)
  <2>1. ssThread' = [ssThread EXCEPT ![t] = SsFree]
    BY <1>10 DEF SsClear, SsCreate
  <2>. QED BY <1>4, <1>5, <2>1
<1>11. CASE SsLogin(t)
  <2>1. [SsFree EXCEPT !.pc = "create", !.op = "login"].pc = "create"
    BY DEF SsFree
  <2>. QED BY <1>4, <1>11, <2>1 DEF SsLogin
<1>12. ASSUME NEW u \in SsThreads, NEW p \in SsProcesses,
              \/ SsAdminister(u, p)
              \/ \E s \in SsIds, op \in {"read", "logout", "change"} : SsRequest(u, p, s, op)
       PROVE  FALSE
  <2>1. CASE u # t
    <3>1. ssThread'[t] = ssThread[t]
      BY <1>0, <1>12, <2>1 DEF SsAdminister, SsRequest
    <3>. QED BY <3>1
  <2>2. CASE u = t
    <3>1. \A op, s :
            [SsFree EXCEPT !.pc = "lookup", !.op = op, !.process = p, !.sid = s].pc = "lookup"
      BY DEF SsFree
    <3>2. /\ [SsFree EXCEPT !.pc = "clear", !.op = "end", !.process = p].pc = "clear"
          /\ [SsFree EXCEPT !.pc = "set", !.op = "end", !.process = p].pc = "set"
      BY DEF SsFree
    <3>. QED BY <1>4, <1>12, <2>2, <3>1, <3>2 DEF SsAdminister, SsRequest
  <2>. QED BY <2>1, <2>2
<1>13. CASE SsTick
  <2>1. ssThread'[t] = IF th.pc \in SsResolving THEN [th EXCEPT !.age = @ + 1] ELSE th
    BY <1>13 DEF SsTick
  <2>2. ssThread'[t].pc = th.pc
    BY <1>0, <2>1 DEF SsRequests
  <2>. QED BY <2>2
<1>14. CASE (\E s \in SsIds : SsExpire(s)) \/ UNCHANGED ssVars
  BY <1>14 DEF SsExpire, ssVars
<1>. QED
  BY <1>2, <1>3, <1>6, <1>7, <1>8, <1>9, <1>10, <1>11, <1>12, <1>13, <1>14 DEF SsNext, SsStep

\* Sessions begin with none open, nothing cached and no request under way.
LEMMA SsStarts ==
  ASSUME SsInit
  PROVE  SsInv
<1>1. /\ ssRow \in SsRows /\ ssGone \in SsGones /\ ssCache \in SsCaches
      /\ ssThread \in [SsThreads -> SsRequests]
      /\ ssUser \in BOOLEAN /\ ssMember \in BOOLEAN /\ ssAdmin \in 0..MaxSsAdmin
  <2>1. 0 \in SsAges /\ 0 \in 0..(SsCacheTtl + 1) /\ 0 \in 0..MaxSsAdmin
    BY SsNumbers, SsAssumption
  <2>. QED BY <2>1, SsFreeFits DEF SsInit, SsRows, SsGones, SsCaches
<1>2. SsTypeOK
  BY <1>1 DEF SsTypeOK, SsRows, SsGones, SsCaches, SsRequests
<1>3. SsHeld /\ SsCacheLately
  <2>1. \A p \in SsProcesses, s \in SsIds : ssCache[p][s] = 0 /\ ~(ssCache[p][s] > 0)
    <3>1. \A p \in SsProcesses, s \in SsIds : ssCache[p][s] = 0
      BY DEF SsInit
    <3>2. ~(0 > 0)
      OBVIOUS
    <3>. QED BY <3>1, <3>2
  <2>2. /\ \A s \in SsIds : ssGone.session[s] = 0
        /\ ssGone.user = 0 /\ ssGone.member = 0
    BY DEF SsInit
  <2>. QED BY <2>1, <2>2 DEF SsHeld, SsCacheLately
<1>4. \A t \in SsThreads : SsFits(ssThread[t], ssRow, ssGone)
  BY SsFreeFits DEF SsInit
<1>. QED BY <1>2, <1>3, <1>4 DEF SsInv

\* Whoever lost access is refused within the life of an entry and the time a principal takes to
\* resolve, at every process, and a change of the password has ended the other sessions when it
\* answers: for every number of sessions, requests and processes, and whatever the two times are.
THEOREM SessionsEnd == SsSpec => SessionsKept
<1>1. SsInit => SsInv
  BY SsStarts
<1>2. SsInv /\ [SsNext]_ssVars => SsInv'
  BY SsInductive
<1>3. SsInv => SessionsSound
  BY DEF SsInv, SsFits, SessionsSound, ChangeEndsOthers
<1>4. SsInv /\ [SsNext]_ssVars =>
        [\A t \in SsThreads : ssThread[t].pc # "served" /\ ssThread'[t].pc = "served" =>
           /\ ssGone.session[ssThread[t].sid] <= SsBound
           /\ ssGone.user <= SsBound /\ ssGone.member <= SsBound]_ssVars
  BY SsServedLately
<1>. QED BY <1>1, <1>2, <1>3, <1>4, PTL DEF SsSpec, SessionsKept, RevokedSoonRefused

-----------------------------------------------------------------------------
(* Tasks for users. *)

InTaskSet ==
  [subject: InSubjects \cup {NoSubject}, status: InActive \cup InClosed \cup {"none"},
   resolved: 0..MaxInDay, since: 0..MaxInDay]
InRunSet ==
  [pc: {"idle", "scan", "ask", "insert"}, todo: SUBSET InSubjects, done: SUBSET InTriggers,
   known: SUBSET InSubjects, made: SUBSET InTasks, quiet: SUBSET InSubjects]
InTyped ==
  /\ inTask \in [InTasks -> InTaskSet]
  /\ inRun \in [InRuns -> InRunSet]
  /\ inFate \in [InTasks -> {"none", "made", "announced", "lost"}]
  /\ inCause \in [raced: SUBSET InSubjects, reopened: SUBSET InSubjects,
                  resolvedFirst: SUBSET InSubjects, noise: SUBSET InSubjects]
  /\ inDay \in 1..MaxInDay /\ inPatches \in 0..MaxInPatches

\* A task that is none has nothing.
InWhole ==
  \A t \in InTasks : /\ inTask[t].status = "none" <=> inTask[t] = InNoTask
                     /\ inTask[t].status = "none" <=> inTask[t].subject = NoSubject

\* Only a run that inserts has made tasks, and each task is one run's.
InMakers ==
  /\ \A r \in InRuns : inRun[r].pc # "insert" => inRun[r].made = {}
  /\ \A r, u \in InRuns : \A t \in inRun[r].made \cap inRun[u].made : r = u

InIsActive(t, s) == inTask[t].subject = s /\ inTask[t].status \in InActive

\* What a run that inserts does not know of has no open task, and a subject has one at most.
InOnce ==
  \A s \in InSubjects \ (inCause.raced \cup inCause.reopened) :
    /\ \A t, v \in InTasks : InIsActive(t, s) /\ InIsActive(v, s) => t = v
    /\ \A r \in InRuns : inRun[r].pc = "insert" /\ s \notin inRun[r].known =>
         \A t \in InTasks : ~InIsActive(t, s)

\* A dismissal counts from the day it is noted with, unless the task had been resolved; what is
\* to be left alone is known to a run, or such a task.
InDismissals ==
  /\ \A t \in InTasks :
       inTask[t].status = "dismissed" /\ inTask[t].subject \notin inCause.resolvedFirst =>
         inTask[t].resolved = inTask[t].since
  /\ \A r \in InRuns : inRun[r].pc = "insert" =>
       inRun[r].quiet \subseteq inRun[r].known \cup inCause.resolvedFirst

InInv ==
  /\ InTyped /\ InWhole /\ InMakers /\ InOnce /\ InDismissals
  /\ DismissedStaysQuiet /\ ClosedSaysWhen /\ EveryTaskAccounted

\* At first there are no tasks and no runs.
LEMMA InInitHolds ==
  ASSUME InInit, InAssumption
  PROVE  InInv
<1>1. InNoTask \in InTaskSet
  BY InAssumption DEF InNoTask, InTaskSet, InActive, InClosed, InAssumption
<1>2. InIdle \in InRunSet
  BY DEF InIdle, InRunSet
<1>3. InTyped
  BY <1>1, <1>2 DEF InInit, InTyped, InAssumption
<1>4. /\ \A t \in InTasks : inTask[t] = InNoTask /\ inFate[t] = "none"
      /\ \A r \in InRuns : inRun[r] = InIdle
  BY DEF InInit
<1>5. InWhole /\ InMakers /\ InOnce /\ InDismissals
  BY <1>4 DEF InWhole, InMakers, InOnce, InDismissals, InIsActive, InNoTask, InIdle, InActive,
              InClosed
<1>6. DismissedStaysQuiet /\ ClosedSaysWhen /\ EveryTaskAccounted
  BY <1>4 DEF DismissedStaysQuiet, ClosedSaysWhen, EveryTaskAccounted, InNoTask, InIdle, InClosed,
              InInit
<1> QED
  BY <1>3, <1>5, <1>6 DEF InInv

\* What must hold of a run that goes on to be run while the tasks stay as they are.
InGoodRun(run) ==
  /\ run \in InRunSet
  /\ run.pc # "insert" => run.made = {}
  /\ run.pc = "insert" =>
       /\ run.quiet \subseteq run.known \cup inCause.resolvedFirst
       /\ \A s \in InSubjects \ (inCause.raced \cup inCause.reopened) :
            s \notin run.known => \A t \in InTasks : ~InIsActive(t, s)

\* A run of which the invariant held is such a run.
LEMMA InGoodAsIs ==
  ASSUME InInv, NEW r \in InRuns
  PROVE  InGoodRun(inRun[r])
BY DEF InInv, InTyped, InGoodRun, InMakers, InOnce, InDismissals

\* A run goes on: its made tasks stay its own.
LEMMA InGoesOn ==
  ASSUME InInv, NEW r \in InRuns, NEW run, InGoodRun(run), InGoes(r, run),
         run.made = inRun[r].made
  PROVE  InInv'
<1>1. /\ inRun' = [inRun EXCEPT ![r] = run]
      /\ inTask' = inTask /\ inDay' = inDay /\ inPatches' = inPatches /\ inFate' = inFate
      /\ inCause' = inCause
  BY DEF InGoes
<1>2. InTyped'
  BY <1>1 DEF InInv, InTyped, InGoodRun
<1>3. \A u \in InRuns : inRun'[u] = IF u = r THEN run ELSE inRun[u]
  BY <1>1 DEF InInv, InTyped
<1>4. \A u \in InRuns : inRun'[u].made = inRun[u].made
  BY <1>3
<1>5. InWhole' /\ DismissedStaysQuiet' /\ ClosedSaysWhen'
  BY <1>1 DEF InInv, InWhole, DismissedStaysQuiet, ClosedSaysWhen
<1>6. EveryTaskAccounted'
  BY <1>1, <1>4 DEF InInv, EveryTaskAccounted
<1>7. InMakers'
  BY <1>3, <1>4 DEF InInv, InMakers, InGoodRun
<1>8. InOnce'
  <2> SUFFICES ASSUME NEW s \in InSubjects \ (inCause.raced \cup inCause.reopened)
               PROVE  /\ \A t, v \in InTasks : InIsActive(t, s) /\ InIsActive(v, s) => t = v
                      /\ \A u \in InRuns : inRun'[u].pc = "insert" /\ s \notin inRun'[u].known =>
                           \A t \in InTasks : ~InIsActive(t, s)
    BY <1>1 DEF InOnce, InIsActive
  <2>1. \A t, v \in InTasks : InIsActive(t, s) /\ InIsActive(v, s) => t = v
    BY DEF InInv, InOnce
  <2>2. ASSUME NEW u \in InRuns, inRun'[u].pc = "insert", s \notin inRun'[u].known
        PROVE  \A t \in InTasks : ~InIsActive(t, s)
    <3>1. InGoodRun(inRun'[u])
      BY InGoodAsIs, <1>3
    <3> QED
      BY <3>1, <2>2 DEF InGoodRun
  <2> QED
    BY <2>1, <2>2
<1>9. InDismissals'
  <2>1. \A u \in InRuns : InGoodRun(inRun'[u])
    BY InGoodAsIs, <1>3
  <2>2. \A u \in InRuns : inRun'[u].pc = "insert" =>
          inRun'[u].quiet \subseteq inRun'[u].known \cup inCause'.resolvedFirst
    BY <2>1, <1>1 DEF InGoodRun
  <2> QED
    BY <2>2, <1>1 DEF InInv, InDismissals
<1> QED
  BY <1>2, <1>5, <1>6, <1>7, <1>8, <1>9 DEF InInv

\* A run starts.
LEMMA InStartKeeps ==
  ASSUME InInv, NEW r \in InRuns, InStart(r)
  PROVE  InInv'
<1> DEFINE run == [InIdle EXCEPT !.pc = "scan"]
<1>1. run \in InRunSet /\ run.pc = "scan" /\ run.made = {}
  BY DEF InIdle, InRunSet
<1>2. inRun[r].made = {}
  BY DEF InStart, InInv, InMakers
<1>3. InGoes(r, run)
  BY DEF InStart
<1>4. InGoodRun(run)
  BY <1>1 DEF InGoodRun
<1> QED
  BY <1>1, <1>2, <1>3, <1>4, InGoesOn

\* A run asks the marts.
LEMMA InScanKeeps ==
  ASSUME InInv, NEW r \in InRuns, InScan(r)
  PROVE  InInv'
<1>1. inRun[r] \in InRunSet /\ inRun[r].pc = "scan"
  BY DEF InScan, InInv, InTyped
<1>2. inRun[r].made = {}
  BY <1>1 DEF InInv, InMakers
<1>3. \A run \in InRunSet :
        run.pc # "insert" /\ run.made = {} /\ InGoes(r, run) => InInv'
  <2> SUFFICES ASSUME NEW run \in InRunSet, run.pc # "insert", run.made = {}, InGoes(r, run)
               PROVE  InInv'
    OBVIOUS
  <2>1. InGoodRun(run)
    BY DEF InGoodRun
  <2> QED
    BY <2>1, <1>2, InGoesOn
<1>4. CASE InGoes(r, [inRun[r] EXCEPT !.pc = "ask", !.done = {}])
  <2> DEFINE run == [inRun[r] EXCEPT !.pc = "ask", !.done = {}]
  <2>1. run \in InRunSet /\ run.pc = "ask" /\ run.made = {}
    BY <1>1, <1>2 DEF InRunSet
  <2> QED
    BY <2>1, <1>3, <1>4
<1>5. ASSUME NEW trigger \in InTriggers, NEW found \in SUBSET InSubjects,
             InGoes(r, [inRun[r] EXCEPT !.done = @ \cup {trigger}, !.todo = @ \cup found])
      PROVE  InInv'
  <2> DEFINE run == [inRun[r] EXCEPT !.done = @ \cup {trigger}, !.todo = @ \cup found]
  <2>1. run \in InRunSet /\ run.pc = "scan" /\ run.made = {}
    BY <1>1, <1>2 DEF InRunSet
  <2> QED
    BY <2>1, <1>3, <1>5
<1>6. ASSUME NEW trigger \in InTriggers,
             InGoes(r, [inRun[r] EXCEPT !.done = @ \cup {trigger}])
      PROVE  InInv'
  <2> DEFINE run == [inRun[r] EXCEPT !.done = @ \cup {trigger}]
  <2>1. run \in InRunSet /\ run.pc = "scan" /\ run.made = {}
    BY <1>1, <1>2 DEF InRunSet
  <2> QED
    BY <2>1, <1>3, <1>6
<1>7. \A trigger, facts : InFound(trigger, facts) \in SUBSET InSubjects
  BY DEF InFound
<1> QED
  BY <1>4, <1>5, <1>6, <1>7 DEF InScan

\* A run asks which tasks there are: what it then does not know of has no open one.
LEMMA InAskKeeps ==
  ASSUME InInv, NEW r \in InRuns, InAsk(r)
  PROVE  InInv'
<1> DEFINE run == [inRun[r] EXCEPT !.pc = "insert", !.known = InKnown, !.quiet = InQuiet]
<1>1. inRun[r] \in InRunSet /\ inRun[r].made = {}
  BY DEF InAsk, InInv, InTyped, InMakers
<1>2. InKnown \subseteq InSubjects /\ InQuiet \subseteq InSubjects
  BY DEF InKnown, InQuiet
<1>3. /\ run \in InRunSet /\ run.pc = "insert" /\ run.made = {}
      /\ run.known = InKnown /\ run.quiet = InQuiet
  BY <1>1, <1>2 DEF InRunSet
<1>4. InQuiet \subseteq InKnown \cup inCause.resolvedFirst
  BY DEF InQuiet, InKnown, InOf, InInv, InDismissals
<1>5. \A s \in InSubjects : s \notin InKnown => \A t \in InTasks : ~InIsActive(t, s)
  BY DEF InKnown, InOf, InIsActive
<1>6. InGoodRun(run)
  BY <1>3, <1>4, <1>5 DEF InGoodRun
<1>7. InGoes(r, run)
  BY DEF InAsk
<1> QED
  BY <1>1, <1>3, <1>6, <1>7, InGoesOn

\* A run passes over a recommendation.
LEMMA InPassKeeps ==
  ASSUME InInv, NEW r \in InRuns, NEW s \in InSubjects, InPass(r, s)
  PROVE  InInv'
<1> DEFINE run == [inRun[r] EXCEPT !.todo = @ \ {s}]
<1>1. inRun[r] \in InRunSet
  BY DEF InInv, InTyped
<1>2. /\ run \in InRunSet /\ run.pc = inRun[r].pc /\ run.made = inRun[r].made
      /\ run.known = inRun[r].known /\ run.quiet = inRun[r].quiet
  BY <1>1 DEF InRunSet
<1>3. InGoodRun(run)
  BY <1>2, InGoodAsIs DEF InGoodRun
<1>4. InGoes(r, run)
  BY DEF InPass
<1> QED
  BY <1>2, <1>3, <1>4, InGoesOn

\* A run makes a task for what it knows none of.
LEMMA InInsertKeeps ==
  ASSUME InInv, InAssumption, NEW r \in InRuns, NEW s \in InSubjects, InInsert(r, s)
  PROVE  InInv'
<1> DEFINE row == [InNoTask EXCEPT !.subject = s, !.status = "open"]
<1>1. PICK t \in InTasks :
        /\ inTask[t] = InNoTask
        /\ inTask' = [inTask EXCEPT ![t] = row]
        /\ inFate' = [inFate EXCEPT ![t] = "made"]
        /\ inRun' = [u \in InRuns |->
                       IF u = r THEN [inRun[r] EXCEPT !.todo = @ \ {s}, !.known = @ \cup {s},
                                                      !.made = @ \cup {t}]
                       ELSE inRun[u]]
        /\ inCause' = [inCause EXCEPT
             !.raced = @ \cup {x \in {s} : \E u \in InRuns \ {r} : inRun[u].pc = "insert"},
             !.noise = @ \cup ({s} \cap inRun[r].quiet)]
  BY DEF InInsert
<1>2. /\ row \in InTaskSet /\ row.subject = s /\ row.status = "open" /\ row.resolved = 0
      /\ row # InNoTask
  <2>1. InNoTask \in InTaskSet
    BY InAssumption DEF InNoTask, InTaskSet, InAssumption
  <2>2. row \in InTaskSet /\ row.subject = s /\ row.status = "open" /\ row.resolved = 0
    <3>1. "open" \in InActive
      BY DEF InActive
    <3>2. InNoTask.resolved = 0
      BY DEF InNoTask
    <3> QED
      BY <2>1, <3>1, <3>2 DEF InTaskSet
  <2>3. InNoTask.status = "none"
    BY DEF InNoTask
  <2> QED
    BY <2>1, <2>2, <2>3
<1> HIDE DEF row
<1>3. /\ inRun[r].pc = "insert" /\ s \notin inRun[r].known
      /\ inDay' = inDay /\ inPatches' = inPatches
  BY DEF InInsert
<1>4. \A v \in InTasks : inTask'[v] = IF v = t THEN row ELSE inTask[v]
  BY <1>1 DEF InInv, InTyped
<1>5. \A v \in InTasks : inFate'[v] = IF v = t THEN "made" ELSE inFate[v]
  BY <1>1 DEF InInv, InTyped
<1>6. /\ inRun'[r].pc = "insert" /\ inRun'[r].known = inRun[r].known \cup {s}
      /\ inRun'[r].made = inRun[r].made \cup {t} /\ inRun'[r].quiet = inRun[r].quiet
      /\ inRun'[r] \in InRunSet
  <2>1. inRun'[r] = [inRun[r] EXCEPT !.todo = @ \ {s}, !.known = @ \cup {s}, !.made = @ \cup {t}]
    BY <1>1
  <2>2. inRun[r] \in InRunSet
    BY DEF InInv, InTyped
  <2>3. /\ inRun[r].todo \ {s} \in SUBSET InSubjects
        /\ inRun[r].known \cup {s} \in SUBSET InSubjects
        /\ inRun[r].made \cup {t} \in SUBSET InTasks
    BY <2>2 DEF InRunSet
  <2> DEFINE todo == inRun[r].todo \ {s}
             known == inRun[r].known \cup {s}
             made == inRun[r].made \cup {t}
  <2>4. inRun'[r] = [inRun[r] EXCEPT !.todo = todo, !.known = known, !.made = made]
    BY <2>1
  <2>5. known = inRun[r].known \cup {s} /\ made = inRun[r].made \cup {t}
    OBVIOUS
  <2> HIDE DEF todo, known, made
  <2>6. /\ inRun'[r].pc = inRun[r].pc /\ inRun'[r].known = known /\ inRun'[r].made = made
        /\ inRun'[r].quiet = inRun[r].quiet
    BY <2>2, <2>4 DEF InRunSet
  <2>7. inRun'[r] \in InRunSet
    BY <2>2, <2>3, <2>4 DEF InRunSet, todo, known, made
  <2> QED
    BY <2>5, <2>6, <2>7, <1>3
<1>7. \A u \in InRuns : u # r => inRun'[u] = inRun[u]
  BY <1>1
<1>8. /\ inCause'.raced =
           inCause.raced \cup {x \in {s} : \E u \in InRuns \ {r} : inRun[u].pc = "insert"}
      /\ inCause'.noise = inCause.noise \cup ({s} \cap inRun[r].quiet)
      /\ inCause'.reopened = inCause.reopened
      /\ inCause'.resolvedFirst = inCause.resolvedFirst
      /\ inCause' \in [raced: SUBSET InSubjects, reopened: SUBSET InSubjects,
                       resolvedFirst: SUBSET InSubjects, noise: SUBSET InSubjects]
  BY <1>1 DEF InInv, InTyped
<1>9. /\ \A u \in InRuns : t \notin inRun[u].made
      /\ inFate[t] = "none"
  BY <1>1 DEF InInv, EveryTaskAccounted
<1>10. InTyped'
  <2>1. inTask' \in [InTasks -> InTaskSet]
    BY <1>1, <1>2 DEF InInv, InTyped
  <2>2. inRun' \in [InRuns -> InRunSet]
    <3>1. \A u \in InRuns : inRun'[u] \in InRunSet
      BY <1>6, <1>7 DEF InInv, InTyped
    <3>2. inRun' = [u \in InRuns |-> inRun'[u]]
      BY <1>1
    <3> QED
      BY <3>1, <3>2
  <2>3. inFate' \in [InTasks -> {"none", "made", "announced", "lost"}]
    BY <1>1 DEF InInv, InTyped
  <2> QED
    BY <2>1, <2>2, <2>3, <1>8, <1>3 DEF InInv, InTyped
<1>11. InWhole'
  <2>1. s # NoSubject
    BY InAssumption DEF InAssumption
  <2> QED
    BY <2>1, <1>2, <1>4 DEF InInv, InWhole
<1>12. InMakers'
  BY <1>3, <1>6, <1>7, <1>9 DEF InInv, InMakers
<1>13. InOnce'
  <2> SUFFICES ASSUME NEW x \in InSubjects, x \notin inCause'.raced, x \notin inCause'.reopened
               PROVE  /\ \A v, w \in InTasks : InIsActive(v, x)' /\ InIsActive(w, x)' => v = w
                      /\ \A u \in InRuns : inRun'[u].pc = "insert" /\ x \notin inRun'[u].known =>
                           \A v \in InTasks : ~InIsActive(v, x)'
    BY DEF InOnce
  <2>1. /\ \A v, w \in InTasks : InIsActive(v, x) /\ InIsActive(w, x) => v = w
        /\ \A u \in InRuns : inRun[u].pc = "insert" /\ x \notin inRun[u].known =>
             \A v \in InTasks : ~InIsActive(v, x)
    BY <1>8 DEF InInv, InOnce
  <2>2. CASE x # s
    <3>1. \A v \in InTasks : InIsActive(v, x)' => InIsActive(v, x)
      BY <2>2, <1>2, <1>4 DEF InIsActive
    <3>2. \A u \in InRuns : inRun'[u].pc = "insert" /\ x \notin inRun'[u].known =>
            inRun[u].pc = "insert" /\ x \notin inRun[u].known
      BY <1>3, <1>6, <1>7
    <3> QED
      BY <3>1, <3>2, <2>1
  <2>3. CASE x = s
    <3>1. \A v \in InTasks : ~InIsActive(v, x)
      BY <2>1, <2>3, <1>3
    <3>2. \A v \in InTasks : InIsActive(v, x)' => v = t
      BY <3>1, <1>4 DEF InIsActive
    <3>3. \A u \in InRuns : u # r => inRun[u].pc # "insert"
      BY <2>3, <1>8
    <3>4. \A u \in InRuns : ~(inRun'[u].pc = "insert" /\ x \notin inRun'[u].known)
      BY <3>3, <1>6, <1>7, <2>3
    <3> QED
      BY <3>2, <3>4
  <2> QED
    BY <2>2, <2>3
<1>14. InDismissals'
  <2>1. \A v \in InTasks :
          inTask'[v].status = "dismissed" /\ inTask'[v].subject \notin inCause'.resolvedFirst =>
            inTask'[v].resolved = inTask'[v].since
    BY <1>2, <1>4, <1>8 DEF InInv, InDismissals
  <2>2. \A u \in InRuns : inRun'[u].pc = "insert" =>
          inRun'[u].quiet \subseteq inRun'[u].known \cup inCause'.resolvedFirst
    BY <1>3, <1>6, <1>7, <1>8 DEF InInv, InDismissals
  <2> QED
    BY <2>1, <2>2 DEF InDismissals
<1>15. DismissedStaysQuiet'
  <2>1. s \in inRun[r].quiet => s \in inCause.resolvedFirst
    BY <1>3 DEF InInv, InDismissals
  <2> QED
    BY <2>1, <1>8 DEF InInv, DismissedStaysQuiet
<1>16. ClosedSaysWhen'
  BY <1>2, <1>4 DEF InInv, ClosedSaysWhen, InClosed
<1>17. EveryTaskAccounted'
  <2> SUFFICES ASSUME NEW v \in InTasks
               PROVE  /\ inTask'[v] = InNoTask <=> inFate'[v] = "none"
                      /\ inFate'[v] = "made" <=> \E u \in InRuns : v \in inRun'[u].made
    BY DEF EveryTaskAccounted
  <2>1. /\ inTask[v] = InNoTask <=> inFate[v] = "none"
        /\ inFate[v] = "made" <=> \E u \in InRuns : v \in inRun[u].made
    BY DEF InInv, EveryTaskAccounted
  <2>2. CASE v = t
    BY <2>2, <1>2, <1>4, <1>5, <1>6
  <2>3. CASE v # t
    <3>1. \A u \in InRuns : v \in inRun'[u].made <=> v \in inRun[u].made
      BY <2>3, <1>6, <1>7
    <3> QED
      BY <3>1, <2>1, <2>3, <1>4, <1>5
  <2> QED
    BY <2>2, <2>3
<1> QED
  BY <1>10, <1>11, <1>12, <1>13, <1>14, <1>15, <1>16, <1>17 DEF InInv

\* A run ends: its tasks are announced, or the event is lost with the worker.
LEMMA InEndKeeps ==
  ASSUME InInv, NEW r \in InRuns, NEW fate \in {"announced", "lost"},
         inRun' = [inRun EXCEPT ![r] = InIdle],
         inFate' = [t \in InTasks |-> IF t \in inRun[r].made THEN fate ELSE inFate[t]],
         UNCHANGED <<inTask, inDay, inPatches, inCause>>
  PROVE  InInv'
<1>1. InIdle \in InRunSet /\ InIdle.made = {} /\ InIdle.pc = "idle"
  BY DEF InIdle, InRunSet
<1>2. /\ \A u \in InRuns : inRun'[u] = IF u = r THEN InIdle ELSE inRun[u]
      /\ inRun' \in [InRuns -> InRunSet]
  BY <1>1 DEF InInv, InTyped
<1>3. InTyped'
  BY <1>2 DEF InInv, InTyped
<1>4. InWhole' /\ DismissedStaysQuiet' /\ ClosedSaysWhen'
  BY DEF InInv, InWhole, DismissedStaysQuiet, ClosedSaysWhen
<1>5. InMakers'
  BY <1>1, <1>2 DEF InInv, InMakers
<1>6. InOnce'
  BY <1>1, <1>2 DEF InInv, InOnce, InIsActive
<1>7. InDismissals'
  BY <1>1, <1>2 DEF InInv, InDismissals
<1>8. EveryTaskAccounted'
  <2> SUFFICES ASSUME NEW v \in InTasks
               PROVE  /\ inTask'[v] = InNoTask <=> inFate'[v] = "none"
                      /\ inFate'[v] = "made" <=> \E u \in InRuns : v \in inRun'[u].made
    BY DEF EveryTaskAccounted
  <2>1. /\ inTask[v] = InNoTask <=> inFate[v] = "none"
        /\ inFate[v] = "made" <=> \E u \in InRuns : v \in inRun[u].made
    BY DEF InInv, EveryTaskAccounted
  <2>2. inTask'[v] = inTask[v]
    OBVIOUS
  <2>3. CASE v \in inRun[r].made
    <3>1. \A u \in InRuns : u # r => v \notin inRun[u].made
      BY <2>3 DEF InInv, InMakers
    <3>2. \A u \in InRuns : v \notin inRun'[u].made
      BY <3>1, <1>1, <1>2
    <3>3. inFate'[v] = fate /\ inFate[v] = "made"
      BY <2>1, <2>3
    <3> QED
      BY <3>2, <3>3, <2>1, <2>2
  <2>4. CASE v \notin inRun[r].made
    <3>1. \A u \in InRuns : v \in inRun'[u].made <=> v \in inRun[u].made
      BY <2>4, <1>1, <1>2
    <3>2. inFate'[v] = inFate[v]
      BY <2>4
    <3> QED
      BY <3>1, <3>2, <2>1, <2>2
  <2> QED
    BY <2>3, <2>4
<1> QED
  BY <1>3, <1>4, <1>5, <1>6, <1>7, <1>8 DEF InInv

\* A user sets the status of a task.
LEMMA InPatchKeeps ==
  ASSUME InInv, InAssumption, NEW t \in InTasks, NEW status \in InActive \cup InClosed,
         InPatch(t, status)
  PROVE  InInv'
<1> DEFINE s == inTask[t].subject
           was == inTask[t].status
           since == IF status = "dismissed" /\ inTask[t].status = status
                    THEN inTask[t].since ELSE inDay
<1>1. /\ inTask[t] # InNoTask /\ inPatches < MaxInPatches /\ inPatches' = inPatches + 1
      /\ inRun' = inRun /\ inDay' = inDay /\ inFate' = inFate
  BY DEF InPatch
<1>2. /\ inTask[t] \in InTaskSet /\ inTask \in [InTasks -> InTaskSet]
      /\ inDay \in 1..MaxInDay /\ inPatches \in 0..MaxInPatches /\ MaxInPatches \in Nat
      /\ MaxInDay \in Nat
  BY InAssumption DEF InInv, InTyped, InAssumption
<1>3. s \in InSubjects /\ was # "none"
  BY <1>1, <1>2 DEF InInv, InWhole, InTaskSet
<1>4. InResolved(t, status) \in 0..MaxInDay /\ since \in 0..MaxInDay
  BY <1>2 DEF InResolved, InTaskSet
<1>5. inTask' = [inTask EXCEPT ![t].status = status, ![t].resolved = InResolved(t, status),
                               ![t].since = since]
  BY DEF InPatch
<1>6. /\ inTask'[t] = [inTask[t] EXCEPT !.status = status, !.resolved = InResolved(t, status),
                                        !.since = since]
      /\ \A v \in InTasks : v # t => inTask'[v] = inTask[v]
  BY <1>2, <1>5
<1>7. /\ inTask'[t] \in InTaskSet
      /\ inTask'[t].subject = s /\ inTask'[t].status = status
      /\ inTask'[t].resolved = InResolved(t, status) /\ inTask'[t].since = since
  BY <1>2, <1>4, <1>6 DEF InTaskSet
<1>8. /\ inCause'.reopened = IF was \in InClosed /\ status \in InActive
                             THEN inCause.reopened \cup {s} ELSE inCause.reopened
      /\ inCause'.resolvedFirst = IF was = "resolved" /\ status = "dismissed"
                                  THEN inCause.resolvedFirst \cup {s} ELSE inCause.resolvedFirst
      /\ inCause'.raced = inCause.raced /\ inCause'.noise = inCause.noise
      /\ inCause' \in [raced: SUBSET InSubjects, reopened: SUBSET InSubjects,
                       resolvedFirst: SUBSET InSubjects, noise: SUBSET InSubjects]
  <2>1. inCause' = [inCause EXCEPT
          !.reopened = IF was \in InClosed /\ status \in InActive THEN @ \cup {s} ELSE @,
          !.resolvedFirst = IF was = "resolved" /\ status = "dismissed" THEN @ \cup {s} ELSE @]
    BY DEF InPatch
  <2>2. inCause \in [raced: SUBSET InSubjects, reopened: SUBSET InSubjects,
                     resolvedFirst: SUBSET InSubjects, noise: SUBSET InSubjects]
    BY DEF InInv, InTyped
  <2> HIDE DEF s, was
  <2> QED
    BY <2>1, <2>2, <1>3
<1>9. status # "none"
  BY DEF InActive, InClosed
<1> HIDE DEF s, was, since
<1>10. InTyped'
  <2>1. inTask' \in [InTasks -> InTaskSet]
    <3>1. \A v \in InTasks : inTask'[v] \in InTaskSet
      BY <1>2, <1>6, <1>7
    <3>2. inTask' = [v \in InTasks |-> inTask'[v]]
      BY <1>2, <1>5
    <3> QED
      BY <3>1, <3>2
  <2>2. inPatches' \in 0..MaxInPatches
    BY <1>1, <1>2
  <2> QED
    BY <2>1, <2>2, <1>1, <1>8 DEF InInv, InTyped
<1>11. inTask'[t] # InNoTask
  BY <1>7, <1>9 DEF InNoTask
<1>12. InWhole'
  <2>1. s # NoSubject
    BY <1>3, InAssumption DEF InAssumption
  <2> QED
    BY <2>1, <1>6, <1>7, <1>9, <1>11 DEF InInv, InWhole
<1>13. InMakers' /\ DismissedStaysQuiet'
  BY <1>1, <1>8 DEF InInv, InMakers, DismissedStaysQuiet
<1>14. ClosedSaysWhen'
  <2>1. status \in InClosed <=> InResolved(t, status) # 0
    BY <1>2 DEF InResolved
  <2> QED
    BY <2>1, <1>6, <1>7 DEF InInv, ClosedSaysWhen
<1>15. EveryTaskAccounted'
  BY <1>1, <1>6, <1>11 DEF InInv, EveryTaskAccounted
<1>16. InOnce'
  <2> SUFFICES ASSUME NEW x \in InSubjects, x \notin inCause'.raced, x \notin inCause'.reopened
               PROVE  /\ \A v, w \in InTasks : InIsActive(v, x)' /\ InIsActive(w, x)' => v = w
                      /\ \A u \in InRuns : inRun'[u].pc = "insert" /\ x \notin inRun'[u].known =>
                           \A v \in InTasks : ~InIsActive(v, x)'
    BY DEF InOnce
  <2>1. /\ \A v, w \in InTasks : InIsActive(v, x) /\ InIsActive(w, x) => v = w
        /\ \A u \in InRuns : inRun[u].pc = "insert" /\ x \notin inRun[u].known =>
             \A v \in InTasks : ~InIsActive(v, x)
    BY <1>8 DEF InInv, InOnce
  <2>2. \A v \in InTasks : InIsActive(v, x)' => InIsActive(v, x)
    <3>1. InIsActive(t, x)' => InIsActive(t, x)
      <4>1. was = inTask[t].status /\ s = inTask[t].subject /\ was \in InActive \cup InClosed
        BY <1>2, <1>3 DEF InTaskSet, s, was
      <4> QED
        BY <4>1, <1>7, <1>8 DEF InIsActive
    <3> QED
      BY <3>1, <1>6 DEF InIsActive
  <2> QED
    BY <2>1, <2>2, <1>1
<1>17. InDismissals'
  <2>1. ASSUME status = "dismissed", s \notin inCause'.resolvedFirst
        PROVE  InResolved(t, status) = since
    <3>1. was # "resolved" /\ s \notin inCause.resolvedFirst
      BY <2>1, <1>8
    <3>2. was \in InActive \/ was = "dismissed"
      BY <1>2, <1>3, <3>1 DEF InTaskSet, InClosed, was
    <3>3. CASE was = "dismissed"
      <4>1. inTask[t].resolved # 0 /\ inTask[t].resolved = inTask[t].since
        BY <3>1, <3>3 DEF InInv, ClosedSaysWhen, InClosed, InDismissals, s, was
      <4> QED
        BY <4>1, <3>3, <2>1 DEF InResolved, InClosed, since, was
    <3>4. CASE was \in InActive
      <4>1. inTask[t].resolved = 0
        BY <3>4 DEF InInv, ClosedSaysWhen, InClosed, InActive, was
      <4>2. was # "dismissed"
        BY <3>4 DEF InActive
      <4> QED
        BY <4>1, <4>2, <2>1 DEF InResolved, InClosed, since, was
    <3> QED
      BY <3>2, <3>3, <3>4
  <2>2. \A v \in InTasks :
          inTask'[v].status = "dismissed" /\ inTask'[v].subject \notin inCause'.resolvedFirst =>
            inTask'[v].resolved = inTask'[v].since
    BY <2>1, <1>6, <1>7, <1>8 DEF InInv, InDismissals
  <2>3. \A r \in InRuns : inRun'[r].pc = "insert" =>
          inRun'[r].quiet \subseteq inRun'[r].known \cup inCause'.resolvedFirst
    BY <1>1, <1>8 DEF InInv, InDismissals
  <2> QED
    BY <2>2, <2>3 DEF InDismissals
<1> QED
  BY <1>10, <1>12, <1>13, <1>14, <1>15, <1>16, <1>17 DEF InInv

\* What was dismissed keeps its day as the days go by.
LEMMA InTickKeeps ==
  ASSUME InInv, InAssumption, InTick
  PROVE  InInv'
<1>1. InTyped'
  BY InAssumption DEF InTick, InInv, InTyped, InAssumption
<1>2. InWhole' /\ InMakers' /\ InOnce' /\ InDismissals'
  BY DEF InTick, InInv, InWhole, InMakers, InOnce, InIsActive, InDismissals
<1>3. DismissedStaysQuiet' /\ ClosedSaysWhen' /\ EveryTaskAccounted'
  BY DEF InTick, InInv, DismissedStaysQuiet, ClosedSaysWhen, EveryTaskAccounted
<1> QED
  BY <1>1, <1>2, <1>3 DEF InInv

\* A step of the tasks keeps all of it.
LEMMA InStepKeeps ==
  ASSUME InInv, InAssumption, [InNext]_inVars
  PROVE  InInv'
<1>1. ASSUME NEW r \in InRuns, InAnnounce(r)
      PROVE  InInv'
  BY <1>1, InEndKeeps DEF InAnnounce
<1>2. ASSUME NEW r \in InRuns, InDie(r)
      PROVE  InInv'
  BY <1>2, InEndKeeps DEF InDie
<1>3. ASSUME NEW r \in InRuns, InStart(r) \/ InScan(r) \/ InAsk(r) \/ InAnnounce(r) \/ InDie(r)
      PROVE  InInv'
  BY <1>1, <1>2, <1>3, InStartKeeps, InScanKeeps, InAskKeeps
<1>4. ASSUME NEW r \in InRuns, NEW s \in InSubjects, InPass(r, s) \/ InInsert(r, s)
      PROVE  InInv'
  BY <1>4, InPassKeeps, InInsertKeeps
<1>5. ASSUME NEW t \in InTasks, NEW status \in InActive \cup InClosed, InPatch(t, status)
      PROVE  InInv'
  BY <1>5, InPatchKeeps
<1>6. CASE UNCHANGED inVars
  <2>1. InTyped' /\ InWhole' /\ InMakers' /\ InOnce' /\ InDismissals'
    BY <1>6 DEF inVars, InInv, InTyped, InWhole, InMakers, InOnce, InIsActive, InDismissals
  <2>2. DismissedStaysQuiet' /\ ClosedSaysWhen' /\ EveryTaskAccounted'
    BY <1>6 DEF inVars, InInv, DismissedStaysQuiet, ClosedSaysWhen, EveryTaskAccounted
  <2> QED
    BY <2>1, <2>2 DEF InInv
<1> QED
  BY <1>3, <1>4, <1>5, <1>6, InTickKeeps DEF InNext

\* What the invariant says of the tasks of users.
LEMMA InInvImplies ==
  ASSUME InInv
  PROVE  InsightsSound
<1>1. InTypeOK
  BY DEF InInv, InTyped, InTypeOK, InTaskSet, InRunSet
<1>2. ASSUME NEW s \in InSubjects \ (inCause.raced \cup inCause.reopened)
      PROVE  Cardinality({t \in InOf(s) : inTask[t].status \in InActive}) <= 1
  <2> DEFINE open == {t \in InOf(s) : inTask[t].status \in InActive}
  <2>1. \A t, v \in open : t = v
    BY <1>2 DEF InInv, InOnce, InIsActive, InOf
  <2>2. CASE open = {}
    BY <2>2, FS_EmptySet
  <2>3. CASE open # {}
    <3>1. PICK t : t \in open
      BY <2>3
    <3>2. open = {t}
      BY <2>1, <3>1
    <3> HIDE DEF open
    <3>3. Cardinality(open) = 1
      BY <3>2, FS_Singleton
    <3> QED
      BY <3>3 DEF open
  <2> QED
    BY <2>2, <2>3
<1>3. OneTaskPerSubject
  BY <1>2 DEF OneTaskPerSubject
<1> QED
  BY <1>1, <1>3 DEF InsightsSound, InInv

\* A user is asked once about a thing, is left alone with what was dismissed, and hears of every
\* task unless the run that made it died.
THEOREM TasksAreHeeded == InSpec => []InsightsSound
<1>1. InInit => InInv
  BY InInitHolds, InAssumption
<1>2. InInv /\ [InNext]_inVars => InInv'
  BY InStepKeeps, InAssumption
<1>3. InInv => InsightsSound
  BY InInvImplies
<1> QED
  BY <1>1, <1>2, <1>3, PTL DEF InSpec
-----------------------------------------------------------------------------
(* Rules of the repricer and the bidder. *)

\* Fields that a request sets, each of its type, and all requests there may be.
RlPatchSet ==
  {RlNothing} \cup [dry : BOOLEAN] \cup [active : BOOLEAN] \cup [target : RlValues]
  \cup [mode : {"buyer_price", "margin"}] \cup [max : {0} \cup RlValues]
  \cup [target : RlValues, dry : BOOLEAN, mode : {"buyer_price", "margin"}]
  \cup [mode : {"buyer_price"}, target : RlValues]
  \cup [mode : {"buyer_price"}, target : RlValues, active : {TRUE}]
  \cup [dry : BOOLEAN, active : {TRUE}]
RlThreadSet ==
  [pc : {"idle", "find", "read", "write"},
   op : {"none", "update", "delete", "create", "target", "import", "keep"},
   rule : RlRules \cup {NoRule}, card : RlCards \cup {RlCard}, patch : RlPatchSet,
   saw : UNION {[S -> RlRows] : S \in SUBSET RlRules}, stale : SUBSET (RlRules \cup RlCards)]
RlPairs == SUBSET (RlRules \X RlValues)
RlTyped ==
  /\ rlKind \in RlKinds
  /\ rlRow \in [RlRules -> RlRows \cup {RlNone}] /\ rlWant \in [RlRules -> RlRows \cup {RlNone}]
  /\ rlThread \in [RlThreads -> RlThreadSet]
  /\ rlRun \in [going : BOOLEAN, rules : SUBSET [id : RlRules, row : RlRows],
                wanted : RlPairs, sent : RlPairs]
  /\ rlCause \in [overlapped : SUBSET RlRules, twice : SUBSET RlCards, left : SUBSET RlRules,
                  off : SUBSET RlCards, asked : SUBSET RlRules, used : SUBSET RlRules]
  /\ rlClock \in 0..MaxRlSeconds /\ rlOps \in 0..MaxRlOps

\* A rule that was never made is in no row, in no request and not awaited by a mutation.
RlUnused ==
  /\ rlDoomed \subseteq {r \in RlRules : RlHas(rlRow, r)}
  /\ \A r \in RlRules \ rlCause.used : ~RlHas(rlRow, r) /\ ~RlHas(rlWant, r)
  /\ \A t \in RlThreads :
       DOMAIN rlThread[t].saw \subseteq rlCause.used

\* A request has what its kind of request has when it writes.
RlAbout(th) ==
  /\ th.pc # "idle" /\ th.op \in {"create", "target"} => th.card \in RlCards
  /\ th.pc # "idle" /\ th.op \in {"create", "target", "import"} =>
       "target" \in DOMAIN th.patch
  /\ th.pc = "find" => th.op \in {"target", "import", "keep"}
  /\ th.pc = "read" => th.op \in {"update", "delete", "target"} /\ th.rule \in RlRules
  /\ th.pc = "write" /\ th.op = "delete" => th.rule \in RlRules
  /\ th.pc # "idle" /\ th.op = "keep" => th.patch \in [dry : BOOLEAN, active : {TRUE}]
  /\ th.pc # "write" \/ th.op = "create" => DOMAIN th.saw = {}
RlRequests == \A t \in RlThreads : RlAbout(rlThread[t])

\* What a request saw and nobody has changed since is still so.
RlStillSo(th) ==
  \A r \in DOMAIN th.saw \ th.stale : r \notin rlDoomed /\ th.saw[r] = rlRow[r]
RlSeen == \A t \in RlThreads : RlStillSo(rlThread[t])

\* Rules are what was asked for; of those that are going away nothing is asked for.
RlAsAsked ==
  \A r \in RlRules \ rlCause.overlapped :
    /\ r \notin rlDoomed => rlRow[r] = rlWant[r]
    /\ r \in rlDoomed => rlWant[r] = RlNone

\* What a run may still send was wanted.
RlRunTrue ==
  rlRun.going => \A rule \in rlRun.rules :
    ~rule.row.dry => \/ <<rule.id, rule.row.target>> \in rlRun.wanted
                     \/ rule.id \in rlCause.overlapped

\* The rules of a card that count.
RlPlain(c) == RlOf(rlRow, c) \ (rlDoomed \cup rlCause.asked \cup rlCause.overlapped)
RlSingle == \A c \in RlCards \ rlCause.twice : \A r, s \in RlPlain(c) : r = s

\* A request that is about to make a rule for a card found none, and there is none yet unless a
\* request has come between.
RlFoundNone ==
  \A t \in RlThreads : rlThread[t].pc = "write" /\ rlThread[t].op # "create" =>
    \A c \in RlMakesFor(t) \ rlThread[t].stale : RlPlain(c) = {}

\* A request that has looked at all rules has seen one of each card that has one, unless a request
\* has come between.
RlSeesAll ==
  \A t \in RlThreads : rlThread[t].pc = "write" /\ rlThread[t].op = "keep" =>
    \A c \in RlCards \ rlThread[t].stale :
      RlOf(rlRow, c) # {} => \E r \in DOMAIN rlThread[t].saw : rlThread[t].saw[r].card = c

RlInv ==
  /\ RlTyped /\ RlUnused /\ RlRequests /\ RlSeen /\ RlAsAsked /\ RlRunTrue /\ SentAsWanted
  /\ RlSingle /\ RlFoundNone /\ RlSeesAll /\ KeptOff

\* A patch sets fields to what they may be.
LEMMA RlPatchFits ==
  ASSUME NEW p \in RlPatchSet
  PROVE  /\ DOMAIN p \subseteq {"mode", "target", "max", "active", "dry"}
         /\ "mode" \in DOMAIN p => p["mode"] \in {"buyer_price", "margin"}
         /\ "target" \in DOMAIN p => p["target"] \in RlValues
         /\ "max" \in DOMAIN p => p["max"] \in {0} \cup RlValues
         /\ "active" \in DOMAIN p => p["active"] \in BOOLEAN
         /\ "dry" \in DOMAIN p => p["dry"] \in BOOLEAN
BY DEF RlPatchSet, RlNothing

\* A changed row is a row of the same card.
LEMMA RlChangedRow ==
  ASSUME RlAssumption, RlTyped, NEW t \in RlThreads, NEW row \in RlRows
  PROVE  /\ RlChanged(t, row) \in RlRows
         /\ RlChanged(t, row).card = row.card
         /\ rlThread[t].patch \in [dry : BOOLEAN, active : {TRUE}] =>
              RlChanged(t, row).dry = rlThread[t].patch.dry
<1> DEFINE p == rlThread[t].patch
           fields == {"state", "card", "mode", "target", "max", "active", "dry", "at"}
           new == RlChanged(t, row)
<1>1. p \in RlPatchSet
  BY DEF RlTyped, RlThreadSet
<1>2. /\ DOMAIN p \subseteq {"mode", "target", "max", "active", "dry"}
      /\ "mode" \in DOMAIN p => p["mode"] \in {"buyer_price", "margin"}
      /\ "target" \in DOMAIN p => p["target"] \in RlValues
      /\ "max" \in DOMAIN p => p["max"] \in {0} \cup RlValues
      /\ "active" \in DOMAIN p => p["active"] \in BOOLEAN
      /\ "dry" \in DOMAIN p => p["dry"] \in BOOLEAN
  BY <1>1, RlPatchFits
<1>3. DOMAIN row = fields
  BY DEF RlRows
<1>4. new = [f \in fields |-> IF f = "at" THEN rlClock ELSE IF f \in DOMAIN p THEN p[f] ELSE row[f]]
  BY <1>3 DEF RlChanged
<1>5. /\ new["state"] = row["state"] /\ new["card"] = row["card"] /\ new["at"] = rlClock
      /\ new["mode"] = IF "mode" \in DOMAIN p THEN p["mode"] ELSE row["mode"]
      /\ new["target"] = IF "target" \in DOMAIN p THEN p["target"] ELSE row["target"]
      /\ new["max"] = IF "max" \in DOMAIN p THEN p["max"] ELSE row["max"]
      /\ new["active"] = IF "active" \in DOMAIN p THEN p["active"] ELSE row["active"]
      /\ new["dry"] = IF "dry" \in DOMAIN p THEN p["dry"] ELSE row["dry"]
  BY <1>2, <1>4
<1>6. /\ row["state"] = "row" /\ row["card"] \in RlCards
      /\ row["mode"] \in {"buyer_price", "margin"} /\ row["target"] \in RlValues
      /\ row["max"] \in {0} \cup RlValues /\ row["active"] \in BOOLEAN /\ row["dry"] \in BOOLEAN
  BY DEF RlRows
<1>7. rlClock \in 0..MaxRlSeconds
  BY DEF RlTyped
<1> HIDE DEF new, p
<1>8. new = [state |-> new["state"], card |-> new["card"], mode |-> new["mode"],
             target |-> new["target"], max |-> new["max"], active |-> new["active"],
             dry |-> new["dry"], at |-> new["at"]]
  BY <1>4
<1>9. new \in RlRows
  BY <1>2, <1>5, <1>6, <1>7, <1>8 DEF RlRows
<1>10. p \in [dry : BOOLEAN, active : {TRUE}] => new.dry = p.dry
  BY <1>5
<1> QED
  BY <1>5, <1>9, <1>10 DEF new, p

\* A thread at rest.
LEMMA RlAtRest ==
  /\ RlIdleThread \in RlThreadSet /\ RlIdleThread.pc = "idle" /\ RlIdleThread.op = "none"
  /\ DOMAIN RlIdleThread.saw = {} /\ RlIdleThread.stale = {}
  /\ RlIdleThread.card = RlCard /\ RlIdleThread.patch = RlNothing
<1>1. RlNothing \in UNION {[S -> RlRows] : S \in SUBSET RlRules}
  <2>1. RlNothing \in [{} -> RlRows]
    BY DEF RlNothing
  <2> QED
    BY <2>1
<1>2. RlNothing \in RlPatchSet
  BY DEF RlPatchSet
<1>3. DOMAIN RlNothing = {}
  BY DEF RlNothing
<1> QED
  BY <1>1, <1>2, <1>3 DEF RlIdleThread, RlThreadSet

\* A rule has a row, or none.
LEMMA RlRowOrNone ==
  ASSUME RlTyped, NEW r \in RlRules
  PROVE  /\ RlHas(rlRow, r) <=> rlRow[r] \in RlRows
         /\ ~RlHas(rlRow, r) <=> rlRow[r] = RlNone
         /\ RlHas(rlWant, r) <=> rlWant[r] \in RlRows
         /\ ~RlHas(rlWant, r) <=> rlWant[r] = RlNone
         /\ RlNone.state # "row"
<1>1. RlNone.state = "none" /\ \A row \in RlRows : row.state = "row"
  BY DEF RlNone, RlRows
<1>2. rlRow[r] \in RlRows \cup {RlNone} /\ rlWant[r] \in RlRows \cup {RlNone}
  BY DEF RlTyped
<1> QED
  BY <1>1, <1>2 DEF RlHas

\* At first there are no rules.
LEMMA RlInitHolds ==
  ASSUME RlInit, RlAssumption
  PROVE  RlInv
<1>1. /\ \A r \in RlRules : ~RlHas(rlRow, r) /\ ~RlHas(rlWant, r)
      /\ \A t \in RlThreads : rlThread[t] = RlIdleThread
  BY DEF RlInit, RlHas, RlNone
<1>2. rlRun \in [going : BOOLEAN, rules : SUBSET [id : RlRules, row : RlRows],
                 wanted : RlPairs, sent : RlPairs]
  BY DEF RlInit, RlIdleRun, RlPairs
<1>3. rlCause \in [overlapped : SUBSET RlRules, twice : SUBSET RlCards, left : SUBSET RlRules,
                   off : SUBSET RlCards, asked : SUBSET RlRules, used : SUBSET RlRules]
  BY DEF RlInit
<1>4. RlTyped
  BY <1>2, <1>3, RlAtRest, RlAssumption DEF RlInit, RlTyped, RlAssumption
<1>5. RlUnused /\ RlRequests /\ RlSeen
  BY <1>1, RlAtRest DEF RlInit, RlUnused, RlRequests, RlSeen, RlAbout, RlStillSo
<1>6. RlAsAsked /\ RlRunTrue /\ SentAsWanted
  BY DEF RlInit, RlAsAsked, RlRunTrue, SentAsWanted, RlIdleRun
<1>7. RlSingle /\ RlFoundNone /\ RlSeesAll /\ KeptOff
  BY <1>1, RlAtRest DEF RlInit, RlSingle, RlPlain, RlOf, RlFoundNone, RlSeesAll, KeptOff
<1> QED
  BY <1>4, <1>5, <1>6, <1>7 DEF RlInv

\* One request moves and writes nothing.
LEMMA RlMoveKeeps ==
  ASSUME RlInv, NEW t \in RlThreads, NEW th \in RlThreadSet,
         rlThread' = [rlThread EXCEPT ![t] = th],
         UNCHANGED <<rlKind, rlRow, rlDoomed, rlRun, rlWant, rlCause, rlClock>>,
         rlOps' \in 0..MaxRlOps,
         RlAbout(th), DOMAIN th.saw \subseteq rlCause.used, RlStillSo(th),
         th.pc = "write" /\ th.op # "create" =>
           \A c \in RlMakesFor(t)' \ th.stale : RlPlain(c) = {},
         th.pc = "write" /\ th.op = "keep" =>
           \A c \in RlCards \ th.stale :
             RlOf(rlRow, c) # {} => \E r \in DOMAIN th.saw : th.saw[r].card = c
  PROVE  RlInv'
<1>1. /\ rlThread'[t] = th /\ \A u \in RlThreads : u # t => rlThread'[u] = rlThread[u]
      /\ rlThread' \in [RlThreads -> RlThreadSet]
  BY DEF RlInv, RlTyped
<1>2. RlTyped'
  BY <1>1 DEF RlInv, RlTyped
<1>3. RlUnused'
  BY <1>1 DEF RlInv, RlUnused, RlHas
<1>4. RlRequests'
  BY <1>1 DEF RlInv, RlRequests, RlAbout
<1>5. RlSeen'
  BY <1>1 DEF RlInv, RlSeen, RlStillSo
<1>6. RlAsAsked' /\ RlRunTrue' /\ SentAsWanted'
  BY DEF RlInv, RlAsAsked, RlRunTrue, SentAsWanted
<1>7. /\ \A c : RlPlain(c)' = RlPlain(c)
      /\ \A c : RlOf(rlRow, c)' = RlOf(rlRow, c)
  BY DEF RlPlain, RlOf, RlHas
<1>8. RlSingle'
  BY <1>7 DEF RlInv, RlSingle
<1>9. KeptOff'
  BY <1>7 DEF RlInv, KeptOff
<1>10. RlFoundNone'
  <2> SUFFICES ASSUME NEW u \in RlThreads, rlThread'[u].pc = "write", rlThread'[u].op # "create",
                      NEW c \in RlMakesFor(u)' \ rlThread'[u].stale
               PROVE  RlPlain(c) = {}
    BY <1>7 DEF RlFoundNone
  <2>1. CASE u = t
    BY <2>1, <1>1
  <2>2. CASE u # t
    <3>1. RlMakesFor(u)' = RlMakesFor(u) /\ rlThread'[u] = rlThread[u]
      BY <2>2, <1>1 DEF RlMakesFor
    <3> QED
      BY <3>1 DEF RlInv, RlFoundNone
  <2> QED
    BY <2>1, <2>2
<1>11. RlSeesAll'
  <2> SUFFICES ASSUME NEW u \in RlThreads, rlThread'[u].pc = "write", rlThread'[u].op = "keep",
                      NEW c \in RlCards \ rlThread'[u].stale, RlOf(rlRow, c) # {}
               PROVE  \E r \in DOMAIN rlThread'[u].saw : rlThread'[u].saw[r].card = c
    BY <1>7 DEF RlSeesAll
  <2>1. CASE u = t
    BY <2>1, <1>1
  <2>2. CASE u # t
    BY <2>2, <1>1 DEF RlInv, RlSeesAll
  <2> QED
    BY <2>1, <2>2
<1> QED
  BY <1>2, <1>3, <1>4, <1>5, <1>6, <1>8, <1>9, <1>10, <1>11 DEF RlInv

\* A request begins.
LEMMA RlBeginKeeps ==
  ASSUME RlInv, RlAssumption, NEW t \in RlThreads, RlBegin(t)
  PROVE  RlInv'
<1>1. ASSUME NEW op \in {"update", "delete", "create", "target", "import", "keep"},
             NEW rule \in RlRules \cup {NoRule}, NEW card \in RlCards \cup {RlCard},
             NEW patch \in RlPatchSet, NEW pc \in {"find", "read", "write"},
             RlOp(t, op, rule, card, patch, pc),
             op \in {"create", "target"} => card \in RlCards,
             op \in {"create", "target", "import"} => "target" \in DOMAIN patch,
             pc = "find" => op \in {"target", "import", "keep"},
             pc = "read" => op \in {"update", "delete", "target"} /\ rule \in RlRules,
             pc = "write" => op = "create",
             op = "keep" => patch \in [dry : BOOLEAN, active : {TRUE}]
      PROVE  RlInv'
  <2> DEFINE th == [RlIdleThread EXCEPT !.op = op, !.rule = rule, !.card = card, !.patch = patch,
                                        !.pc = pc]
  <2>1. /\ th \in RlThreadSet /\ th.op = op /\ th.rule = rule /\ th.card = card
        /\ th.patch = patch /\ th.pc = pc /\ DOMAIN th.saw = {}
    BY RlAtRest DEF RlThreadSet
  <2>2. rlThread' = [rlThread EXCEPT ![t] = th]
    BY <1>1 DEF RlOp
  <2> HIDE DEF th
  <2>3. RlAbout(th) /\ RlStillSo(th)
    BY <1>1, <2>1 DEF RlAbout, RlStillSo
  <2>4. rlOps' \in 0..MaxRlOps
    BY <1>1, RlAssumption DEF RlOp, RlInv, RlTyped, RlAssumption
  <2>5. UNCHANGED <<rlKind, rlRow, rlDoomed, rlRun, rlWant, rlCause, rlClock>>
    BY <1>1 DEF RlOp
  <2> QED
    BY <1>1, <2>1, <2>2, <2>3, <2>4, <2>5, RlMoveKeeps
<1>2. rlCause.used \subseteq RlRules
  BY DEF RlInv, RlTyped
<1>3. /\ RlPatches \subseteq RlPatchSet /\ RlNothing \in RlPatchSet
      /\ RlModes \subseteq {"buyer_price", "margin"}
  BY DEF RlPatches, RlPatchSet, RlModes
<1>4. ASSUME NEW r \in rlCause.used, NEW p \in RlPatches, RlOp(t, "update", r, RlCard, p, "read")
      PROVE  RlInv'
  BY <1>1, <1>2, <1>3, <1>4
<1>5. ASSUME NEW r \in rlCause.used, RlOp(t, "delete", r, RlCard, RlNothing, "read")
      PROVE  RlInv'
  BY <1>1, <1>2, <1>3, <1>5
<1>6. ASSUME NEW c \in RlCards, NEW v \in RlValues, NEW d \in BOOLEAN, NEW m \in RlModes,
             RlOp(t, "create", NoRule, c, [target |-> v, dry |-> d, mode |-> m], "write")
      PROVE  RlInv'
  <2> DEFINE p == [target |-> v, dry |-> d, mode |-> m]
  <2>1. p \in RlPatchSet /\ "target" \in DOMAIN p
    BY <1>3, <1>6 DEF RlPatchSet
  <2> HIDE DEF p
  <2>2. RlOp(t, "create", NoRule, c, p, "write")
    BY <1>6 DEF p
  <2> QED
    BY <1>1, <2>1, <2>2
<1>7. ASSUME NEW c \in RlCards, NEW v \in RlValues,
             RlOp(t, "target", NoRule, c, [mode |-> "buyer_price", target |-> v], "find")
      PROVE  RlInv'
  <2> DEFINE p == [mode |-> "buyer_price", target |-> v]
  <2>1. p \in RlPatchSet /\ "target" \in DOMAIN p
    BY <1>7 DEF RlPatchSet
  <2> HIDE DEF p
  <2>2. RlOp(t, "target", NoRule, c, p, "find")
    BY <1>7 DEF p
  <2> QED
    BY <1>1, <2>1, <2>2
<1>8. ASSUME NEW v \in RlValues,
             RlOp(t, "import", NoRule, RlCard,
                  [mode |-> "buyer_price", target |-> v, active |-> TRUE], "find")
      PROVE  RlInv'
  <2> DEFINE p == [mode |-> "buyer_price", target |-> v, active |-> TRUE]
  <2>1. p \in RlPatchSet /\ "target" \in DOMAIN p
    BY <1>8 DEF RlPatchSet
  <2> HIDE DEF p
  <2>2. RlOp(t, "import", NoRule, RlCard, p, "find")
    BY <1>8 DEF p
  <2> QED
    BY <1>1, <2>1, <2>2
<1>9. ASSUME NEW keep \in BOOLEAN,
             RlOp(t, "keep", NoRule, RlCard, [dry |-> ~keep, active |-> TRUE], "find")
      PROVE  RlInv'
  <2> DEFINE p == [dry |-> ~keep, active |-> TRUE]
  <2>1. p \in RlPatchSet /\ p \in [dry : BOOLEAN, active : {TRUE}]
    BY <1>9 DEF RlPatchSet
  <2> HIDE DEF p
  <2>2. RlOp(t, "keep", NoRule, RlCard, p, "find")
    BY <1>9 DEF p
  <2> QED
    BY <1>1, <2>1, <2>2
<1> QED
  BY <1>4, <1>5, <1>6, <1>7, <1>8, <1>9 DEF RlBegin

\* A request goes on, with what it saw.
LEMMA RlGoesOnKeeps ==
  ASSUME RlInv, NEW t \in RlThreads,
         NEW pc \in {"read", "write"}, NEW rule \in RlRules \cup {NoRule},
         NEW saw, saw \in UNION {[S -> RlRows] : S \in SUBSET RlRules},
         NEW gone \in SUBSET RlCards,
         RlGoesOn(t, pc, rule, saw, gone), rlThread[t].pc \in {"find", "read"},
         DOMAIN saw \subseteq rlCause.used, \A r \in DOMAIN saw : saw[r] = rlRow[r],
         pc = "read" => rlThread[t].op \in {"update", "delete", "target"} /\ rule \in RlRules
                        /\ DOMAIN saw = {},
         pc = "write" => rlThread[t].op # "create",
         pc = "write" /\ rlThread[t].op = "delete" => rule \in RlRules,
         pc = "write" => \A c \in RlMakesFor(t)' \ gone : RlOf(rlRow, c) = {},
         pc = "write" /\ rlThread[t].op = "keep" =>
           \A c \in RlCards : RlOf(rlRow, c) # {} => \E r \in DOMAIN saw : saw[r].card = c
  PROVE  RlInv'
<1> DEFINE stale == rlThread[t].stale \cup gone \cup (rlDoomed \cap DOMAIN saw)
           th == [rlThread[t] EXCEPT !.pc = pc, !.rule = rule, !.saw = saw, !.stale = stale]
<1>1. rlThread[t] \in RlThreadSet /\ rlThread \in [RlThreads -> RlThreadSet]
  BY DEF RlInv, RlTyped
<1>2. stale \in SUBSET (RlRules \cup RlCards)
  BY <1>1 DEF RlThreadSet, RlInv, RlUnused
<1>3. stale = rlThread[t].stale \cup gone \cup (rlDoomed \cap DOMAIN saw)
  OBVIOUS
<1>4. rlThread' = [rlThread EXCEPT ![t] = th]
  BY <1>1 DEF RlGoesOn
<1> HIDE DEF stale
<1>5. /\ th \in RlThreadSet /\ th.pc = pc /\ th.op = rlThread[t].op /\ th.rule = rule
      /\ th.card = rlThread[t].card /\ th.patch = rlThread[t].patch /\ th.saw = saw
      /\ th.stale = stale
  BY <1>1, <1>2 DEF RlThreadSet
<1> HIDE DEF th
<1>6. RlAbout(rlThread[t])
  BY DEF RlInv, RlRequests
<1>7. RlAbout(th)
  BY <1>5, <1>6 DEF RlAbout
<1>8. RlStillSo(th)
  BY <1>3, <1>5 DEF RlStillSo
<1>9. th.pc = "write" /\ th.op # "create" => \A c \in RlMakesFor(t)' \ th.stale : RlPlain(c) = {}
  BY <1>3, <1>5 DEF RlPlain
<1>10. th.pc = "write" /\ th.op = "keep" =>
         \A c \in RlCards \ th.stale :
           RlOf(rlRow, c) # {} => \E r \in DOMAIN th.saw : th.saw[r].card = c
  BY <1>5
<1>11. UNCHANGED <<rlKind, rlRow, rlDoomed, rlRun, rlWant, rlCause, rlClock>>
       /\ rlOps' \in 0..MaxRlOps
  BY DEF RlGoesOn, RlInv, RlTyped
<1> QED
  BY <1>4, <1>5, <1>7, <1>8, <1>9, <1>10, <1>11, RlMoveKeeps

\* A request that ends without a write.
LEMMA RlGivesUpKeeps ==
  ASSUME RlInv, NEW t \in RlThreads, RlGivesUp(t)
  PROVE  RlInv'
<1>1. RlAbout(RlIdleThread) /\ RlStillSo(RlIdleThread)
  BY RlAtRest DEF RlAbout, RlStillSo
<1>2. UNCHANGED <<rlKind, rlRow, rlDoomed, rlRun, rlWant, rlCause, rlClock>>
      /\ rlOps' \in 0..MaxRlOps
  BY DEF RlGivesUp, RlInv, RlTyped
<1> QED
  BY <1>1, <1>2, RlAtRest, RlMoveKeeps DEF RlGivesUp

\* What a request takes from the table are rows, of rules that were made.
LEMMA RlSawRows ==
  ASSUME RlInv, NEW S \in SUBSET RlRules, \A r \in S : RlHas(rlRow, r)
  PROVE  /\ RlSaw(S) \in UNION {[R -> RlRows] : R \in SUBSET RlRules}
         /\ DOMAIN RlSaw(S) = S /\ S \subseteq rlCause.used
         /\ \A r \in S : RlSaw(S)[r] = rlRow[r] /\ rlRow[r] \in RlRows
<1>1. \A r \in S : rlRow[r] \in RlRows
  BY RlRowOrNone DEF RlInv
<1>2. RlSaw(S) \in [S -> RlRows]
  BY <1>1 DEF RlSaw
<1>3. S \subseteq rlCause.used
  BY DEF RlInv, RlUnused
<1> QED
  BY <1>1, <1>2, <1>3 DEF RlSaw

\* Nothing was taken.
LEMMA RlSawNothing ==
  /\ RlNothing \in UNION {[R -> RlRows] : R \in SUBSET RlRules} /\ DOMAIN RlNothing = {}
<1>1. RlNothing \in [{} -> RlRows]
  BY DEF RlNothing
<1> QED
  BY <1>1 DEF RlNothing

\* A request looks for the newest rules.
LEMMA RlFindKeeps ==
  ASSUME RlInv, NEW t \in RlThreads, RlFind(t)
  PROVE  RlInv'
<1>1. rlThread[t].pc = "find" /\ rlThread[t] \in RlThreadSet
  BY DEF RlFind, RlInv, RlTyped
<1>2. RlAbout(rlThread[t])
  BY DEF RlInv, RlRequests
<1>3. ASSUME rlThread[t].op = "target", NEW r \in RlNewest(rlThread[t].card),
             RlGoesOn(t, "read", r, RlNothing, {})
      PROVE  RlInv'
  <2>1. r \in RlRules
    BY <1>3 DEF RlNewest, RlOf
  <2> QED
    BY <1>1, <1>3, <2>1, RlSawNothing, RlGoesOnKeeps
<1>4. ASSUME rlThread[t].op = "target", RlOf(rlRow, rlThread[t].card) = {},
             RlGoesOn(t, "write", NoRule, RlNothing, {})
      PROVE  RlInv'
  <2>1. RlMakesFor(t)' \subseteq {rlThread[t].card}
    <3>1. rlThread'[t].op = "target" /\ rlThread'[t].card = rlThread[t].card
      BY <1>1, <1>4 DEF RlGoesOn, RlInv, RlTyped, RlThreadSet
    <3> QED
      BY <3>1 DEF RlMakesFor
  <2> QED
    BY <1>1, <1>4, <2>1, RlSawNothing, RlGoesOnKeeps
<1>5. ASSUME rlThread[t].op \in {"import", "keep"}, NEW S \in RlLatestRules,
             RlGoesOn(t, "write", NoRule, RlSaw(S), {})
      PROVE  RlInv'
  <2>1. /\ S \in SUBSET RlRules /\ \A r \in S : RlHas(rlRow, r)
        /\ \A c \in RlCards : RlOf(rlRow, c) # {} => \E r \in S : S \cap RlOf(rlRow, c) = {r}
    BY DEF RlLatestRules
  <2>2. /\ RlSaw(S) \in UNION {[R -> RlRows] : R \in SUBSET RlRules}
        /\ DOMAIN RlSaw(S) = S /\ S \subseteq rlCause.used
        /\ \A r \in S : RlSaw(S)[r] = rlRow[r] /\ rlRow[r] \in RlRows
    BY <2>1, RlSawRows
  <2>3. \A c \in RlCards : RlOf(rlRow, c) # {} =>
          \E r \in DOMAIN RlSaw(S) : RlSaw(S)[r].card = c
    BY <2>1, <2>2 DEF RlOf
  <2>4. \A c \in RlMakesFor(t)' : RlOf(rlRow, c) = {}
    <3>1. rlThread'[t].op = rlThread[t].op /\ rlThread'[t].saw = RlSaw(S)
      BY <1>1, <1>5 DEF RlGoesOn, RlInv, RlTyped, RlThreadSet
    <3>2. RlMakesFor(t)' \subseteq
            RlCards \ {RlSaw(S)[r].card : r \in DOMAIN RlSaw(S)}
      BY <3>1, <1>5 DEF RlMakesFor
    <3> QED
      BY <3>2, <2>3
  <2>5. \A r \in DOMAIN RlSaw(S) : RlSaw(S)[r] = rlRow[r]
    BY <2>2
  <2>6. NoRule \in RlRules \cup {NoRule} /\ {} \in SUBSET RlCards
    OBVIOUS
  <2>7. DOMAIN RlSaw(S) \subseteq rlCause.used
    BY <2>2
  <2> DEFINE saw == RlSaw(S)
  <2>8. rlThread[t].op # "create" /\ rlThread[t].op # "delete"
    BY <1>5
  <2>9. /\ saw \in UNION {[R -> RlRows] : R \in SUBSET RlRules}
        /\ DOMAIN saw \subseteq rlCause.used /\ \A r \in DOMAIN saw : saw[r] = rlRow[r]
        /\ RlGoesOn(t, "write", NoRule, saw, {})
        /\ \A c \in RlCards : RlOf(rlRow, c) # {} => \E r \in DOMAIN saw : saw[r].card = c
    BY <1>5, <2>2, <2>3, <2>5, <2>7
  <2> HIDE DEF saw
  <2> QED
    BY <1>1, <2>4, <2>6, <2>8, <2>9, RlGoesOnKeeps
<1> QED
  BY <1>3, <1>4, <1>5 DEF RlFind

\* A request reads its rule.
LEMMA RlReadKeeps ==
  ASSUME RlInv, NEW t \in RlThreads, RlRead(t)
  PROVE  RlInv'
<1> DEFINE r == rlThread[t].rule
<1>1. rlThread[t].pc = "read" /\ rlThread[t] \in RlThreadSet
  BY DEF RlRead, RlInv, RlTyped
<1>2. RlAbout(rlThread[t])
  BY DEF RlInv, RlRequests
<1>3. rlThread[t].op \in {"update", "delete", "target"} /\ r \in RlRules
  BY <1>1, <1>2 DEF RlAbout
<1>4. ASSUME RlHas(rlRow, r), RlGoesOn(t, "write", r, RlSaw({r}), {})
      PROVE  RlInv'
  <2>1. /\ RlSaw({r}) \in UNION {[R -> RlRows] : R \in SUBSET RlRules}
        /\ DOMAIN RlSaw({r}) = {r} /\ {r} \subseteq rlCause.used
        /\ RlSaw({r})[r] = rlRow[r]
    BY <1>3, <1>4, RlSawRows
  <2>2. RlMakesFor(t)' = {}
    <3>1. rlThread'[t].op = rlThread[t].op /\ rlThread'[t].saw = RlSaw({r})
      BY <1>1, <1>4 DEF RlGoesOn, RlInv, RlTyped, RlThreadSet
    <3> QED
      BY <3>1, <2>1, <1>3 DEF RlMakesFor
  <2> QED
    BY <1>1, <1>3, <1>4, <2>1, <2>2, RlGoesOnKeeps
<1>5. ASSUME rlThread[t].op = "target",
             RlGoesOn(t, "write", NoRule, RlNothing, {rlThread[t].card})
      PROVE  RlInv'
  <2>1. RlMakesFor(t)' \subseteq {rlThread[t].card}
    <3>1. rlThread'[t].op = "target" /\ rlThread'[t].card = rlThread[t].card
      BY <1>1, <1>5 DEF RlGoesOn, RlInv, RlTyped, RlThreadSet
    <3> QED
      BY <3>1 DEF RlMakesFor
  <2>2. rlThread[t].card \in RlCards
    BY <1>1, <1>2, <1>5 DEF RlAbout
  <2>3. {rlThread[t].card} \in SUBSET RlCards /\ NoRule \in RlRules \cup {NoRule}
    BY <2>2
  <2>4. \A c \in RlMakesFor(t)' \ {rlThread[t].card} : RlOf(rlRow, c) = {}
    BY <2>1
  <2>5. /\ DOMAIN RlNothing \subseteq rlCause.used
        /\ \A x \in DOMAIN RlNothing : RlNothing[x] = rlRow[x]
    BY RlSawNothing
  <2>6. rlThread[t].op # "create" /\ rlThread[t].op # "delete" /\ rlThread[t].op # "keep"
    BY <1>5
  <2> QED
    BY <1>1, <1>5, <2>3, <2>4, <2>5, <2>6, RlSawNothing, RlGoesOnKeeps
<1> QED
  BY <1>4, <1>5, RlGivesUpKeeps DEF RlRead

\* After a write the writer rests, and the others know no better.
LEMMA RlStaleThreads ==
  ASSUME RlTyped, NEW t \in RlThreads, NEW S \in SUBSET (RlRules \cup RlCards),
         rlThread' = RlOthersStale(t, S)
  PROVE  /\ rlThread' \in [RlThreads -> RlThreadSet]
         /\ rlThread'[t] = RlIdleThread
         /\ \A u \in RlThreads \ {t} :
              /\ rlThread'[u].pc = rlThread[u].pc /\ rlThread'[u].op = rlThread[u].op
              /\ rlThread'[u].rule = rlThread[u].rule /\ rlThread'[u].card = rlThread[u].card
              /\ rlThread'[u].patch = rlThread[u].patch /\ rlThread'[u].saw = rlThread[u].saw
              /\ rlThread[u].stale \subseteq rlThread'[u].stale
              /\ rlThread[u].pc # "idle" => S \subseteq rlThread'[u].stale
<1>1. rlThread'[t] = RlIdleThread /\ rlThread' = [u \in RlThreads |-> rlThread'[u]]
  BY DEF RlOthersStale
<1>2. ASSUME NEW u \in RlThreads \ {t}
      PROVE  /\ rlThread'[u].pc = rlThread[u].pc /\ rlThread'[u].op = rlThread[u].op
             /\ rlThread'[u].rule = rlThread[u].rule /\ rlThread'[u].card = rlThread[u].card
             /\ rlThread'[u].patch = rlThread[u].patch /\ rlThread'[u].saw = rlThread[u].saw
             /\ rlThread[u].stale \subseteq rlThread'[u].stale
             /\ rlThread[u].pc # "idle" => S \subseteq rlThread'[u].stale
             /\ rlThread'[u] \in RlThreadSet
  <2> DEFINE stale == rlThread[u].stale \cup S
             th == [rlThread[u] EXCEPT !.stale = stale]
  <2>1. rlThread[u] \in RlThreadSet
    BY <1>2 DEF RlTyped
  <2>2. rlThread'[u] = IF rlThread[u].pc = "idle" THEN rlThread[u] ELSE th
    BY <1>2 DEF RlOthersStale
  <2>3. /\ stale \in SUBSET (RlRules \cup RlCards)
        /\ rlThread[u].stale \subseteq stale /\ S \subseteq stale
    BY <2>1 DEF RlThreadSet
  <2> HIDE DEF stale
  <2>4. /\ th \in RlThreadSet /\ th.pc = rlThread[u].pc /\ th.op = rlThread[u].op
        /\ th.rule = rlThread[u].rule /\ th.card = rlThread[u].card
        /\ th.patch = rlThread[u].patch /\ th.saw = rlThread[u].saw /\ th.stale = stale
    BY <2>1, <2>3 DEF RlThreadSet
  <2> HIDE DEF th
  <2> QED
    BY <2>1, <2>2, <2>3, <2>4
<1>3. \A u \in RlThreads : rlThread'[u] \in RlThreadSet
  BY <1>1, <1>2, RlAtRest
<1> QED
  BY <1>1, <1>2, <1>3

\* The requests after a write: what is held of each but for what it has seen and found.
LEMMA RlOthersKeep ==
  ASSUME RlInv, NEW t \in RlThreads, NEW S \in SUBSET (RlRules \cup RlCards),
         rlThread' = RlOthersStale(t, S), rlCause.used \subseteq rlCause'.used
  PROVE  /\ RlRequests'
         /\ \A u \in RlThreads : DOMAIN rlThread'[u].saw \subseteq rlCause'.used
         /\ \A u \in RlThreads : rlThread'[u].pc = "write" =>
              /\ u # t /\ rlThread[u].pc = "write" /\ rlThread'[u].op = rlThread[u].op
              /\ rlThread'[u].saw = rlThread[u].saw
              /\ rlThread[u].stale \cup S \subseteq rlThread'[u].stale
              /\ RlMakesFor(u)' = RlMakesFor(u)
         /\ \A u \in RlThreads : \A r \in DOMAIN rlThread'[u].saw \ rlThread'[u].stale :
              /\ u # t /\ rlThread'[u].saw = rlThread[u].saw /\ r \notin S
              /\ r \in DOMAIN rlThread[u].saw \ rlThread[u].stale
<1>1. /\ rlThread'[t] = RlIdleThread
      /\ \A u \in RlThreads \ {t} :
              /\ rlThread'[u].pc = rlThread[u].pc /\ rlThread'[u].op = rlThread[u].op
              /\ rlThread'[u].rule = rlThread[u].rule /\ rlThread'[u].card = rlThread[u].card
              /\ rlThread'[u].patch = rlThread[u].patch /\ rlThread'[u].saw = rlThread[u].saw
              /\ rlThread[u].stale \subseteq rlThread'[u].stale
              /\ rlThread[u].pc # "idle" => S \subseteq rlThread'[u].stale
  BY RlStaleThreads DEF RlInv
<1>2. RlRequests'
  <2>1. RlAbout(RlIdleThread)
    BY RlAtRest DEF RlAbout
  <2>2. ASSUME NEW u \in RlThreads \ {t}
        PROVE  RlAbout(rlThread'[u])
    <3>1. RlAbout(rlThread[u])
      BY DEF RlInv, RlRequests
    <3> QED
      BY <1>1, <3>1 DEF RlAbout
  <2> QED
    BY <1>1, <2>1, <2>2 DEF RlRequests
<1>3. \A u \in RlThreads : DOMAIN rlThread'[u].saw \subseteq rlCause'.used
  BY <1>1, RlAtRest DEF RlInv, RlUnused
<1>4. \A u \in RlThreads : DOMAIN rlThread[u].saw # {} => rlThread[u].pc = "write"
  BY DEF RlInv, RlRequests, RlAbout
<1>5. \A u \in RlThreads : rlThread'[u].pc = "write" =>
              /\ u # t /\ rlThread[u].pc = "write" /\ rlThread'[u].op = rlThread[u].op
              /\ rlThread'[u].saw = rlThread[u].saw
              /\ rlThread[u].stale \cup S \subseteq rlThread'[u].stale
              /\ RlMakesFor(u)' = RlMakesFor(u)
  <2> SUFFICES ASSUME NEW u \in RlThreads, rlThread'[u].pc = "write"
               PROVE  /\ u # t /\ rlThread[u].pc = "write" /\ rlThread'[u].op = rlThread[u].op
                      /\ rlThread'[u].saw = rlThread[u].saw
                      /\ rlThread[u].stale \cup S \subseteq rlThread'[u].stale
                      /\ RlMakesFor(u)' = RlMakesFor(u)
    OBVIOUS
  <2>1. u # t
    BY <1>1, RlAtRest
  <2>2. /\ rlThread'[u].pc = rlThread[u].pc /\ rlThread'[u].op = rlThread[u].op
        /\ rlThread'[u].card = rlThread[u].card /\ rlThread'[u].saw = rlThread[u].saw
        /\ rlThread[u].stale \subseteq rlThread'[u].stale
        /\ rlThread[u].pc # "idle" => S \subseteq rlThread'[u].stale
    BY <1>1, <2>1
  <2>3. RlMakesFor(u)' = RlMakesFor(u)
    BY <2>2 DEF RlMakesFor
  <2> QED
    BY <2>1, <2>2, <2>3
<1>6. \A u \in RlThreads : \A r \in DOMAIN rlThread'[u].saw \ rlThread'[u].stale :
              /\ u # t /\ rlThread'[u].saw = rlThread[u].saw /\ r \notin S
              /\ r \in DOMAIN rlThread[u].saw \ rlThread[u].stale
  BY <1>1, <1>4, RlAtRest
<1> QED
  BY <1>2, <1>3, <1>5, <1>6

\* A rule is to be deleted: nothing is asked for of it any more.
LEMMA RlDeleteKeeps ==
  ASSUME RlInv, NEW t \in RlThreads, rlThread[t].pc = "write", rlThread[t].op = "delete",
         RlDelete(t)
  PROVE  RlInv'
<1> DEFINE r == rlThread[t].rule
<1>1. r \in RlRules
  BY DEF RlInv, RlRequests, RlAbout
<1>2. /\ rlDoomed' = IF RlHas(rlRow, r) THEN rlDoomed \cup {r} ELSE rlDoomed
      /\ rlWant' = [rlWant EXCEPT ![r] = RlNone]
      /\ rlThread' = RlOthersStale(t, {r})
      /\ UNCHANGED <<rlKind, rlRow, rlRun, rlCause, rlClock, rlOps>>
  BY DEF RlDelete
<1> HIDE DEF r
<1>3. RlTyped
  BY DEF RlInv
<1>4. {r} \in SUBSET (RlRules \cup RlCards)
  BY <1>1
<1>5. rlThread' \in [RlThreads -> RlThreadSet]
  BY <1>2, <1>3, <1>4, RlStaleThreads
<1>6. \A x \in RlRules : rlWant'[x] = IF x = r THEN RlNone ELSE rlWant[x]
  BY <1>2, <1>3 DEF RlTyped
<1>7. RlTyped'
  BY <1>2, <1>3, <1>5 DEF RlTyped
<1>8. /\ RlRequests'
      /\ \A u \in RlThreads : DOMAIN rlThread'[u].saw \subseteq rlCause'.used
      /\ \A u \in RlThreads : rlThread'[u].pc = "write" =>
           /\ u # t /\ rlThread[u].pc = "write" /\ rlThread'[u].op = rlThread[u].op
           /\ rlThread'[u].saw = rlThread[u].saw
           /\ rlThread[u].stale \cup {r} \subseteq rlThread'[u].stale
           /\ RlMakesFor(u)' = RlMakesFor(u)
      /\ \A u \in RlThreads : \A x \in DOMAIN rlThread'[u].saw \ rlThread'[u].stale :
           /\ u # t /\ rlThread'[u].saw = rlThread[u].saw /\ x \notin {r}
           /\ x \in DOMAIN rlThread[u].saw \ rlThread[u].stale
  BY <1>2, <1>4, RlOthersKeep
<1>9. RlNone.state # "row"
  BY <1>1, <1>3, RlRowOrNone
<1>10. RlUnused'
  <2>1. /\ rlDoomed' \subseteq {x \in RlRules : RlHas(rlRow, x)'}
        /\ \A x \in RlRules \ rlCause'.used : ~RlHas(rlRow, x)' /\ ~RlHas(rlWant, x)'
    BY <1>1, <1>2, <1>6, <1>9 DEF RlInv, RlUnused, RlHas
  <2>2. \A u \in RlThreads : DOMAIN rlThread'[u].saw \subseteq rlCause'.used
    BY <1>8
  <2> QED
    BY <2>1, <2>2 DEF RlUnused
<1>11. RlSeen'
  <2> SUFFICES ASSUME NEW u \in RlThreads, NEW x \in DOMAIN rlThread'[u].saw \ rlThread'[u].stale
               PROVE  x \notin rlDoomed' /\ rlThread'[u].saw[x] = rlRow'[x]
    BY DEF RlSeen, RlStillSo
  <2>1. /\ rlThread'[u].saw = rlThread[u].saw /\ x # r
        /\ x \in DOMAIN rlThread[u].saw \ rlThread[u].stale
    BY <1>8
  <2>2. x \notin rlDoomed /\ rlThread[u].saw[x] = rlRow[x]
    BY <2>1 DEF RlInv, RlSeen, RlStillSo
  <2> QED
    BY <2>1, <2>2, <1>2
<1>12. RlAsAsked'
  BY <1>1, <1>2, <1>3, <1>6, RlRowOrNone DEF RlInv, RlAsAsked
<1>13. RlRunTrue' /\ SentAsWanted'
  BY <1>2 DEF RlInv, RlRunTrue, SentAsWanted
<1>14. /\ \A c : RlOf(rlRow, c)' = RlOf(rlRow, c)
       /\ \A c : RlPlain(c)' \subseteq RlPlain(c)
  BY <1>2 DEF RlOf, RlHas, RlPlain
<1>15. RlSingle'
  BY <1>2, <1>14 DEF RlInv, RlSingle
<1>16. RlFoundNone'
  BY <1>8, <1>14 DEF RlInv, RlFoundNone
<1>17. RlSeesAll'
  BY <1>8, <1>14 DEF RlInv, RlSeesAll
<1>18. KeptOff'
  BY <1>2, <1>14 DEF RlInv, KeptOff
<1> QED
  BY <1>7, <1>8, <1>10, <1>11, <1>12, <1>13, <1>15, <1>16, <1>17, <1>18 DEF RlInv

\* A mutation is applied: the row goes away.
LEMMA RlMutateKeeps ==
  ASSUME RlInv, NEW r \in RlRules, RlMutate(r)
  PROVE  RlInv'
<1>1. /\ r \in rlDoomed /\ rlDoomed' = rlDoomed \ {r} /\ rlRow' = [rlRow EXCEPT ![r] = RlNone]
      /\ UNCHANGED <<rlKind, rlThread, rlRun, rlWant, rlCause, rlClock, rlOps>>
  BY DEF RlMutate
<1>2. RlTyped
  BY DEF RlInv
<1>3. /\ RlTyped'
      /\ \A x \in RlRules : rlRow'[x] = IF x = r THEN RlNone ELSE rlRow[x]
  BY <1>1, <1>2 DEF RlTyped
<1>4. RlNone.state # "row"
  BY <1>2, RlRowOrNone
<1>5. RlUnused' /\ RlRequests'
  BY <1>1, <1>3, <1>4 DEF RlInv, RlUnused, RlHas, RlRequests
<1>6. RlSeen'
  <2> SUFFICES ASSUME NEW u \in RlThreads, NEW x \in DOMAIN rlThread[u].saw \ rlThread[u].stale
               PROVE  x \notin rlDoomed' /\ rlThread[u].saw[x] = rlRow'[x]
    BY <1>1 DEF RlSeen, RlStillSo
  <2>1. x \notin rlDoomed /\ rlThread[u].saw[x] = rlRow[x]
    BY DEF RlInv, RlSeen, RlStillSo
  <2>2. x \in RlRules
    BY DEF RlInv, RlUnused, RlTyped
  <2> QED
    BY <2>1, <2>2, <1>1, <1>3
<1>7. RlAsAsked'
  BY <1>1, <1>3 DEF RlInv, RlAsAsked
<1>8. RlRunTrue' /\ SentAsWanted'
  BY <1>1 DEF RlInv, RlRunTrue, SentAsWanted
<1>9. \A c : /\ RlOf(rlRow, c)' \subseteq RlOf(rlRow, c) \ {r}
             /\ RlPlain(c)' \subseteq RlPlain(c)
  BY <1>1, <1>3, <1>4 DEF RlOf, RlHas, RlPlain
<1>10. RlSingle'
  BY <1>1, <1>9 DEF RlInv, RlSingle
<1>11. RlFoundNone'
  <2>1. \A u \in RlThreads : RlMakesFor(u)' = RlMakesFor(u)
    BY <1>1 DEF RlMakesFor
  <2> QED
    BY <2>1, <1>1, <1>9 DEF RlInv, RlFoundNone
<1>12. RlSeesAll'
  BY <1>1, <1>9 DEF RlInv, RlSeesAll
<1>13. KeptOff'
  <2> SUFFICES ASSUME NEW c \in rlCause.off, NEW x \in RlOf(rlRow, c)',
                      RlLive(rlRow'[x]), rlRow'[x].mode = "buyer_price"
               PROVE  x \in rlCause.left \cup rlCause.overlapped \cup rlDoomed'
    BY <1>1 DEF KeptOff
  <2>1. x \in RlOf(rlRow, c) /\ x # r /\ x \in RlRules
    BY <1>9 DEF RlOf
  <2>2. rlRow'[x] = rlRow[x]
    BY <2>1, <1>3
  <2> QED
    BY <2>1, <2>2, <1>1 DEF RlInv, KeptOff
<1> QED
  BY <1>3, <1>5, <1>6, <1>7, <1>8, <1>10, <1>11, <1>12, <1>13 DEF RlInv

\* Only the run and the clock move.
LEMMA RlRunKeeps ==
  ASSUME RlInv, UNCHANGED <<rlKind, rlRow, rlDoomed, rlThread, rlWant, rlCause, rlOps>>,
         rlClock' \in 0..MaxRlSeconds,
         rlRun' \in [going : BOOLEAN, rules : SUBSET [id : RlRules, row : RlRows],
                     wanted : RlPairs, sent : RlPairs],
         RlRunTrue', SentAsWanted'
  PROVE  RlInv'
<1>1. RlTyped'
  BY DEF RlInv, RlTyped
<1>2. RlUnused' /\ RlRequests' /\ RlSeen' /\ RlAsAsked'
  BY DEF RlInv, RlUnused, RlHas, RlRequests, RlSeen, RlStillSo, RlAsAsked
<1>3. /\ \A c : RlOf(rlRow, c)' = RlOf(rlRow, c) /\ RlPlain(c)' = RlPlain(c)
      /\ \A u \in RlThreads : RlMakesFor(u)' = RlMakesFor(u)
  BY DEF RlOf, RlHas, RlPlain, RlMakesFor
<1>4. RlSingle' /\ RlFoundNone' /\ RlSeesAll' /\ KeptOff'
  BY <1>3 DEF RlInv, RlSingle, RlFoundNone, RlSeesAll, KeptOff
<1> QED
  BY <1>1, <1>2, <1>4 DEF RlInv

\* A run of the task takes the rules.
LEMMA RlFetchKeeps ==
  ASSUME RlInv, RlFetch
  PROVE  RlInv'
<1> DEFINE rules == {[id |-> r, row |-> rlRow[r]] :
                       r \in {x \in RlRules : RlHas(rlRow, x) /\ rlRow[x].active}}
           wanted == RlWantedLive(rlWant)
                     \cup {<<r, rlRow[r].target>> : r \in
                         {x \in rlDoomed \cup rlCause.overlapped : RlHas(rlRow, x)}}
<1>1. /\ rlRun' = [going |-> TRUE, sent |-> {}, rules |-> rules, wanted |-> wanted]
      /\ UNCHANGED <<rlKind, rlRow, rlDoomed, rlThread, rlWant, rlCause, rlClock, rlOps>>
  BY DEF RlFetch
<1>2. RlTyped /\ rlDoomed \cup rlCause.overlapped \subseteq RlRules
  BY DEF RlInv, RlTyped, RlUnused
<1>3. \A r \in RlRules : /\ RlHas(rlRow, r) <=> rlRow[r] \in RlRows
                         /\ RlHas(rlWant, r) <=> rlWant[r] \in RlRows
  BY <1>2, RlRowOrNone
<1>4. rules \in SUBSET [id : RlRules, row : RlRows]
  BY <1>3
<1>5. wanted \in RlPairs
  <2>1. \A r \in RlRules : RlLive(rlWant[r]) => rlWant[r].target \in RlValues
    BY <1>3 DEF RlLive, RlHas, RlRows
  <2>2. \A r \in RlRules : RlHas(rlRow, r) => rlRow[r].target \in RlValues
    BY <1>3 DEF RlRows
  <2> QED
    BY <2>1, <2>2, <1>2 DEF RlPairs, RlWantedLive
<1>6. \A rule \in rules : ~rule.row.dry => <<rule.id, rule.row.target>> \in wanted
  <2> SUFFICES ASSUME NEW r \in RlRules, RlHas(rlRow, r), rlRow[r].active, ~rlRow[r].dry
               PROVE  <<r, rlRow[r].target>> \in wanted
    OBVIOUS
  <2>1. CASE r \in rlDoomed \cup rlCause.overlapped
    BY <2>1
  <2>2. CASE r \notin rlDoomed \cup rlCause.overlapped
    <3>1. rlRow[r] = rlWant[r]
      BY <2>2 DEF RlInv, RlAsAsked
    <3>2. RlLive(rlWant[r])
      BY <3>1 DEF RlLive, RlHas
    <3> QED
      BY <3>1, <3>2 DEF RlWantedLive
  <2> QED
    BY <2>1, <2>2
<1> HIDE DEF rules, wanted
<1>7. rlRun' \in [going : BOOLEAN, rules : SUBSET [id : RlRules, row : RlRows],
                  wanted : RlPairs, sent : RlPairs]
  BY <1>1, <1>4, <1>5 DEF RlPairs
<1>8. rlRun'.rules = rules /\ rlRun'.wanted = wanted /\ rlRun'.sent = {}
  BY <1>1
<1>9. RlRunTrue' /\ SentAsWanted'
  BY <1>6, <1>8 DEF RlRunTrue, SentAsWanted
<1>10. rlClock' \in 0..MaxRlSeconds
  BY <1>1 DEF RlInv, RlTyped
<1> QED
  BY <1>1, <1>7, <1>9, <1>10, RlRunKeeps

\* A run looks at a rule.
LEMMA RlActKeeps ==
  ASSUME RlInv, RlAct
  PROVE  RlInv'
<1>1. PICK rule \in rlRun.rules, shown \in {0} \cup RlValues :
        rlRun' = [rlRun EXCEPT
          !.rules = @ \ {rule},
          !.sent = @ \cup IF RlPlanned(rule.row, shown) /\ ~rule.row.dry
                          THEN {<<rule.id, rule.row.target>>} ELSE {}]
  BY DEF RlAct
<1> DEFINE more == IF RlPlanned(rule.row, shown) /\ ~rule.row.dry
                   THEN {<<rule.id, rule.row.target>>} ELSE {}
           run == [rlRun EXCEPT !.rules = @ \ {rule}, !.sent = @ \cup more]
<1>2. /\ rlRun.going
      /\ UNCHANGED <<rlKind, rlRow, rlDoomed, rlThread, rlWant, rlCause, rlClock, rlOps>>
  BY DEF RlAct
<1>3. rlRun \in [going : BOOLEAN, rules : SUBSET [id : RlRules, row : RlRows],
                 wanted : RlPairs, sent : RlPairs]
  BY DEF RlInv, RlTyped
<1>4. rule \in [id : RlRules, row : RlRows]
  BY <1>3
<1>5. rule.id \in RlRules /\ rule.row.target \in RlValues
  BY <1>4 DEF RlRows
<1>6. more \in RlPairs /\ more \subseteq rlRun.wanted \cup (rlCause.overlapped \X RlValues)
  BY <1>2, <1>5 DEF RlInv, RlRunTrue, RlPairs
<1>7. rlRun' = run
  BY <1>1
<1> HIDE DEF more
<1>8. /\ run \in [going : BOOLEAN, rules : SUBSET [id : RlRules, row : RlRows],
                  wanted : RlPairs, sent : RlPairs]
      /\ run.going /\ run.rules = rlRun.rules \ {rule} /\ run.wanted = rlRun.wanted
      /\ run.sent = rlRun.sent \cup more
  BY <1>2, <1>3, <1>6 DEF RlPairs
<1> HIDE DEF run
<1>9. RlRunTrue'
  BY <1>2, <1>7, <1>8 DEF RlInv, RlRunTrue
<1>10. SentAsWanted'
  BY <1>2, <1>6, <1>7, <1>8 DEF RlInv, SentAsWanted
<1>11. rlClock' \in 0..MaxRlSeconds
  BY <1>2 DEF RlInv, RlTyped
<1> QED
  BY <1>2, <1>7, <1>8, <1>9, <1>10, <1>11, RlRunKeeps

\* A run ends, a second passes.
LEMMA RlRestKeeps ==
  ASSUME RlInv, RlAssumption, RlRunEnds \/ RlTick
  PROVE  RlInv'
<1>1. CASE RlRunEnds
  <2>1. /\ RlIdleRun \in [going : BOOLEAN, rules : SUBSET [id : RlRules, row : RlRows],
                          wanted : RlPairs, sent : RlPairs]
        /\ ~RlIdleRun.going /\ RlIdleRun.sent = {}
    BY DEF RlIdleRun, RlPairs
  <2>2. RlRunTrue' /\ SentAsWanted'
    BY <1>1, <2>1 DEF RlRunEnds, RlRunTrue, SentAsWanted
  <2>3. rlClock' \in 0..MaxRlSeconds
    BY <1>1 DEF RlRunEnds, RlInv, RlTyped
  <2> QED
    BY <1>1, <2>1, <2>2, <2>3, RlRunKeeps DEF RlRunEnds
<1>2. CASE RlTick
  <2>1. rlClock' \in 0..MaxRlSeconds
    BY <1>2, RlAssumption DEF RlTick, RlInv, RlTyped, RlAssumption
  <2>2. RlRunTrue' /\ SentAsWanted'
    BY <1>2 DEF RlTick, RlInv, RlRunTrue, SentAsWanted
  <2>3. rlRun' \in [going : BOOLEAN, rules : SUBSET [id : RlRules, row : RlRows],
                    wanted : RlPairs, sent : RlPairs]
    BY <1>2 DEF RlTick, RlInv, RlTyped
  <2> QED
    BY <1>2, <2>1, <2>2, <2>3, RlRunKeeps DEF RlTick
<1> QED
  BY <1>1, <1>2
\* New rules are for the cards asked for, each card has one of them, under an id that is free.
LEMMA RlMadeRules ==
  ASSUME RlInv, RlAssumption, NEW t \in RlThreads, rlThread[t].pc = "write",
         NEW made \in RlNewRules(RlMakesFor(t))
  PROVE  /\ DOMAIN made \subseteq RlRules \ rlCause.used
         /\ RlMakesFor(t) \subseteq RlCards
         /\ \A r \in DOMAIN made :
              /\ made[r] \in RlMakesFor(t)
              /\ RlMade(t, made[r]) \in RlRows /\ RlMade(t, made[r]).card = made[r]
              /\ \A s \in DOMAIN made : made[r] = made[s] => r = s
         /\ rlThread[t].op = "keep" => DOMAIN made = {}
<1>1. PICK S \in SUBSET (RlRules \ rlCause.used) : made \in [S -> RlMakesFor(t)]
  BY DEF RlNewRules
<1>2. \A c \in RlMakesFor(t) :
        \E r \in DOMAIN made : {s \in DOMAIN made : made[s] = c} = {r}
  BY DEF RlNewRules
<1>3. \A r, s \in DOMAIN made : made[r] = made[s] => r = s
  BY <1>1, <1>2
<1>4. RlAbout(rlThread[t]) /\ rlThread[t] \in RlThreadSet
  BY DEF RlInv, RlRequests, RlTyped
<1>5. /\ RlMakesFor(t) \subseteq RlCards
      /\ rlThread[t].op = "keep" => RlMakesFor(t) = {}
      /\ RlMakesFor(t) # {} => rlThread[t].op \in {"create", "target", "import"}
  BY <1>4 DEF RlAbout, RlMakesFor
<1>6. ASSUME NEW c \in RlMakesFor(t)
      PROVE  RlMade(t, c) \in RlRows /\ RlMade(t, c).card = c
  <2> DEFINE target == rlThread[t].patch.target
             row == [state |-> "row", card |-> c, mode |-> "margin", target |-> target,
                     max |-> 0, active |-> TRUE, dry |-> TRUE, at |-> rlClock]
  <2>1. target \in RlValues
    BY <1>4, <1>5, RlPatchFits DEF RlAbout, RlThreadSet
  <2>2. rlClock \in 0..MaxRlSeconds
    BY DEF RlInv, RlTyped
  <2> HIDE DEF target
  <2>3. row \in RlRows /\ row.card = c
    BY <1>5, <2>1, <2>2 DEF RlRows
  <2>4. RlMade(t, c) = RlChanged(t, row)
    BY DEF RlMade, target
  <2> HIDE DEF row
  <2> QED
    BY <2>3, <2>4, RlChangedRow DEF RlInv
<1> QED
  BY <1>1, <1>3, <1>5, <1>6

\* Whole rows are inserted, over what others may have changed since.
LEMMA RlInsertKeeps ==
  ASSUME RlInv, RlAssumption, NEW t \in RlThreads, rlThread[t].pc = "write",
         NEW made \in RlNewRules(RlMakesFor(t)), RlInsert(t, made)
  PROVE  RlInv'
<1> DEFINE me      == rlThread[t]
           saw     == me.saw
           stale   == me.stale
           new     == DOMAIN made
           changed == {r \in DOMAIN saw : RlTouches(t, r)}
           cards   == {saw[r].card : r \in changed} \cup RlRange(made)
           off     == me.op = "keep" /\ me.patch.dry
           late    == changed \cap stale
           want    == [r \in RlRules |->
                         IF r \in new THEN RlMade(t, made[r])
                         ELSE IF r \in changed /\ RlHas(rlWant, r) THEN RlChanged(t, rlWant[r])
                         ELSE rlWant[r]]
           twice   == IF me.op = "create" THEN {} ELSE RlRange(made) \cap stale
           asked   == IF me.op = "create" THEN new ELSE {}
           left    == {r \in RlRules \ changed :
                         /\ RlLive(want[r]) /\ want[r].mode = "buyer_price"
                         /\ \E s \in DOMAIN saw : want[r].card = saw[s].card}
           more    == IF rlRun.going THEN RlWantedLive(want) ELSE {}
<1>1. /\ rlRow' = [r \in RlRules |->
                     IF r \in new THEN RlMade(t, made[r])
                     ELSE IF r \in changed THEN RlChanged(t, saw[r])
                     ELSE rlRow[r]]
      /\ rlWant' = want /\ rlDoomed' = rlDoomed \ changed
      /\ rlThread' = RlOthersStale(t, changed \cup new \cup cards)
      /\ rlRun' = [rlRun EXCEPT !.wanted = @ \cup more]
      /\ rlCause' = [rlCause EXCEPT
           !.overlapped = @ \cup late, !.twice = @ \cup twice, !.asked = @ \cup asked,
           !.used = @ \cup new, !.left = IF off THEN left ELSE @,
           !.off = IF off THEN RlCards \ stale ELSE @ \ cards]
      /\ UNCHANGED <<rlKind, rlClock, rlOps>>
  BY DEF RlInsert
<1>2. /\ new \subseteq RlRules \ rlCause.used /\ RlMakesFor(t) \subseteq RlCards
      /\ \A r \in new : /\ made[r] \in RlMakesFor(t)
                        /\ RlMade(t, made[r]) \in RlRows /\ RlMade(t, made[r]).card = made[r]
                        /\ \A s \in new : made[r] = made[s] => r = s
      /\ me.op = "keep" => new = {}
  BY RlMadeRules
<1>3. /\ RlTyped /\ me \in RlThreadSet /\ RlAbout(me) /\ rlCause.used \subseteq RlRules
      /\ DOMAIN saw \subseteq rlCause.used
  BY DEF RlInv, RlTyped, RlRequests, RlUnused
<1>4. \A r \in DOMAIN saw :
        /\ r \in RlRules /\ r \notin new /\ saw[r] \in RlRows
        /\ RlChanged(t, saw[r]) \in RlRows /\ RlChanged(t, saw[r]).card = saw[r].card
        /\ off => RlChanged(t, saw[r]).dry
  <2> SUFFICES ASSUME NEW r \in DOMAIN saw
               PROVE  /\ r \in RlRules /\ r \notin new /\ saw[r] \in RlRows
                      /\ RlChanged(t, saw[r]) \in RlRows
                      /\ RlChanged(t, saw[r]).card = saw[r].card
                      /\ off => RlChanged(t, saw[r]).dry
    OBVIOUS
  <2>1. r \in RlRules /\ r \notin new /\ saw[r] \in RlRows
    BY <1>2, <1>3 DEF RlThreadSet
  <2>2. /\ RlChanged(t, saw[r]) \in RlRows /\ RlChanged(t, saw[r]).card = saw[r].card
        /\ me.patch \in [dry : BOOLEAN, active : {TRUE}] => RlChanged(t, saw[r]).dry = me.patch.dry
    BY <1>3, <2>1, RlChangedRow
  <2>3. off => me.patch \in [dry : BOOLEAN, active : {TRUE}] /\ me.patch.dry
    BY <1>3 DEF RlAbout
  <2> QED
    BY <2>1, <2>2, <2>3
<1>5. changed \subseteq DOMAIN saw /\ cards \subseteq RlCards
  BY <1>2, <1>4 DEF RlRange, RlRows
<1>6. \A r \in new : made[r] \in cards /\ made[r] \in RlRange(made)
  BY DEF RlRange
<1>7. \A r \in changed : saw[r].card \in cards
  OBVIOUS
<1>8. \A r \in RlRules : rlRow'[r] = IF r \in new THEN RlMade(t, made[r])
                                     ELSE IF r \in changed THEN RlChanged(t, saw[r])
                                     ELSE rlRow[r]
  BY <1>1
<1>9. \A r \in RlRules : rlWant'[r] = IF r \in new THEN RlMade(t, made[r])
                                      ELSE IF r \in changed /\ RlHas(rlWant, r)
                                      THEN RlChanged(t, rlWant[r])
                                      ELSE rlWant[r]
  BY <1>1
<1>10. /\ want \in [RlRules -> RlRows \cup {RlNone}] /\ rlRow' \in [RlRules -> RlRows \cup {RlNone}]
       /\ rlRow' = [r \in RlRules |-> rlRow'[r]]
  <2>1. ASSUME NEW r \in RlRules
        PROVE  rlRow'[r] \in RlRows \cup {RlNone} /\ rlWant'[r] \in RlRows \cup {RlNone}
    <3>1. rlRow[r] \in RlRows \cup {RlNone} /\ rlWant[r] \in RlRows \cup {RlNone}
      BY <1>3 DEF RlTyped
    <3>2. RlHas(rlWant, r) => RlChanged(t, rlWant[r]) \in RlRows
      BY <1>3, RlChangedRow, RlRowOrNone
    <3> HIDE DEF want, changed
    <3> QED
      BY <1>2, <1>4, <1>5, <1>8, <1>9, <3>1, <3>2
  <2>2. rlRow' = [r \in RlRules |-> rlRow'[r]] /\ want = [r \in RlRules |-> want[r]]
    BY <1>1
  <2> HIDE DEF want
  <2> QED
    BY <2>1, <2>2, <1>1
<1>11. late \subseteq RlRules /\ twice \subseteq RlCards /\ asked \subseteq RlRules
       /\ left \subseteq RlRules /\ new \subseteq RlRules
  BY <1>2, <1>4, <1>5
<1>12. /\ changed \cup new \cup cards \in SUBSET (RlRules \cup RlCards)
  BY <1>2, <1>4, <1>5
<1>13. more \in RlPairs
  <2>1. \A r \in RlRules : RlLive(want[r]) => want[r].target \in RlValues
    <3> HIDE DEF want
    <3> QED
      BY <1>10 DEF RlLive, RlRows, RlNone
  <2> HIDE DEF want
  <2> QED
    BY <2>1 DEF RlPairs, RlWantedLive
<1>14. off \in BOOLEAN /\ (off => me.op = "keep" /\ me.op # "create")
  BY <1>3 DEF RlAbout
<1> HIDE DEF want, late, twice, asked, left, more, off
<1>15. /\ rlCause' \in [overlapped : SUBSET RlRules, twice : SUBSET RlCards, left : SUBSET RlRules,
                        off : SUBSET RlCards, asked : SUBSET RlRules, used : SUBSET RlRules]
       /\ rlCause'.overlapped = rlCause.overlapped \cup late
       /\ rlCause'.twice = rlCause.twice \cup twice
       /\ rlCause'.asked = rlCause.asked \cup asked /\ rlCause'.used = rlCause.used \cup new
       /\ rlCause'.left = (IF off THEN left ELSE rlCause.left)
       /\ rlCause'.off = (IF off THEN RlCards \ stale ELSE rlCause.off \ cards)
  <2>1. rlCause \in [overlapped : SUBSET RlRules, twice : SUBSET RlCards, left : SUBSET RlRules,
                     off : SUBSET RlCards, asked : SUBSET RlRules, used : SUBSET RlRules]
    BY <1>3 DEF RlTyped
  <2> HIDE DEF new, stale, cards
  <2> QED
    BY <2>1, <1>1, <1>11
<1>16. /\ rlRun' \in [going : BOOLEAN, rules : SUBSET [id : RlRules, row : RlRows],
                      wanted : RlPairs, sent : RlPairs]
       /\ rlRun'.going = rlRun.going /\ rlRun'.rules = rlRun.rules /\ rlRun'.sent = rlRun.sent
       /\ rlRun'.wanted = rlRun.wanted \cup more
  BY <1>1, <1>3, <1>13 DEF RlTyped, RlPairs
<1> DEFINE S == changed \cup new \cup cards
<1>17. /\ RlRequests'
       /\ \A u \in RlThreads : DOMAIN rlThread'[u].saw \subseteq rlCause'.used
       /\ \A u \in RlThreads : rlThread'[u].pc = "write" =>
            /\ u # t /\ rlThread[u].pc = "write" /\ rlThread'[u].op = rlThread[u].op
            /\ rlThread'[u].saw = rlThread[u].saw
            /\ rlThread[u].stale \cup S \subseteq rlThread'[u].stale
            /\ RlMakesFor(u)' = RlMakesFor(u)
       /\ \A u \in RlThreads : \A x \in DOMAIN rlThread'[u].saw \ rlThread'[u].stale :
            /\ u # t /\ rlThread'[u].saw = rlThread[u].saw /\ x \notin S
            /\ x \in DOMAIN rlThread[u].saw \ rlThread[u].stale
  <2>1. rlThread' = RlOthersStale(t, S)
    BY <1>1
  <2>2. S \in SUBSET (RlRules \cup RlCards)
    BY <1>12
  <2>3. rlCause.used \subseteq rlCause'.used
    BY <1>15
  <2> HIDE DEF S
  <2> QED
    BY <2>1, <2>2, <2>3, RlOthersKeep
<1>18. rlThread' \in [RlThreads -> RlThreadSet]
  <2>1. rlThread' = RlOthersStale(t, S)
    BY <1>1
  <2>2. S \in SUBSET (RlRules \cup RlCards)
    BY <1>12
  <2> HIDE DEF S
  <2> QED
    BY <2>1, <2>2, <1>3, RlStaleThreads
<1>19. RlTyped'
  BY <1>1, <1>3, <1>10, <1>15, <1>16, <1>18 DEF RlTyped
<1>20. /\ rlDoomed' = rlDoomed \ changed /\ rlDoomed \subseteq RlRules
       /\ \A r \in rlDoomed : RlHas(rlRow, r) /\ r \in rlCause.used
       /\ \A r \in RlRules \ rlCause.used : ~RlHas(rlRow, r) /\ ~RlHas(rlWant, r)
  BY <1>1 DEF RlInv, RlUnused
<1> HIDE DEF changed, cards, S
<1>21. RlUnused'
  <2>1. \A r \in rlDoomed' : r \in RlRules /\ RlHas(rlRow, r)'
    BY <1>2, <1>8, <1>20 DEF RlHas
  <2>2. \A r \in RlRules \ rlCause'.used : ~RlHas(rlRow, r)' /\ ~RlHas(rlWant, r)'
    BY <1>3, <1>5, <1>8, <1>9, <1>15, <1>20 DEF RlHas
  <2> QED
    BY <2>1, <2>2, <1>17 DEF RlUnused
<1>22. \A r \in DOMAIN saw \ stale : r \notin rlDoomed /\ saw[r] = rlRow[r]
  BY DEF RlInv, RlSeen, RlStillSo
<1>23. changed \subseteq S /\ new \subseteq S /\ cards \subseteq S
  BY DEF S
<1>24. RlSeen'
  <2> SUFFICES ASSUME NEW u \in RlThreads, NEW x \in DOMAIN rlThread'[u].saw \ rlThread'[u].stale
               PROVE  x \notin rlDoomed' /\ rlThread'[u].saw[x] = rlRow'[x]
    BY DEF RlSeen, RlStillSo
  <2>1. /\ rlThread'[u].saw = rlThread[u].saw /\ x \notin S
        /\ x \in DOMAIN rlThread[u].saw \ rlThread[u].stale
    BY <1>17
  <2>2. x \notin rlDoomed /\ rlThread[u].saw[x] = rlRow[x]
    BY <2>1 DEF RlInv, RlSeen, RlStillSo
  <2>3. x \in RlRules
    BY <2>1, <1>3 DEF RlInv, RlUnused
  <2> QED
    BY <2>1, <2>2, <2>3, <1>8, <1>20, <1>23
<1>25. \A r \in changed \ rlCause'.overlapped :
         /\ r \notin stale /\ r \notin rlDoomed /\ saw[r] = rlRow[r] /\ rlRow[r] = rlWant[r]
         /\ RlHas(rlRow, r) /\ RlHas(rlWant, r)
  <2> SUFFICES ASSUME NEW r \in changed, r \notin rlCause'.overlapped
               PROVE  /\ r \notin stale /\ r \notin rlDoomed /\ saw[r] = rlRow[r]
                      /\ rlRow[r] = rlWant[r] /\ RlHas(rlRow, r) /\ RlHas(rlWant, r)
    OBVIOUS
  <2>1. r \notin stale /\ r \notin rlCause.overlapped
    BY <1>15 DEF late
  <2>2. r \in RlRules /\ r \in DOMAIN saw /\ saw[r] \in RlRows
    BY <1>4, <1>5
  <2>3. r \notin rlDoomed /\ saw[r] = rlRow[r]
    BY <2>1, <2>2, <1>22
  <2>4. rlRow[r] = rlWant[r]
    BY <2>1, <2>2, <2>3 DEF RlInv, RlAsAsked
  <2>5. RlHas(rlRow, r) /\ RlHas(rlWant, r)
    BY <2>2, <2>3, <2>4, <1>3, RlRowOrNone
  <2> QED
    BY <2>1, <2>3, <2>4, <2>5
<1>26. RlAsAsked'
  <2> SUFFICES ASSUME NEW r \in RlRules \ rlCause'.overlapped
               PROVE  /\ r \notin rlDoomed' => rlRow'[r] = rlWant'[r]
                      /\ r \in rlDoomed' => rlWant'[r] = RlNone
    BY DEF RlAsAsked
  <2>1. CASE r \in new
    BY <2>1, <1>2, <1>8, <1>9, <1>20
  <2>2. CASE r \in changed
    <3>1. r \notin new
      BY <2>2, <1>4, <1>5
    <3> QED
      BY <2>2, <3>1, <1>8, <1>9, <1>20, <1>25
  <2>3. CASE r \notin new /\ r \notin changed
    <3>1. rlRow'[r] = rlRow[r] /\ rlWant'[r] = rlWant[r] /\ (r \in rlDoomed' <=> r \in rlDoomed)
      BY <2>3, <1>8, <1>9, <1>20
    <3>2. r \notin rlCause.overlapped
      BY <1>15
    <3> QED
      BY <3>1, <3>2 DEF RlInv, RlAsAsked
  <2> QED
    BY <2>1, <2>2, <2>3
<1>27. RlRunTrue' /\ SentAsWanted'
  BY <1>15, <1>16 DEF RlInv, RlRunTrue, SentAsWanted
<1>28. ASSUME NEW c, NEW r \in RlOf(rlRow, c)', r \notin new, r \notin changed
       PROVE  r \in RlOf(rlRow, c) /\ rlRow'[r] = rlRow[r]
  BY <1>8, <1>28 DEF RlOf, RlHas
<1>29. ASSUME NEW c, NEW r \in RlOf(rlRow, c)', c \notin cards
       PROVE  r \in RlRules /\ r \notin new /\ r \notin changed
  <2>1. r \in RlRules /\ rlRow'[r].card = c
    BY DEF RlOf
  <2>2. ASSUME r \in new
        PROVE  FALSE
    BY <2>1, <2>2, <1>2, <1>6, <1>8, <1>29
  <2>3. ASSUME r \in changed
        PROVE  FALSE
    <3>1. r \in DOMAIN saw /\ r \notin new /\ RlChanged(t, saw[r]).card = saw[r].card
      BY <2>3, <1>4, <1>5
    <3>2. rlRow'[r] = RlChanged(t, saw[r])
      BY <2>1, <2>3, <3>1, <1>8
    <3> QED
      BY <2>1, <2>3, <3>1, <3>2, <1>7, <1>29
  <2> QED
    BY <2>1, <2>2, <2>3
<1>30. ASSUME NEW c, NEW r \in RlPlain(c)'
       PROVE  \/ r \in RlPlain(c)
              \/ r \in new /\ made[r] = c /\ me.op # "create"
  <2>1. /\ r \in RlOf(rlRow, c)' /\ r \notin rlDoomed' /\ r \notin rlCause'.asked
        /\ r \notin rlCause'.overlapped /\ r \in RlRules /\ rlRow'[r].card = c
    BY DEF RlPlain, RlOf
  <2>2. r \notin rlCause.asked /\ r \notin rlCause.overlapped /\ r \notin asked
    BY <2>1, <1>15
  <2>3. CASE r \in new
    <3>1. rlRow'[r] = RlMade(t, made[r])
      BY <2>1, <2>3, <1>8
    <3>2. made[r] = c
      BY <2>1, <2>3, <3>1, <1>2
    <3> QED
      BY <2>2, <2>3, <3>2 DEF asked
  <2>4. CASE r \in changed
    <3>1. r \in DOMAIN saw /\ r \notin new /\ RlChanged(t, saw[r]).card = saw[r].card
      BY <2>4, <1>4, <1>5
    <3>2. rlRow'[r] = RlChanged(t, saw[r])
      BY <2>1, <2>4, <3>1, <1>8
    <3>3. r \notin rlDoomed /\ saw[r] = rlRow[r] /\ RlHas(rlRow, r)
      BY <2>1, <2>4, <1>25
    <3> QED
      BY <2>1, <2>2, <3>1, <3>2, <3>3 DEF RlPlain, RlOf
  <2>5. CASE r \notin new /\ r \notin changed
    <3>1. r \in RlOf(rlRow, c)
      BY <2>1, <2>5, <1>28
    <3>2. r \notin rlDoomed
      BY <2>1, <2>5, <1>20
    <3> QED
      BY <2>2, <3>1, <3>2 DEF RlPlain
  <2> QED
    BY <2>3, <2>4, <2>5
<1>31. ASSUME me.op # "create", NEW c \in RlMakesFor(t) \ stale
       PROVE  RlPlain(c) = {}
  BY <1>31 DEF RlInv, RlFoundNone
<1>32. RlSingle'
  <2> SUFFICES ASSUME NEW c \in RlCards \ rlCause'.twice,
                      NEW r \in RlPlain(c)', NEW s \in RlPlain(c)'
               PROVE  r = s
    BY DEF RlSingle
  <2>1. c \notin rlCause.twice /\ c \notin twice
    BY <1>15
  <2>2. CASE r \in RlPlain(c) /\ s \in RlPlain(c)
    BY <2>1, <2>2 DEF RlInv, RlSingle
  <2>3. CASE r \notin RlPlain(c) \/ s \notin RlPlain(c)
    <3>1. PICK x \in new : made[x] = c /\ me.op # "create"
      BY <2>3, <1>30
    <3>2. c \in RlMakesFor(t) /\ c \notin stale
      BY <2>1, <3>1, <1>2, <1>6 DEF twice
    <3>3. RlPlain(c) = {}
      BY <3>1, <3>2, <1>31
    <3>4. r \in new /\ made[r] = c /\ s \in new /\ made[s] = c
      BY <3>3, <1>30
    <3> QED
      BY <3>4, <1>2
  <2> QED
    BY <2>2, <2>3
<1>33. RlFoundNone'
  <2> SUFFICES ASSUME NEW u \in RlThreads, rlThread'[u].pc = "write", rlThread'[u].op # "create",
                      NEW c \in RlMakesFor(u)', c \notin rlThread'[u].stale
               PROVE  RlPlain(c)' = {}
    BY DEF RlFoundNone
  <2>1. /\ rlThread[u].pc = "write" /\ rlThread'[u].op = rlThread[u].op
        /\ rlThread[u].stale \cup S \subseteq rlThread'[u].stale
        /\ RlMakesFor(u)' = RlMakesFor(u)
    BY <1>17
  <2>2. c \in RlMakesFor(u) \ rlThread[u].stale /\ c \notin cards
    BY <2>1, <1>23
  <2>3. RlPlain(c) = {}
    BY <2>1, <2>2 DEF RlInv, RlFoundNone
  <2>4. \A r \in new : made[r] # c
    BY <2>2, <1>6
  <2> QED
    BY <2>3, <2>4, <1>30
<1>34. RlSeesAll'
  <2> SUFFICES ASSUME NEW u \in RlThreads, rlThread'[u].pc = "write", rlThread'[u].op = "keep",
                      NEW c \in RlCards, c \notin rlThread'[u].stale, NEW r \in RlOf(rlRow, c)'
               PROVE  \E x \in DOMAIN rlThread'[u].saw : rlThread'[u].saw[x].card = c
    BY DEF RlSeesAll
  <2>1. /\ rlThread[u].pc = "write" /\ rlThread'[u].op = rlThread[u].op
        /\ rlThread'[u].saw = rlThread[u].saw
        /\ rlThread[u].stale \cup S \subseteq rlThread'[u].stale
    BY <1>17
  <2>2. c \notin rlThread[u].stale /\ c \notin cards
    BY <2>1, <1>23
  <2>3. r \in RlOf(rlRow, c)
    BY <2>2, <1>28, <1>29
  <2> QED
    BY <2>1, <2>2, <2>3 DEF RlInv, RlSeesAll
<1>35. KeptOff'
  <2> SUFFICES ASSUME NEW c \in rlCause'.off, NEW r \in RlOf(rlRow, c)', RlLive(rlRow'[r]),
                      rlRow'[r].mode = "buyer_price"
               PROVE  r \in rlCause'.left \cup rlCause'.overlapped \cup rlDoomed'
    BY DEF KeptOff, RlLive
  <2>1. r \in RlRules /\ rlRow'[r].card = c
    BY DEF RlOf
  <2>2. CASE off
    <3>1. /\ me.op = "keep" /\ new = {} /\ c \in RlCards /\ c \notin stale
          /\ rlCause'.left = left
      BY <2>2, <1>2, <1>14, <1>15
    <3>2. r \notin changed
      <4>1. SUFFICES ASSUME r \in changed PROVE FALSE
        OBVIOUS
      <4>2. rlRow'[r] = RlChanged(t, saw[r]) /\ RlChanged(t, saw[r]).dry
        BY <2>1, <2>2, <4>1, <1>4, <1>5, <1>8
      <4> QED
        BY <4>2 DEF RlLive
    <3>3. r \in RlOf(rlRow, c) /\ rlRow'[r] = rlRow[r]
      BY <3>1, <3>2, <1>28
    <3>4. \E s \in DOMAIN saw : saw[s].card = c
      BY <3>1, <3>3 DEF RlInv, RlSeesAll
    <3>5. SUFFICES ASSUME r \notin rlCause'.overlapped, r \notin rlDoomed' PROVE r \in left
      BY <3>1
    <3>6. rlRow'[r] = want[r]
      BY <2>1, <3>5, <1>1, <1>26 DEF RlAsAsked
    <3> QED
      BY <2>1, <3>2, <3>4, <3>6 DEF left
  <2>3. CASE ~off
    <3>1. c \in rlCause.off /\ c \notin cards /\ rlCause'.left = rlCause.left
      BY <2>3, <1>15
    <3>2. /\ r \in RlOf(rlRow, c) /\ rlRow'[r] = rlRow[r] /\ r \notin changed
      BY <3>1, <1>28, <1>29
    <3>3. r \in rlCause.left \cup rlCause.overlapped \cup rlDoomed
      BY <3>1, <3>2 DEF RlInv, KeptOff
    <3> QED
      BY <3>1, <3>2, <3>3, <1>15, <1>20
  <2> QED
    BY <2>2, <2>3
<1> QED
  BY <1>17, <1>19, <1>21, <1>24, <1>26, <1>27, <1>32, <1>33, <1>34, <1>35 DEF RlInv

\* A request writes: it deletes its rule, or inserts rows.
LEMMA RlWriteKeeps ==
  ASSUME RlInv, RlAssumption, NEW t \in RlThreads, RlWrite(t)
  PROVE  RlInv'
<1>1. rlThread[t].pc = "write"
  BY DEF RlWrite
<1>2. CASE rlThread[t].op = "delete" /\ RlDelete(t)
  BY <1>1, <1>2, RlDeleteKeeps
<1>3. ASSUME NEW made \in RlNewRules(RlMakesFor(t)), RlInsert(t, made)
      PROVE  RlInv'
  BY <1>1, <1>3, RlInsertKeeps
<1> QED
  BY <1>2, <1>3 DEF RlWrite

\* Every step keeps the invariant.
LEMMA RlStepKeeps ==
  ASSUME RlInv, RlAssumption, [RlNext]_rlVars
  PROVE  RlInv'
<1>1. ASSUME NEW t \in RlThreads, RlBegin(t) PROVE RlInv'
  BY <1>1, RlBeginKeeps
<1>2. ASSUME NEW t \in RlThreads, RlFind(t) PROVE RlInv'
  BY <1>2, RlFindKeeps
<1>3. ASSUME NEW t \in RlThreads, RlRead(t) PROVE RlInv'
  BY <1>3, RlReadKeeps
<1>4. ASSUME NEW t \in RlThreads, RlWrite(t) PROVE RlInv'
  BY <1>4, RlWriteKeeps
<1>5. ASSUME NEW r \in RlRules, RlMutate(r) PROVE RlInv'
  BY <1>5, RlMutateKeeps
<1>6. CASE RlFetch
  BY <1>6, RlFetchKeeps
<1>7. CASE RlAct
  BY <1>7, RlActKeeps
<1>8. CASE RlRunEnds \/ RlTick
  BY <1>8, RlRestKeeps
<1>9. CASE UNCHANGED rlVars
  <2>1. UNCHANGED <<rlKind, rlRow, rlDoomed, rlThread, rlWant, rlCause, rlOps>>
    BY <1>9 DEF rlVars
  <2>2. rlRun' = rlRun /\ rlClock' = rlClock
    BY <1>9 DEF rlVars
  <2>3. RlRunTrue' /\ SentAsWanted'
    BY <2>1, <2>2 DEF RlInv, RlRunTrue, SentAsWanted
  <2>4. /\ rlClock' \in 0..MaxRlSeconds
        /\ rlRun' \in [going : BOOLEAN, rules : SUBSET [id : RlRules, row : RlRows],
                       wanted : RlPairs, sent : RlPairs]
    BY <2>2 DEF RlInv, RlTyped
  <2> QED
    BY <2>1, <2>3, <2>4, RlRunKeeps
<1> QED
  BY <1>1, <1>2, <1>3, <1>4, <1>5, <1>6, <1>7, <1>8, <1>9 DEF RlNext

\* The invariant says what is promised.
LEMMA RlInvImplies ==
  ASSUME RlInv
  PROVE  RulesSound
<1>1. RlTypeOK
  <2>1. \A t \in RlThreads : /\ rlThread[t].pc \in {"idle", "find", "read", "write"}
                             /\ DOMAIN rlThread[t].saw \subseteq RlRules
    BY DEF RlInv, RlTyped, RlUnused, RlThreadSet
  <2> QED
    BY <2>1 DEF RlInv, RlTyped, RlUnused, RlTypeOK
<1>2. RuleIsAsAsked
  BY DEF RlInv, RlAsAsked, RuleIsAsAsked
<1>3. ASSUME NEW c \in RlCards \ rlCause.twice
      PROVE  Cardinality(RlPlain(c)) <= 1
  <2>1. \A r, s \in RlPlain(c) : r = s
    BY <1>3 DEF RlInv, RlSingle
  <2> DEFINE plain == RlPlain(c)
  <2> HIDE DEF plain
  <2>2. CASE plain = {}
    BY <2>2, FS_EmptySet DEF plain
  <2>3. CASE plain # {}
    <3>1. PICK r : r \in plain
      BY <2>3
    <3>2. plain = {r}
      BY <2>1, <3>1 DEF plain
    <3>3. Cardinality(plain) = 1
      BY <3>2, FS_Singleton
    <3> QED
      BY <3>3 DEF plain
  <2> QED
    BY <2>2, <2>3
<1>4. OneRulePerCard
  BY <1>3 DEF OneRulePerCard, RlPlain
<1> QED
  BY <1>1, <1>2, <1>4 DEF RlInv, RulesSound

\* Rules are what users asked for and a run sends what the rules say, unless a request overwrote
\* what another had changed after the first had read it.
THEOREM RulesAreKept == RlSpec => []RulesSound
<1>1. RlInit => RlInv
  BY RlInitHolds, RlAssumption
<1>2. RlInv /\ [RlNext]_rlVars => RlInv'
  BY RlStepKeeps, RlAssumption
<1>3. RlInv => RulesSound
  BY RlInvImplies
<1> QED
  BY <1>1, <1>2, <1>3, PTL DEF RlSpec

======================================================================

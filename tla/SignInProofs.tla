-------------------------- MODULE SignInProofs --------------------------
(* The four guarantees of SignIn for any number of requests and sessions:   *)
(* one good token per sign-in, an ended sign-in stays ended, a deletion     *)
(* ends every sign-in it found, and the limit of failures locks.            *)
EXTENDS SignIn, TLAPS

\* Every session belongs to the sign-in that some stored session started.
Roots ==
    \A s \in Stored : /\ sessions[s].family \in Stored
                      /\ sessions[sessions[s].family].family = sessions[s].family

\* A refresh speaks of a session that was found; rows are never removed.
Asked == \A r \in Requests : requests[r].at \in {"rotate", "reused"} => requests[r].sid \in Stored

\* A transaction found only sessions that exist, and only a deletion has one.
Reads ==
    \A r \in Requests :
        /\ deletions[r].found \subseteq Stored
        /\ ~At(r, "deleting") => deletions[r] = NoDeletion

\* As long as nothing of what a deletion found was written, the good tokens of
\* the sign-ins it found are among it.
NothingMissed ==
    \A r \in Requests : ~deletions[r].conflict =>
        \A s \in deletions[r].found, z \in Sids :
            Unspent(z) /\ sessions[z].family = sessions[s].family => z \in deletions[r].found

Shape == TypeOK /\ Roots /\ Asked /\ Reads
Inv == Shape /\ OneUnspentPerFamily /\ NothingMissed /\ LimitLocks

\* What one step can do to the sessions: nothing, a sign-in, a rotation of a
\* good token, or the end of some.
SignsIn(s) == s \in Sids \ Stored /\ sessions' = [sessions EXCEPT ![s] = NewSession(s)]
Rotates(r, n) ==
    /\ At(r, "rotate") /\ Unspent(requests[r].sid) /\ n \in Sids \ Stored
    /\ sessions' = [sessions EXCEPT ![requests[r].sid].next = n,
                                    ![n] = NewSession(sessions[requests[r].sid].family)]
    /\ deletions' = Overtaken({requests[r].sid}, FALSE)
Ends(rows) == rows \in SUBSET Stored /\ sessions' = Revoked(rows)

\* A row is one of a session exactly when it names a family.
LEMMA StoredRows ==
    ASSUME TypeOK
    PROVE  /\ Stored \subseteq Sids
           /\ \A s \in Stored : sessions[s] \in [family : Sids, next : Sids \cup {NoSid}, revoked : BOOLEAN]
           /\ \A s \in Sids \ Stored : sessions[s] = NoSession
BY DEF TypeOK, Stored, SessionRows

\* The initial state.
LEMMA InitInv == Init => Inv
<1> SUFFICES ASSUME Init PROVE Inv
  OBVIOUS
<1>1. Stored = {}
  BY DEF Init, Stored
<1>2. account \in Accounts
  BY AttemptBoundAssumption DEF Init, Accounts
<1>3. sessions \in [Sids -> SessionRows]
  BY DEF Init, SessionRows
<1>4. requests \in [Requests -> RequestRows]
  BY DEF Init, RequestRows, Idle, Request, Steps
<1>5. LimitLocks
  BY MaxFailedAssumption DEF Init, LimitLocks
<1>6. Asked
  BY DEF Init, Asked, Idle, Request
<1>7. deletions \in [Requests -> Deletions] /\ \A r \in Requests : deletions[r] = NoDeletion
  BY DEF Init, Deletions, NoDeletion
<1>8. Reads /\ NothingMissed
  BY <1>7 DEF Reads, NothingMissed, NoDeletion
<1> QED BY <1>1, <1>2, <1>3, <1>4, <1>5, <1>6, <1>7, <1>8
        DEF Inv, Shape, TypeOK, Roots, OneUnspentPerFamily, Unspent

\* The rows a step leaves behind have their types.
LEMMA NewRowTypes ==
    ASSUME TypeOK
    PROVE  /\ \A f \in Sids : NewSession(f) \in SessionRows
           /\ \A rows \in SUBSET Stored : Revoked(rows) \in [Sids -> SessionRows]
           /\ \A s \in Stored, n \in Sids : [sessions[s] EXCEPT !.next = n] \in SessionRows
BY StoredRows DEF TypeOK, NewSession, Revoked, SessionRows

LEMMA RequestTypes ==
    ASSUME NEW step \in Steps, NEW s \in Sids \cup {NoSid}, NEW failures \in BOOLEAN
    PROVE  Request(step, s, failures) \in RequestRows
BY DEF Request, RequestRows

\* What a step does to the sessions, one disjunct of Next at a time.
LEMMA SessionSteps ==
    ASSUME TypeOK, Asked, Reads, [Next]_vars
    PROVE  \/ sessions' = sessions
           \/ \E s \in Sids : SignsIn(s)
           \/ \E r \in Requests, n \in Sids : Rotates(r, n)
           \/ \E rows \in SUBSET Stored : Ends(rows)
<1> USE StoredRows
<1>1. CASE UNCHANGED vars
  BY <1>1 DEF vars
<1>2. ASSUME NEW r \in Requests,
             \/ \E right \in BOOLEAN : Login(r, right)
             \/ \E patched \in BOOLEAN : OtpAccepted(r, patched)
             \/ CountFailure(r) \/ Lock(r) \/ ClearFailures(r) \/ UpdateByAdmin(r)
             \/ \E ends \in BOOLEAN : ChangeAccount(r, ends)
             \/ StartDelete(r) \/ BeginDelete(r) \/ RetryDelete(r)
      PROVE  sessions' = sessions
  BY <1>2 DEF Login, OtpAccepted, CountFailure, Lock, ClearFailures, UpdateByAdmin, ChangeAccount,
              StartDelete, BeginDelete, RetryDelete
<1>3. ASSUME NEW r \in Requests, RevokeFamily(r) PROVE \E rows \in SUBSET Stored : Ends(rows)
  <2>1. Family(sessions[requests[r].sid].family) \in SUBSET Stored
    BY DEF Family
  <2> QED BY <1>3, <2>1 DEF RevokeFamily, Revoke, Ends
<1>4. ASSUME NEW r \in Requests, LogoutAll(r) PROVE Ends(Stored)
  BY <1>4 DEF LogoutAll, Revoke, Ends
<1>12. ASSUME NEW r \in Requests, CommitDelete(r) PROVE \E rows \in SUBSET Stored : Ends(rows)
  BY <1>12 DEF CommitDelete, Ends, Reads
<1>5. ASSUME NEW r \in Requests, EndSessions(r) PROVE Ends(Stored \ {requests[r].sid})
  BY <1>5 DEF EndSessions, Revoke, Ends
<1>6. ASSUME NEW r \in Requests, NEW s \in Sids, StartSession(r, s) PROVE SignsIn(s)
  BY <1>6 DEF StartSession, SignsIn
<1>7. ASSUME NEW r \in Requests, NEW s \in Sids, Logout(r, s) PROVE Ends({s})
  BY <1>7 DEF Logout, Revoke, Ends
<1>8. ASSUME NEW r \in Requests, NEW n \in Sids, Rotate(r, n)
      PROVE  Rotates(r, n) \/ sessions' = sessions
  BY <1>8 DEF Rotate, Rotates
<1>9. ASSUME NEW r \in Requests, NEW s \in Sids,
             Refresh(r, s) \/ \E step \in {"logout", "logoutAll", "change", "delete"} : Enter(r, s, step)
      PROVE  sessions' = sessions
  BY <1>9 DEF Refresh, Enter
<1>10. CASE LockPasses \/ WindowPasses
  BY <1>10 DEF LockPasses, WindowPasses
<1>11. ASSUME NEW rows \in SUBSET Sids, Ends(rows) PROVE \E x \in SUBSET Stored : Ends(x)
  BY <1>11 DEF Ends
<1> QED
  <2> DEFINE Goal == \/ sessions' = sessions
                     \/ \E s \in Sids : SignsIn(s)
                     \/ \E r \in Requests, n \in Sids : Rotates(r, n)
                     \/ \E rows \in SUBSET Stored : Ends(rows)
  <2>1. ASSUME NEW r \in Requests,
               \/ \E right \in BOOLEAN : Login(r, right)
               \/ \E patched \in BOOLEAN : OtpAccepted(r, patched)
               \/ CountFailure(r) \/ Lock(r) \/ ClearFailures(r)
               \/ RevokeFamily(r) \/ LogoutAll(r) \/ UpdateByAdmin(r)
               \/ \E ends \in BOOLEAN : ChangeAccount(r, ends)
               \/ EndSessions(r)
               \/ StartDelete(r) \/ BeginDelete(r) \/ CommitDelete(r) \/ RetryDelete(r)
        PROVE  Goal
    <3>1. Stored \ {requests[r].sid} \in SUBSET Stored /\ Stored \in SUBSET Stored
      OBVIOUS
    <3> QED BY <2>1, <3>1, <1>2, <1>3, <1>4, <1>5, <1>11, <1>12
  <2>2. ASSUME NEW r \in Requests, NEW s \in Sids,
               \/ StartSession(r, s) \/ Refresh(r, s) \/ Rotate(r, s) \/ Logout(r, s)
               \/ \E step \in {"logout", "logoutAll", "change", "delete"} : Enter(r, s, step)
        PROVE  Goal
    BY <2>2, <1>6, <1>7, <1>8, <1>9, <1>11
  <2>3. Goal
    BY <1>1, <1>10, <2>1, <2>2 DEF Next
  <2> QED BY <2>3

\* The account's row keeps its type.
LEMMA AccountSteps ==
    ASSUME TypeOK, [Next]_vars
    PROVE  account' \in Accounts
<1> USE DEF TypeOK
<1>1. ASSUME NEW r \in Requests, CountFailure(r)
      PROVE  account' \in Accounts
  <2> DEFINE attempts == IF account.recent THEN account.attempts + 1 ELSE 1
  <2>1. account.attempts \in 0..AttemptBound
    BY DEF Accounts
  <2>2. attempts \in Nat
    BY <2>1, AttemptBoundAssumption
  <2>3. account' = account \/ (attempts <= AttemptBound /\ account' = [account EXCEPT !.attempts = attempts, !.recent = TRUE])
    BY <1>1 DEF CountFailure
  <2>4. CASE account' = account
    BY <2>4
  <2>5. CASE attempts <= AttemptBound /\ account' = [account EXCEPT !.attempts = attempts, !.recent = TRUE]
    <3>1. attempts \in 0..AttemptBound
      BY <2>5, <2>2, AttemptBoundAssumption
    <3> HIDE DEF attempts
    <3> QED BY <2>5, <3>1 DEF Accounts
  <2> QED BY <2>3, <2>4, <2>5
<1>2. ASSUME NEW r \in Requests, Lock(r) \/ ClearFailures(r)
      PROVE  account' \in Accounts
  <2>1. 0 \in 0..AttemptBound
    BY AttemptBoundAssumption
  <2> QED BY <1>2, <2>1 DEF Lock, ClearFailures, Accounts
<1>3. CASE LockPasses \/ WindowPasses
  BY <1>3 DEF LockPasses, WindowPasses, Accounts
<1>4. ASSUME NEW r \in Requests, CommitDelete(r)
      PROVE  account' \in Accounts
  BY <1>4 DEF CommitDelete, Accounts
<1>5. CASE UNCHANGED vars
  BY <1>5 DEF vars
<1>6. ASSUME NEW r \in Requests,
             \/ \E right \in BOOLEAN : Login(r, right)
             \/ \E patched \in BOOLEAN : OtpAccepted(r, patched)
             \/ RevokeFamily(r) \/ LogoutAll(r) \/ UpdateByAdmin(r)
             \/ \E ends \in BOOLEAN : ChangeAccount(r, ends)
             \/ EndSessions(r) \/ StartDelete(r) \/ BeginDelete(r) \/ RetryDelete(r)
      PROVE  account' = account
  BY <1>6 DEF Login, OtpAccepted, RevokeFamily, LogoutAll, UpdateByAdmin, ChangeAccount,
              EndSessions, StartDelete, BeginDelete, RetryDelete
<1>7. ASSUME NEW r \in Requests, NEW s \in Sids,
             \/ StartSession(r, s) \/ Refresh(r, s) \/ Rotate(r, s) \/ Logout(r, s)
             \/ \E step \in {"logout", "logoutAll", "change", "delete"} : Enter(r, s, step)
      PROVE  account' = account
  BY <1>7 DEF StartSession, Refresh, Rotate, Logout, Enter
<1> QED BY <1>1, <1>2, <1>3, <1>4, <1>5, <1>6, <1>7 DEF Next

\* Where a step can take a request: a refresh, and a rotation that finds its
\* token spent, name a session.
Leads ==
    /\ requests' \in [Requests -> RequestRows]
    /\ \A r \in Requests :
          requests'[r].at \in {"rotate", "reused"} => requests'[r].sid \in Stored

LEMMA RequestSteps ==
    ASSUME TypeOK, Asked, [Next]_vars
    PROVE  Leads
<1> USE DEF Goto, Done, Idle, At
<1>0. "idle" \in Steps /\ "wrong" \in Steps /\ "lock" \in Steps /\ "right" \in Steps
      /\ "start" \in Steps /\ "rotate" \in Steps /\ "reused" \in Steps
      /\ {"logout", "logoutAll", "change", "end", "delete", "deleting"} \subseteq Steps
  BY DEF Steps
\* Every step sends at most one request on.
<1>1. ASSUME NEW r \in Requests, NEW step \in Steps, NEW s \in Sids \cup {NoSid}, NEW f \in BOOLEAN,
             requests' = [requests EXCEPT ![r] = Request(step, s, f)],
             step \in {"rotate", "reused"} => s \in Stored
      PROVE  Leads
  <2>1. requests' \in [Requests -> RequestRows]
    BY <1>1, RequestTypes DEF TypeOK
  <2>2. \A q \in Requests : requests'[q] = IF q = r THEN Request(step, s, f) ELSE requests[q]
    BY <1>1 DEF TypeOK
  <2> QED BY <1>1, <2>1, <2>2 DEF Asked, Request, Leads
<1>2. ASSUME requests' = requests PROVE Leads
  BY <1>2 DEF Asked, Leads, TypeOK
<1>3. CASE UNCHANGED vars
  BY <1>2, <1>3 DEF vars
<1>4. ASSUME NEW r \in Requests, NEW right \in BOOLEAN, Login(r, right) PROVE Leads
  BY <1>0, <1>1, <1>4 DEF Login, TypeOK, Accounts
<1>5. ASSUME NEW r \in Requests, CountFailure(r) PROVE Leads
  <2>1. requests' = [requests EXCEPT ![r] = Request("idle", NoSid, FALSE)]
        \/ requests' = [requests EXCEPT ![r] = Request("lock", NoSid, FALSE)]
    BY <1>5 DEF CountFailure
  <2>3. CASE requests' = [requests EXCEPT ![r] = Request("idle", NoSid, FALSE)]
    BY <1>0, <1>1, <2>3
  <2>4. CASE requests' = [requests EXCEPT ![r] = Request("lock", NoSid, FALSE)]
    BY <1>0, <1>1, <2>4
  <2> QED BY <2>1, <2>3, <2>4
<1>6. ASSUME NEW r \in Requests,
             \/ Lock(r) \/ RevokeFamily(r) \/ LogoutAll(r) \/ EndSessions(r) \/ CommitDelete(r)
             \/ \E s \in Sids : StartSession(r, s) \/ Logout(r, s)
      PROVE  Leads
  <2>1. requests' = [requests EXCEPT ![r] = Request("idle", NoSid, FALSE)]
    BY <1>6 DEF Lock, RevokeFamily, LogoutAll, EndSessions, CommitDelete, StartSession, Logout
  <2> QED BY <1>0, <1>1, <2>1
<1>7. ASSUME NEW r \in Requests, ClearFailures(r) \/ \E patched \in BOOLEAN : OtpAccepted(r, patched)
      PROVE  Leads
  <2>1. requests' = [requests EXCEPT ![r] = Request("start", NoSid, FALSE)]
    BY <1>7 DEF ClearFailures, OtpAccepted
  <2> QED BY <1>0, <1>1, <2>1
<1>8. ASSUME NEW r \in Requests,
             UpdateByAdmin(r) \/ StartDelete(r) \/ BeginDelete(r) \/ RetryDelete(r)
      PROVE  Leads
  <2>1. PICK step \in {"change", "delete", "deleting"} :
             requests' = [requests EXCEPT ![r] = Request(step, NoSid, FALSE)]
    BY <1>8 DEF UpdateByAdmin, StartDelete, BeginDelete, RetryDelete
  <2> QED BY <1>0, <1>1, <2>1
<1>13. ASSUME NEW r \in Requests, NEW ends \in BOOLEAN, ChangeAccount(r, ends) PROVE Leads
  <2>1. requests[r].sid \in Sids \cup {NoSid}
    BY DEF TypeOK, RequestRows
  <2>2. requests' = [requests EXCEPT ![r] = Request("end", requests[r].sid, FALSE)]
        \/ requests' = [requests EXCEPT ![r] = Request("idle", NoSid, FALSE)]
    BY <1>13 DEF ChangeAccount
  <2>3. CASE requests' = [requests EXCEPT ![r] = Request("end", requests[r].sid, FALSE)]
    BY <1>0, <1>1, <2>1, <2>3
  <2>4. CASE requests' = [requests EXCEPT ![r] = Request("idle", NoSid, FALSE)]
    BY <1>0, <1>1, <2>4
  <2> QED BY <2>2, <2>3, <2>4
<1>9. ASSUME NEW r \in Requests, NEW s \in Sids, Refresh(r, s) PROVE Leads
  <2>1. s \in Stored
    BY <1>9, StoredRows DEF Refresh
  <2>2. \/ requests' = [requests EXCEPT ![r] = Request("reused", s, FALSE)]
        \/ account.exists /\ requests' = [requests EXCEPT ![r] = Request("rotate", s, FALSE)]
    BY <1>9 DEF Refresh
  <2>3. CASE requests' = [requests EXCEPT ![r] = Request("reused", s, FALSE)]
    BY <1>0, <1>1, <2>1, <2>3
  <2>4. CASE account.exists /\ requests' = [requests EXCEPT ![r] = Request("rotate", s, FALSE)]
    BY <1>0, <1>1, <2>1, <2>4
  <2> QED BY <2>2, <2>3, <2>4
<1>10. ASSUME NEW r \in Requests, NEW n \in Sids, Rotate(r, n) PROVE Leads
  <2>1. requests[r].sid \in Stored
    BY <1>10 DEF Rotate, Asked
  <2>2. requests' = [requests EXCEPT ![r] = Request("reused", requests[r].sid, FALSE)]
        \/ requests' = [requests EXCEPT ![r] = Request("idle", NoSid, FALSE)]
    BY <1>10 DEF Rotate
  <2>3. CASE requests' = [requests EXCEPT ![r] = Request("reused", requests[r].sid, FALSE)]
    BY <1>0, <1>1, <2>1, <2>3, StoredRows
  <2>4. CASE requests' = [requests EXCEPT ![r] = Request("idle", NoSid, FALSE)]
    BY <1>0, <1>1, <2>4
  <2> QED BY <2>2, <2>3, <2>4
<1>11. ASSUME NEW r \in Requests, NEW s \in Sids,
              NEW step \in {"logout", "logoutAll", "change", "delete"}, Enter(r, s, step)
       PROVE  Leads
  <2>1. requests' = [requests EXCEPT ![r] = Request(step, s, FALSE)]
    BY <1>11 DEF Enter
  <2>2. step \notin {"rotate", "reused"}
    OBVIOUS
  <2>3. step \in Steps
    BY <1>0
  <2> QED BY <1>1, <2>1, <2>2, <2>3
<1>12. CASE LockPasses \/ WindowPasses
  BY <1>2, <1>12 DEF LockPasses, WindowPasses
<1> QED
  <2>1. ASSUME NEW r \in Requests,
               \/ \E right \in BOOLEAN : Login(r, right)
               \/ \E patched \in BOOLEAN : OtpAccepted(r, patched)
               \/ CountFailure(r) \/ Lock(r) \/ ClearFailures(r)
               \/ RevokeFamily(r) \/ LogoutAll(r) \/ UpdateByAdmin(r)
               \/ \E ends \in BOOLEAN : ChangeAccount(r, ends)
               \/ EndSessions(r)
               \/ StartDelete(r) \/ BeginDelete(r) \/ CommitDelete(r) \/ RetryDelete(r)
        PROVE  Leads
    BY <2>1, <1>4, <1>5, <1>6, <1>7, <1>8, <1>13
  <2>2. ASSUME NEW r \in Requests, NEW s \in Sids,
               \/ StartSession(r, s) \/ Refresh(r, s) \/ Rotate(r, s) \/ Logout(r, s)
               \/ \E step \in {"logout", "logoutAll", "change", "delete"} : Enter(r, s, step)
        PROVE  Leads
    BY <2>2, <1>6, <1>9, <1>10, <1>11
  <2> QED BY <1>3, <1>12, <2>1, <2>2 DEF Next

\* What a step does to the transactions: it overtakes those it writes into, or
\* one of them begins, commits or is retried.
Kept ==
    /\ \E rows \in SUBSET Sids, wrote \in BOOLEAN : deletions' = Overtaken(rows, wrote)
    /\ \A q \in Requests : At(q, "deleting")' <=> At(q, "deleting")

LEMMA DeletionSteps ==
    ASSUME TypeOK, Asked, [Next]_vars
    PROVE  \/ Kept
           \/ \E r \in Requests : BeginDelete(r) \/ CommitDelete(r) \/ RetryDelete(r)
<1> USE DEF At
<1>0. account.exists \in BOOLEAN /\ {} \in SUBSET Sids
  BY DEF TypeOK, Accounts
<1>1. ASSUME deletions' = deletions PROVE deletions' = Overtaken({}, FALSE)
  BY <1>1 DEF Overtaken, TypeOK, Deletions
<1>2. ASSUME NEW r \in Requests, ~At(r, "deleting"), NEW step, step # "deleting", NEW z, NEW f,
             requests' = [requests EXCEPT ![r] = Request(step, z, f)]
      PROVE  \A q \in Requests : At(q, "deleting")' <=> At(q, "deleting")
  BY <1>2 DEF Request, TypeOK
<1>3. CASE UNCHANGED vars
  BY <1>0, <1>1, <1>3 DEF vars, Kept
<1>4. CASE LockPasses \/ WindowPasses
  BY <1>0, <1>1, <1>4 DEF LockPasses, WindowPasses, Kept
<1>5. ASSUME NEW r \in Requests, (\E right \in BOOLEAN : Login(r, right)) \/ UpdateByAdmin(r) \/ StartDelete(r)
      PROVE  Kept
  <2>1. deletions' = deletions
    BY <1>5 DEF Login, UpdateByAdmin, StartDelete
  <2>2. PICK step \in {"right", "wrong", "change", "delete"}, f \in {FALSE, account.attempts # 0} :
           requests' = [requests EXCEPT ![r] = Request(step, NoSid, f)]
    BY <1>5 DEF Login, UpdateByAdmin, StartDelete, Goto
  <2>3. ~At(r, "deleting")
    BY <1>5 DEF Login, UpdateByAdmin, StartDelete
  <2> QED BY <1>0, <1>1, <1>2, <2>1, <2>2, <2>3 DEF Kept
<1>6. ASSUME NEW r \in Requests,
             \/ CountFailure(r) \/ Lock(r) \/ ClearFailures(r)
             \/ \E b \in BOOLEAN : OtpAccepted(r, b) \/ ChangeAccount(r, b)
      PROVE  Kept
  <2>1. \E wrote \in BOOLEAN : deletions' = Overtaken({}, wrote)
    <3>1. (requests[r].failures /\ account.exists) \in BOOLEAN
      OBVIOUS
    <3> QED BY <1>0, <1>6, <3>1 DEF CountFailure, Lock, ClearFailures, OtpAccepted, ChangeAccount
  <2>2. PICK step \in {"idle", "lock", "start", "end"}, z \in {NoSid, requests[r].sid} :
           requests' = [requests EXCEPT ![r] = Request(step, z, FALSE)]
    BY <1>6 DEF CountFailure, Lock, ClearFailures, OtpAccepted, ChangeAccount, Goto, Done, Idle
  <2>3. ~At(r, "deleting")
    BY <1>6 DEF CountFailure, Lock, ClearFailures, OtpAccepted, ChangeAccount
  <2> QED BY <1>0, <1>2, <2>1, <2>2, <2>3 DEF Kept
<1>7. ASSUME NEW r \in Requests,
             \/ RevokeFamily(r) \/ LogoutAll(r) \/ EndSessions(r)
             \/ \E s \in Sids : Logout(r, s)
      PROVE  Kept
  <2>1. PICK rows : Revoke(rows) /\ rows \subseteq Sids
    <3>1. Stored \subseteq Sids /\ \A f : Family(f) \subseteq Sids
      BY StoredRows DEF Family
    <3>2. CASE RevokeFamily(r)
      BY <3>1, <3>2 DEF RevokeFamily
    <3>3. CASE LogoutAll(r)
      BY <3>1, <3>3 DEF LogoutAll
    <3>4. CASE EndSessions(r)
      <4>1. Stored \ {requests[r].sid} \subseteq Sids
        BY <3>1
      <4> QED BY <3>4, <4>1 DEF EndSessions
    <3>5. ASSUME NEW s \in Sids, Logout(r, s) PROVE Revoke({s}) /\ {s} \subseteq Sids
      BY <3>5 DEF Logout
    <3> QED BY <1>7, <3>2, <3>3, <3>4, <3>5
  <2>2. \E x \in SUBSET Sids : deletions' = Overtaken(x, FALSE)
    BY <2>1 DEF Revoke
  <2>3. ~At(r, "deleting") /\ requests' = [requests EXCEPT ![r] = Request("idle", NoSid, FALSE)]
    BY <1>7 DEF RevokeFamily, LogoutAll, EndSessions, Logout, Done, Idle
  <2> QED BY <1>2, <2>2, <2>3 DEF Kept
<1>8. ASSUME NEW r \in Requests, NEW s \in Sids,
             \/ StartSession(r, s) \/ Refresh(r, s)
             \/ \E step \in {"logout", "logoutAll", "change", "delete"} : Enter(r, s, step)
      PROVE  Kept
  <2>1. deletions' = deletions
    BY <1>8 DEF StartSession, Refresh, Enter
  <2>2. PICK step \in {"idle", "reused", "rotate", "logout", "logoutAll", "change", "delete"},
             z \in {NoSid, s} :
           requests' = [requests EXCEPT ![r] = Request(step, z, FALSE)]
    BY <1>8 DEF StartSession, Refresh, Enter, Goto, Done, Idle
  <2>3. ~At(r, "deleting")
    BY <1>8 DEF StartSession, Refresh, Enter
  <2> QED BY <1>0, <1>1, <1>2, <2>1, <2>2, <2>3 DEF Kept
<1>9. ASSUME NEW r \in Requests, NEW n \in Sids, Rotate(r, n) PROVE Kept
  <2>1. requests[r].sid \in Sids
    BY <1>9, StoredRows DEF Rotate, Asked
  <2>2. \E rows \in SUBSET Sids : deletions' = Overtaken(rows, FALSE)
    BY <1>0, <1>1, <1>9, <2>1 DEF Rotate
  <2>3. PICK step \in {"idle", "reused"}, z \in {NoSid, requests[r].sid} :
           requests' = [requests EXCEPT ![r] = Request(step, z, FALSE)]
    BY <1>9 DEF Rotate, Goto, Done, Idle
  <2>4. ~At(r, "deleting")
    BY <1>9 DEF Rotate
  <2> QED BY <1>2, <2>2, <2>3, <2>4 DEF Kept
<1> QED
  <2>1. ASSUME NEW r \in Requests,
               \/ \E right \in BOOLEAN : Login(r, right)
               \/ \E patched \in BOOLEAN : OtpAccepted(r, patched)
               \/ CountFailure(r) \/ Lock(r) \/ ClearFailures(r)
               \/ RevokeFamily(r) \/ LogoutAll(r) \/ UpdateByAdmin(r)
               \/ \E ends \in BOOLEAN : ChangeAccount(r, ends)
               \/ EndSessions(r)
               \/ StartDelete(r) \/ BeginDelete(r) \/ CommitDelete(r) \/ RetryDelete(r)
        PROVE  Kept \/ BeginDelete(r) \/ CommitDelete(r) \/ RetryDelete(r)
    BY <2>1, <1>5, <1>6, <1>7
  <2>2. ASSUME NEW r \in Requests, NEW s \in Sids,
               \/ StartSession(r, s) \/ Refresh(r, s) \/ Rotate(r, s) \/ Logout(r, s)
               \/ \E step \in {"logout", "logoutAll", "change", "delete"} : Enter(r, s, step)
        PROVE  Kept
    BY <2>2, <1>7, <1>8, <1>9
  <2> QED BY <1>3, <1>4, <2>1, <2>2 DEF Next

-----------------------------------------------------------------------------
(* What each of the changes leaves: which rows are stored, and what they say. *)

LEMMA AfterSignIn ==
    ASSUME TypeOK, NEW s \in Sids, SignsIn(s)
    PROVE  /\ sessions' \in [Sids -> SessionRows] /\ Stored' = Stored \cup {s}
           /\ sessions'[s] = NewSession(s)
           /\ \A z \in Sids \ {s} : sessions'[z] = sessions[z]
<1>1. sessions' \in [Sids -> SessionRows]
  BY NewRowTypes DEF SignsIn, TypeOK
<1>2. sessions'[s] = NewSession(s) /\ \A z \in Sids \ {s} : sessions'[z] = sessions[z]
  BY DEF SignsIn, TypeOK
<1>3. NewSession(s) # NoSession
  BY NoSidAssumption DEF NewSession, NoSession
<1> QED BY <1>1, <1>2, <1>3 DEF Stored

LEMMA AfterRotation ==
    ASSUME TypeOK, Asked, NEW r \in Requests, NEW n \in Sids, Rotates(r, n),
           NEW t, t = requests[r].sid
    PROVE  /\ t \in Stored /\ t # n /\ Unspent(t)
           /\ sessions' \in [Sids -> SessionRows] /\ Stored' = Stored \cup {n}
           /\ sessions'[n] = NewSession(sessions[t].family)
           /\ sessions'[t] = [sessions[t] EXCEPT !.next = n]
           /\ \A z \in Sids \ {t, n} : sessions'[z] = sessions[z]
<1>1. t \in Stored /\ t # n /\ Unspent(t)
  BY DEF Rotates, Unspent
<1>2. sessions[t] \in [family : Sids, next : Sids \cup {NoSid}, revoked : BOOLEAN] /\ t \in Sids
  BY <1>1, StoredRows
<1>3. sessions' = [sessions EXCEPT ![t].next = n, ![n] = NewSession(sessions[t].family)]
  BY DEF Rotates
<1>4. /\ sessions'[n] = NewSession(sessions[t].family)
      /\ sessions'[t] = [sessions[t] EXCEPT !.next = n]
      /\ \A z \in Sids \ {t, n} : sessions'[z] = sessions[z]
  BY <1>1, <1>2, <1>3 DEF TypeOK
<1>5. sessions' \in [Sids -> SessionRows]
  <2>1. NewSession(sessions[t].family) \in SessionRows /\ [sessions[t] EXCEPT !.next = n] \in SessionRows
    BY <1>1, <1>2, NewRowTypes
  <2>2. DOMAIN sessions' = Sids /\ sessions' = [z \in Sids |-> sessions'[z]]
    BY <1>3 DEF TypeOK
  <2>3. \A z \in Sids : sessions'[z] \in SessionRows
    BY <1>4, <2>1 DEF TypeOK
  <2> QED BY <2>2, <2>3
<1>6. NewSession(sessions[t].family) # NoSession /\ [sessions[t] EXCEPT !.next = n] # NoSession
  BY <1>2, NoSidAssumption DEF NewSession, NoSession
<1> QED BY <1>1, <1>2, <1>4, <1>5, <1>6 DEF Stored

LEMMA AfterEnd ==
    ASSUME TypeOK, NEW rows \in SUBSET Stored, Ends(rows)
    PROVE  /\ sessions' \in [Sids -> SessionRows] /\ Stored' = Stored
           /\ \A z \in rows : sessions'[z].revoked /\ sessions'[z].family = sessions[z].family
           /\ \A z \in Sids \ rows : sessions'[z] = sessions[z]
<1>1. sessions' \in [Sids -> SessionRows]
  BY NewRowTypes DEF Ends
<1>2. /\ \A z \in rows : sessions'[z] = [sessions[z] EXCEPT !.revoked = TRUE]
      /\ \A z \in Sids \ rows : sessions'[z] = sessions[z]
  BY StoredRows DEF Ends, Revoked
<1>3. ASSUME NEW z \in rows
      PROVE  /\ sessions'[z] # NoSession /\ sessions[z] # NoSession
             /\ sessions'[z].revoked /\ sessions'[z].family = sessions[z].family
  <2>1. sessions[z] \in [family : Sids, next : Sids \cup {NoSid}, revoked : BOOLEAN]
    BY StoredRows
  <2>2. sessions'[z] = [sessions[z] EXCEPT !.revoked = TRUE]
    BY <1>2
  <2>3. sessions'[z].revoked /\ sessions'[z].family = sessions[z].family
    BY <2>1, <2>2
  <2>4. sessions[z].family # NoSid /\ NoSession.family = NoSid
    BY <2>1, NoSidAssumption DEF NoSession
  <2> QED BY <2>3, <2>4
<1>4. \A z \in Sids : sessions'[z] = NoSession <=> sessions[z] = NoSession
  BY <1>2, <1>3
<1> QED BY <1>1, <1>2, <1>3, <1>4 DEF Stored

\* Rows stay, and keep their family.
Stay ==
    /\ sessions' \in [Sids -> SessionRows]
    /\ Stored \subseteq Stored'
    /\ \A s \in Stored : sessions'[s].family = sessions[s].family

LEMMA RowsStay == Shape /\ [Next]_vars => Stay
<1> SUFFICES ASSUME TypeOK, Asked, Reads, [Next]_vars PROVE Stay
  BY DEF Shape
<1>0. /\ Stored \subseteq Sids
      /\ \A s \in Stored : sessions[s] \in [family : Sids, next : Sids \cup {NoSid}, revoked : BOOLEAN]
  BY StoredRows
<1>1. CASE sessions' = sessions
  BY <1>0, <1>1 DEF TypeOK, Stored, Stay
<1>2. ASSUME NEW s \in Sids, SignsIn(s) PROVE Stay
  BY <1>0, <1>2, AfterSignIn DEF SignsIn, Stay
<1>3. ASSUME NEW r \in Requests, NEW n \in Sids, Rotates(r, n) PROVE Stay
  <2> DEFINE t == requests[r].sid
  <2>1. /\ t \in Stored /\ t # n
        /\ sessions' \in [Sids -> SessionRows] /\ Stored' = Stored \cup {n}
        /\ sessions'[t] = [sessions[t] EXCEPT !.next = n]
        /\ \A z \in Sids \ {t, n} : sessions'[z] = sessions[z]
    BY <1>3, AfterRotation
  <2>2. sessions'[t].family = sessions[t].family
    BY <1>0, <2>1
  <2>3. n \notin Stored
    BY <1>3 DEF Rotates
  <2> QED BY <1>0, <2>1, <2>2, <2>3 DEF Stay
<1>4. ASSUME NEW rows \in SUBSET Stored, Ends(rows) PROVE Stay
  BY <1>0, <1>4, AfterEnd DEF Stay
<1> QED BY <1>1, <1>2, <1>3, <1>4, SessionSteps

\* The transactions that are overtaken keep what they found and what befell them.
LEMMA AfterOvertaken ==
    ASSUME TypeOK, NEW rows \in SUBSET Sids, NEW wrote \in BOOLEAN
    PROVE  /\ Overtaken(rows, wrote) \in [Requests -> Deletions]
           /\ \A q \in Requests :
                 /\ Overtaken(rows, wrote)[q].found = deletions[q].found
                 /\ deletions[q].conflict => Overtaken(rows, wrote)[q].conflict
                 /\ deletions[q].found \cap rows # {} => Overtaken(rows, wrote)[q].conflict
                 /\ ~At(q, "deleting") /\ deletions[q] = NoDeletion => Overtaken(rows, wrote)[q] = NoDeletion
<1>1. ASSUME NEW q \in Requests
      PROVE  /\ Overtaken(rows, wrote)[q] \in Deletions
             /\ Overtaken(rows, wrote)[q].found = deletions[q].found
             /\ deletions[q].conflict => Overtaken(rows, wrote)[q].conflict
             /\ deletions[q].found \cap rows # {} => Overtaken(rows, wrote)[q].conflict
             /\ ~At(q, "deleting") /\ deletions[q] = NoDeletion => Overtaken(rows, wrote)[q] = NoDeletion
  <2> DEFINE c == \/ deletions[q].conflict
                  \/ deletions[q].found \cap rows # {}
                  \/ wrote /\ At(q, "deleting")
  <2>1. deletions[q] \in [found : SUBSET Sids, conflict : BOOLEAN]
    BY DEF TypeOK, Deletions
  <2>2. c \in BOOLEAN
    OBVIOUS
  <2>3. Overtaken(rows, wrote)[q] = [deletions[q] EXCEPT !.conflict = c]
    BY DEF Overtaken
  <2>4. ~At(q, "deleting") /\ deletions[q] = NoDeletion => c = FALSE
    BY DEF NoDeletion
  <2>5. /\ deletions[q].conflict => c = TRUE
        /\ deletions[q].found \cap rows # {} => c = TRUE
    BY <2>1
  <2> HIDE DEF c
  <2> QED BY <2>1, <2>2, <2>3, <2>4, <2>5 DEF Deletions, NoDeletion
<1>2. Overtaken(rows, wrote) = [q \in Requests |-> Overtaken(rows, wrote)[q]]
  BY DEF Overtaken
<1> QED BY <1>1, <1>2

LEMMA ReadsStep ==
    ASSUME Shape, [Next]_vars
    PROVE  deletions' \in [Requests -> Deletions] /\ Reads'
<1>0. TypeOK /\ Asked /\ Reads /\ Stay /\ Stored \subseteq Sids
  BY RowsStay, StoredRows DEF Shape
<1>1. \A q \in Requests : deletions[q] \in [found : SUBSET Sids, conflict : BOOLEAN]
  BY <1>0 DEF TypeOK, Deletions
<1>2. NoDeletion \in Deletions /\ NoDeletion.found = {}
  BY DEF NoDeletion, Deletions
<1>3. CASE Kept
  BY <1>0, <1>3, AfterOvertaken DEF Kept, Reads, Stay
<1>4. ASSUME NEW r \in Requests, BeginDelete(r) PROVE deletions' \in [Requests -> Deletions] /\ Reads'
  <2> DEFINE unended == {z \in Stored : ~sessions[z].revoked}
  <2>1. unended \subseteq Stored
    OBVIOUS
  <2>2. deletions' = [deletions EXCEPT ![r].found = unended]
    BY <1>4 DEF BeginDelete
  <2> HIDE DEF unended
  <2>3. /\ deletions'[r].found = unended /\ deletions' \in [Requests -> Deletions]
        /\ \A q \in Requests \ {r} : deletions'[q] = deletions[q]
    BY <1>0, <1>1, <2>1, <2>2 DEF TypeOK, Deletions
  <2>4. At(r, "deleting")' /\ \A q \in Requests \ {r} : requests'[q] = requests[q]
    BY <1>0, <1>4 DEF BeginDelete, Goto, Request, At, TypeOK
  <2> QED BY <1>0, <2>1, <2>3, <2>4 DEF Reads, Stay, At
<1>5. ASSUME NEW r \in Requests, CommitDelete(r) PROVE deletions' \in [Requests -> Deletions] /\ Reads'
  <2> DEFINE o == Overtaken(deletions[r].found, account.exists)
  <2>1. /\ o \in [Requests -> Deletions]
        /\ \A q \in Requests :
              /\ o[q].found = deletions[q].found
              /\ ~At(q, "deleting") /\ deletions[q] = NoDeletion => o[q] = NoDeletion
    BY <1>0, <1>1, AfterOvertaken DEF TypeOK, Accounts
  <2>2. deletions' = [o EXCEPT ![r] = NoDeletion]
    BY <1>5 DEF CommitDelete
  <2>3. \A q \in Requests \ {r} : requests'[q] = requests[q]
    BY <1>0, <1>5 DEF CommitDelete, Done, TypeOK
  <2> HIDE DEF o
  <2>4. deletions' \in [Requests -> Deletions] /\ deletions'[r] = NoDeletion
    BY <1>2, <2>1, <2>2
  <2>5. \A q \in Requests \ {r} : deletions'[q] = o[q]
    BY <2>1, <2>2
  <2>6. ASSUME NEW q \in Requests \ {r}
        PROVE  /\ deletions'[q].found \subseteq Stored'
               /\ ~At(q, "deleting")' => deletions'[q] = NoDeletion
    <3>1. deletions'[q] = o[q] /\ requests'[q] = requests[q]
      BY <2>3, <2>5
    <3> QED BY <1>0, <2>1, <3>1 DEF Reads, Stay, At
  <2> QED BY <1>2, <2>4, <2>6 DEF Reads
<1>6. ASSUME NEW r \in Requests, RetryDelete(r) PROVE deletions' \in [Requests -> Deletions] /\ Reads'
  <2>1. deletions' = [deletions EXCEPT ![r] = NoDeletion]
    BY <1>6 DEF RetryDelete
  <2>2. \A q \in Requests \ {r} : requests'[q] = requests[q]
    BY <1>0, <1>6 DEF RetryDelete, Goto, TypeOK
  <2> QED BY <1>0, <1>2, <2>1, <2>2 DEF Reads, Stay, At, TypeOK
<1> QED BY <1>0, <1>3, <1>4, <1>5, <1>6, DeletionSteps

LEMMA ShapeStep == Shape /\ [Next]_vars => Shape'
<1> SUFFICES ASSUME Shape, [Next]_vars PROVE Shape'
  OBVIOUS
<1>1. TypeOK'
  BY AccountSteps, RowsStay, RequestSteps, ReadsStep DEF Shape, Stay, Leads, TypeOK
<1>4. Reads'
  BY ReadsStep
<1>2. Asked'
  BY RowsStay, RequestSteps DEF Shape, Stay, Leads, Asked
<1>3. Roots'
  <2>0. /\ Stored \subseteq Sids
        /\ \A s \in Stored : sessions[s] \in [family : Sids, next : Sids \cup {NoSid}, revoked : BOOLEAN]
    BY StoredRows DEF Shape
  <2>1. CASE sessions' = sessions
    BY <2>1 DEF Shape, Roots, Stored
  <2>2. ASSUME NEW s \in Sids, SignsIn(s) PROVE Roots'
    <3>1. s \notin Stored /\ sessions'[s].family = s
      BY <2>2, AfterSignIn DEF Shape, SignsIn, NewSession
    <3> QED BY <2>0, <2>2, <3>1, AfterSignIn DEF Shape, Roots
  <2>3. ASSUME NEW r \in Requests, NEW n \in Sids, Rotates(r, n) PROVE Roots'
    <3> PICK t : t = requests[r].sid
      OBVIOUS
    <3>0. TypeOK /\ Asked
      BY DEF Shape
    <3>1. /\ t \in Stored /\ t # n /\ Unspent(t) /\ Stored' = Stored \cup {n}
          /\ sessions'[n] = NewSession(sessions[t].family)
          /\ sessions'[t] = [sessions[t] EXCEPT !.next = n]
          /\ \A z \in Sids \ {t, n} : sessions'[z] = sessions[z]
      BY <2>3, <3>0, AfterRotation
    <3>2. sessions'[n].family = sessions[t].family
      BY <3>1 DEF NewSession
    <3>3. \A s \in Stored : sessions'[s].family = sessions[s].family
      BY RowsStay DEF Stay
    <3> QED BY <3>1, <3>2, <3>3 DEF Shape, Roots
  <2>4. ASSUME NEW rows \in SUBSET Stored, Ends(rows) PROVE Roots'
    BY <2>0, <2>4, AfterEnd, RowsStay DEF Shape, Roots, Stay
  <2> QED BY <2>1, <2>2, <2>3, <2>4, SessionSteps DEF Shape
<1> QED BY <1>1, <1>2, <1>3, <1>4 DEF Shape

-----------------------------------------------------------------------------
(* The guarantees. *)

\* A token that is good after a step was good before, but for the one that
\* the step made: of a new sign-in, or in the place of a good one it spends.
Good ==
    \/ \A z \in Sids : Unspent(z)' => Unspent(z)
    \/ \E s \in Sids : SignsIn(s) /\ \A z \in Sids \ {s} : Unspent(z)' => Unspent(z)
    \/ \E r \in Requests, n \in Sids, t \in Stored :
          /\ Rotates(r, n) /\ t = requests[r].sid /\ ~Unspent(t)'
          /\ sessions'[n].family = sessions[t].family
          /\ \A z \in Sids \ {n} : Unspent(z)' => Unspent(z)

LEMMA GoodTokens == Shape /\ [Next]_vars => Good
<1> SUFFICES ASSUME TypeOK, Asked, Reads, [Next]_vars PROVE Good
  BY DEF Shape
<1>0. /\ Stored \subseteq Sids
      /\ \A s \in Stored : sessions[s] \in [family : Sids, next : Sids \cup {NoSid}, revoked : BOOLEAN]
  BY StoredRows
<1>1. CASE sessions' = sessions
  BY <1>1 DEF Good, Unspent, Stored
<1>2. ASSUME NEW s \in Sids, SignsIn(s) PROVE Good
  <2>1. \A z \in Sids \ {s} : Unspent(z)' => Unspent(z)
    BY <1>2, AfterSignIn DEF Unspent
  <2> QED BY <1>2, <2>1 DEF Good
<1>3. ASSUME NEW r \in Requests, NEW n \in Sids, Rotates(r, n) PROVE Good
  <2> PICK t : t = requests[r].sid
    OBVIOUS
  <2>1. /\ t \in Stored /\ t # n /\ Unspent(t) /\ Stored' = Stored \cup {n}
        /\ sessions'[n] = NewSession(sessions[t].family)
        /\ sessions'[t] = [sessions[t] EXCEPT !.next = n]
        /\ \A z \in Sids \ {t, n} : sessions'[z] = sessions[z]
    BY <1>3, AfterRotation
  <2>2. sessions'[t].next = n /\ n # NoSid
    BY <1>0, <2>1, NoSidAssumption
  <2>3. ~Unspent(t)'
    BY <2>2 DEF Unspent
  <2>4. sessions'[n].family = sessions[t].family
    BY <2>1 DEF NewSession
  <2>5. \A z \in Sids \ {n} : Unspent(z)' => Unspent(z)
    BY <2>1 DEF Unspent
  <2> QED BY <1>3, <2>1, <2>3, <2>4, <2>5 DEF Good
<1>4. ASSUME NEW rows \in SUBSET Stored, Ends(rows) PROVE Good
  <2>1. \A z \in rows : ~Unspent(z)'
    BY <1>0, <1>4, AfterEnd DEF Unspent
  <2>2. \A z \in Sids \ rows : Unspent(z)' => Unspent(z)
    BY <1>4, AfterEnd DEF Unspent
  <2> QED BY <2>1, <2>2 DEF Good
<1> QED BY <1>1, <1>2, <1>3, <1>4, SessionSteps

LEMMA OneUnspentStep == Inv /\ [Next]_vars => OneUnspentPerFamily'
<1> SUFFICES ASSUME Inv, [Next]_vars,
                    NEW a \in Sids, NEW b \in Sids, Unspent(a)', Unspent(b)',
                    sessions'[a].family = sessions'[b].family
             PROVE  a = b
  BY DEF OneUnspentPerFamily
<1>0. Shape /\ TypeOK /\ Asked /\ Roots /\ OneUnspentPerFamily
  BY DEF Inv, Shape
<1>1. Stay /\ Good
  BY <1>0, RowsStay, GoodTokens
<1>2. \A z \in Sids : Unspent(z) => z \in Stored /\ sessions'[z].family = sessions[z].family
  BY <1>1 DEF Stay, Unspent
<1>3. CASE \A z \in Sids : Unspent(z)' => Unspent(z)
  BY <1>0, <1>2, <1>3 DEF OneUnspentPerFamily
<1>4. ASSUME NEW s \in Sids, SignsIn(s), \A z \in Sids \ {s} : Unspent(z)' => Unspent(z)
      PROVE  a = b
  <2>1. sessions'[s].family = s /\ s \notin Stored
    BY <1>0, <1>4, AfterSignIn DEF SignsIn, NewSession
  <2>2. \A z \in Sids \ {s} : Unspent(z)' => sessions'[z].family \in Stored
    BY <1>0, <1>2, <1>4 DEF Roots
  <2>3. CASE a # s /\ b # s
    BY <1>0, <1>2, <1>4, <2>3 DEF OneUnspentPerFamily
  <2> QED BY <2>1, <2>2, <2>3
<1>5. ASSUME NEW r \in Requests, NEW n \in Sids, NEW t \in Stored,
             Rotates(r, n), t = requests[r].sid, ~Unspent(t)',
             sessions'[n].family = sessions[t].family,
             \A z \in Sids \ {n} : Unspent(z)' => Unspent(z)
      PROVE  a = b
  <2>1. Unspent(t) /\ t \in Sids
    BY <1>5 DEF Rotates, Stored
  <2>2. \A z \in Sids \ {n} : Unspent(z)' => z # t /\ sessions'[z].family # sessions[t].family
    BY <1>0, <1>2, <1>5, <2>1 DEF OneUnspentPerFamily
  <2>3. CASE a # n /\ b # n
    BY <1>0, <1>2, <1>5, <2>3 DEF OneUnspentPerFamily
  <2> QED BY <1>5, <2>2, <2>3
<1> QED BY <1>1, <1>3, <1>4, <1>5 DEF Good

\* A deletion begins with every good token in what it found; a rotation of one
\* of them is a write into what it found, and a sign-in is of none of them.
LEMMA MissedStep == Inv /\ [Next]_vars => NothingMissed'
<1> SUFFICES ASSUME Inv, [Next]_vars, NEW r \in Requests, ~deletions'[r].conflict,
                    NEW s \in deletions'[r].found, NEW z \in Sids,
                    Unspent(z)', sessions'[z].family = sessions'[s].family
             PROVE  z \in deletions'[r].found
  BY DEF NothingMissed
<1>0. Shape /\ TypeOK /\ Asked /\ Reads /\ Roots /\ NothingMissed
  BY DEF Inv, Shape
<1>1. Stay /\ Good /\ Stored \subseteq Sids
  BY <1>0, RowsStay, GoodTokens, StoredRows
\* A transaction that goes on.
<1>2. ASSUME deletions'[r].found = deletions[r].found, ~deletions[r].conflict
      PROVE  z \in deletions'[r].found
  <2>1. s \in Stored /\ sessions[s].family \in Stored /\ sessions'[z].family = sessions[s].family
    BY <1>0, <1>1, <1>2 DEF Reads, Roots, Stay
  <2>2. CASE Unspent(z)
    <3>1. sessions'[z].family = sessions[z].family
      BY <1>1, <2>2 DEF Stay, Unspent
    <3> QED BY <1>0, <1>2, <2>1, <2>2, <3>1 DEF NothingMissed
  <2>3. ASSUME NEW w \in Sids, SignsIn(w), z = w PROVE FALSE
    BY <1>0, <2>1, <2>3, AfterSignIn DEF SignsIn, NewSession
  <2>4. ASSUME NEW q \in Requests, NEW n \in Sids, NEW t \in Stored,
               Rotates(q, n), t = requests[q].sid, sessions'[n].family = sessions[t].family, z = n
        PROVE  FALSE
    <3>1. Unspent(t) /\ t \in Sids /\ sessions[t].family = sessions[s].family
      BY <1>1, <2>1, <2>4 DEF Rotates
    <3>2. t \in deletions[r].found
      BY <1>0, <1>2, <3>1 DEF NothingMissed
    <3>3. deletions' = Overtaken({t}, FALSE) /\ deletions[r].found \cap {t} # {}
      BY <2>4, <3>2 DEF Rotates
    <3> QED BY <1>0, <3>1, <3>3, AfterOvertaken
  <2> QED BY <1>1, <2>2, <2>3, <2>4 DEF Good
<1>3. CASE Kept
  BY <1>0, <1>2, <1>3, AfterOvertaken DEF Kept
<1>4. ASSUME NEW q \in Requests, BeginDelete(q) PROVE z \in deletions'[r].found
  <2> DEFINE unended == {x \in Stored : ~sessions[x].revoked}
  <2>1. deletions' = [deletions EXCEPT ![q].found = unended] /\ sessions' = sessions
    BY <1>4 DEF BeginDelete
  <2>2. CASE q = r
    <3>1. z \in unended
      BY <2>1 DEF Unspent, Stored
    <3>2. deletions'[r].found = unended
      BY <1>0, <2>1, <2>2 DEF TypeOK, Deletions
    <3> QED BY <3>1, <3>2
  <2>3. CASE q # r
    BY <1>0, <1>2, <2>1, <2>3 DEF TypeOK
  <2> QED BY <2>2, <2>3
<1>5. ASSUME NEW q \in Requests, CommitDelete(q) \/ RetryDelete(q) PROVE z \in deletions'[r].found
  <2>1. CASE q = r
    <3>1. deletions'[r] = NoDeletion
      BY <1>0, <1>5, <2>1 DEF CommitDelete, RetryDelete, TypeOK, Overtaken
    <3> QED BY <3>1 DEF NoDeletion
  <2>2. CASE q # r /\ RetryDelete(q)
    BY <1>0, <1>2, <2>2 DEF RetryDelete, TypeOK
  <2>3. CASE q # r /\ CommitDelete(q)
    <3>1. deletions[q].found \in SUBSET Sids /\ account.exists \in BOOLEAN
      BY <1>0 DEF TypeOK, Deletions, Accounts
    <3>2. deletions'[r] = Overtaken(deletions[q].found, account.exists)[r]
      BY <2>3 DEF CommitDelete, Overtaken
    <3> QED BY <1>0, <1>2, <3>1, <3>2, AfterOvertaken
  <2> QED BY <1>5, <2>1, <2>2, <2>3
<1> QED BY <1>0, <1>3, <1>4, <1>5, DeletionSteps

\* Nothing of what a deletion found was written when it commits, so it ends all
\* the good tokens of the sign-ins it found.
LEMMA CommitEnds ==
    Inv /\ [Next]_vars =>
        \A r \in Requests, s \in Sids :
            At(r, "deleting") /\ requests'[r] = Idle /\ s \in deletions[r].found
            => Dead(sessions[s].family)'
<1> SUFFICES ASSUME Inv, [Next]_vars, NEW r \in Requests, NEW s \in deletions[r].found,
                    At(r, "deleting"), requests'[r] = Idle
             PROVE  Dead(sessions[s].family)'
  OBVIOUS
<1>0. Shape /\ TypeOK /\ Asked /\ Reads /\ Roots /\ NothingMissed
  BY DEF Inv, Shape
<1>1. CommitDelete(r)
  <2>1. requests'[r].at = "idle" /\ requests[r].at = "deleting"
    BY DEF Idle, Request, At
  <2>2. ~Kept
    BY <2>1 DEF Kept, At
  <2>3. ASSUME NEW q \in Requests, BeginDelete(q) \/ RetryDelete(q) PROVE FALSE
    BY <1>0, <2>1, <2>3 DEF BeginDelete, RetryDelete, Goto, Request, At, TypeOK
  <2>4. ASSUME NEW q \in Requests, CommitDelete(q) PROVE q = r
    BY <1>0, <2>1, <2>4 DEF CommitDelete, Done, At, TypeOK
  <2> QED BY <1>0, <2>2, <2>3, <2>4, DeletionSteps
<1>2. deletions[r].found \in SUBSET Stored /\ Ends(deletions[r].found) /\ ~deletions[r].conflict
  BY <1>0, <1>1 DEF CommitDelete, Ends, Reads
<1>3. PICK f \in Stored : f = sessions[s].family
  BY <1>0, <1>2 DEF Roots
<1>4. s \in Stored /\ Stored' = Stored /\ Stored \subseteq Sids /\ sessions'[s].family = f
  BY <1>0, <1>2, <1>3, AfterEnd, StoredRows
<1>5. ASSUME NEW z \in Sids, Unspent(z)', sessions'[z].family = f PROVE FALSE
  <2>1. CASE z \in deletions[r].found
    BY <1>0, <1>2, <1>5, <2>1, AfterEnd DEF Unspent
  <2>2. CASE z \notin deletions[r].found
    <3>1. Unspent(z) /\ sessions[z].family = f
      BY <1>0, <1>2, <1>4, <1>5, <2>2, AfterEnd DEF Unspent
    <3> QED BY <1>0, <1>2, <1>3, <2>2, <3>1 DEF NothingMissed
  <2> QED BY <2>1, <2>2
<1>6. f \in Stored' /\ \A z \in Family(f)' : z \in Sids /\ sessions'[z].family = f
  BY <1>3, <1>4 DEF Family
<1> QED BY <1>4, <1>5, <1>6 DEF Dead

\* The request that counts the last failure stays until it has locked.
LEMMA LockStep == Inv /\ [Next]_vars => LimitLocks'
<1> SUFFICES ASSUME TypeOK, LimitLocks, [Next]_vars, account'.exists, account'.attempts >= MaxFailed
             PROVE  account'.lock # "none" \/ \E r \in Requests : requests'[r].at = "lock"
  BY DEF Inv, Shape, LimitLocks, At
<1> DEFINE Locks == account'.lock # "none" \/ \E r \in Requests : requests'[r].at = "lock"
<1> USE MaxFailedAssumption, AttemptBoundAssumption DEF Goto, Done, At
<1>0. account.attempts \in Nat /\ requests \in [Requests -> RequestRows]
  BY DEF TypeOK, Accounts
\* A step that neither ends a lock nor is taken by the request about to lock.
<1>1. ASSUME account' = account \/ (account'.lock = "passed"),
             \A q \in Requests : requests[q].at = "lock" => requests'[q].at = "lock"
      PROVE  Locks
  BY <1>1 DEF LimitLocks
<1>2. ASSUME NEW r \in Requests, ~At(r, "lock"), NEW x, requests' = [requests EXCEPT ![r] = x]
      PROVE  \A q \in Requests : requests[q].at = "lock" => requests'[q].at = "lock"
  BY <1>0, <1>2
<1> HIDE DEF Locks
<1>3. ASSUME UNCHANGED vars PROVE Locks
  <2>1. account' = account /\ requests' = requests
    BY <1>3 DEF vars
  <2> QED BY <1>1, <2>1
<1>4. ASSUME NEW r \in Requests, NEW right \in BOOLEAN, Login(r, right) PROVE Locks
  BY <1>1, <1>2, <1>4 DEF Login
<1>5. ASSUME NEW r \in Requests, CountFailure(r) PROVE Locks
  <2> DEFINE attempts == IF account.recent THEN account.attempts + 1 ELSE 1
  <2>1. CASE ~account.exists
    BY <1>1, <1>2, <1>5, <2>1 DEF CountFailure
  <2>2. CASE account.exists
    <3>1. account'.attempts = attempts
      BY <1>5, <2>2 DEF CountFailure, TypeOK, Accounts
    <3>2. requests' = [requests EXCEPT ![r] = Request("lock", NoSid, FALSE)]
      BY <1>5, <2>2, <3>1 DEF CountFailure
    <3> QED BY <1>0, <3>2 DEF Request, Locks
  <2> QED BY <2>1, <2>2
<1>6. ASSUME NEW r \in Requests, Lock(r) PROVE Locks
  <2>1. account.exists
    BY <1>6 DEF Lock
  <2> QED BY <1>6, <2>1 DEF Lock, Locks, TypeOK, Accounts
<1>7. ASSUME NEW r \in Requests, ClearFailures(r) PROVE Locks
  <2>1. account' = account
    BY <1>7 DEF ClearFailures, TypeOK, Accounts
  <2> QED BY <1>1, <1>2, <1>7, <2>1 DEF ClearFailures
<1>8. ASSUME NEW r \in Requests,
             \/ \E b \in BOOLEAN : OtpAccepted(r, b) \/ ChangeAccount(r, b)
             \/ RevokeFamily(r) \/ LogoutAll(r) \/ EndSessions(r) \/ UpdateByAdmin(r)
             \/ StartDelete(r) \/ BeginDelete(r) \/ RetryDelete(r)
             \/ \E s \in Sids : StartSession(r, s) \/ Logout(r, s)
      PROVE  Locks
  BY <1>1, <1>2, <1>8
     DEF OtpAccepted, ChangeAccount, RevokeFamily, LogoutAll, EndSessions, UpdateByAdmin,
         StartDelete, BeginDelete, RetryDelete, StartSession, Logout
<1>9. ASSUME NEW r \in Requests, CommitDelete(r) PROVE Locks
  <2>1. ~account'.exists
    BY <1>9 DEF CommitDelete, TypeOK, Accounts
  <2> QED BY <2>1
<1>10. ASSUME NEW r \in Requests, NEW s \in Sids, Refresh(r, s) \/ Rotate(r, s) PROVE Locks
  BY <1>1, <1>2, <1>10 DEF Refresh, Rotate
<1>11. ASSUME NEW r \in Requests, NEW s \in Sids,
              \E step \in {"logout", "logoutAll", "change", "delete"} : Enter(r, s, step)
       PROVE  Locks
  BY <1>1, <1>2, <1>11 DEF Enter
<1>12. ASSUME LockPasses PROVE Locks
  BY <1>1, <1>12 DEF LockPasses, TypeOK, Accounts
<1>13. ASSUME WindowPasses PROVE Locks
  BY <1>12, <1>13 DEF WindowPasses, TypeOK, Accounts, LimitLocks, Locks
<1> QED
  <2>2. ASSUME NEW r \in Requests,
               \/ \E right \in BOOLEAN : Login(r, right)
               \/ \E patched \in BOOLEAN : OtpAccepted(r, patched)
               \/ CountFailure(r) \/ Lock(r) \/ ClearFailures(r)
               \/ RevokeFamily(r) \/ LogoutAll(r) \/ UpdateByAdmin(r)
               \/ \E ends \in BOOLEAN : ChangeAccount(r, ends)
               \/ EndSessions(r)
               \/ StartDelete(r) \/ BeginDelete(r) \/ CommitDelete(r) \/ RetryDelete(r)
        PROVE  Locks
    BY <2>2, <1>4, <1>5, <1>6, <1>7, <1>8, <1>9
  <2>3. ASSUME NEW r \in Requests, NEW s \in Sids,
               \/ StartSession(r, s) \/ Refresh(r, s) \/ Rotate(r, s) \/ Logout(r, s)
               \/ \E step \in {"logout", "logoutAll", "change", "delete"} : Enter(r, s, step)
        PROVE  Locks
    BY <2>3, <1>8, <1>10, <1>11
  <2>1. Locks
    BY <1>3, <1>12, <1>13, <2>2, <2>3 DEF Next
  <2> QED BY <2>1 DEF Locks

-----------------------------------------------------------------------------
LEMMA InvStep == Inv /\ [Next]_vars => Inv'
BY ShapeStep, OneUnspentStep, MissedStep, LockStep DEF Inv

LEMMA Invariant == Spec => []Inv
<1>1. Init => Inv
  BY InitInv
<1>2. Inv /\ [Next]_vars => Inv'
  BY InvStep
<1> QED BY <1>1, <1>2, PTL DEF Spec

\* Rows, requests and the account are what their schemas say.
THEOREM TypeCorrect == Spec => []TypeOK
<1>1. Inv => TypeOK
  BY DEF Inv, Shape
<1> QED BY <1>1, Invariant, PTL

\* Of the sessions of one sign-in at most one has a good token, however many
\* requests rotate it at once.
THEOREM RotationIsExclusive == Spec => []OneUnspentPerFamily
<1>1. Inv => OneUnspentPerFamily
  BY DEF Inv
<1> QED BY <1>1, Invariant, PTL

\* A deletion that commits has ended every sign-in its snapshot held, though
\* their tokens were rotated while it ran; by EndedStaysEnded they stay ended.
THEOREM DeletionEndsSessions == Spec => DeletionEndsWhatItFound
<1>1. Inv /\ [Next]_vars =>
        [\A r \in Requests, s \in Sids :
            At(r, "deleting") /\ requests'[r] = Idle /\ s \in deletions[r].found
            => Dead(sessions[s].family)']_vars
  BY CommitEnds
<1> QED BY <1>1, Invariant, PTL DEF Spec, DeletionEndsWhatItFound

\* Reaching the limit of failures locks the account, or is about to.
THEOREM FailuresLock == Spec => []LimitLocks
<1>1. Inv => LimitLocks
  BY DEF Inv
<1> QED BY <1>1, Invariant, PTL

\* A step makes a good token only for a new sign-in, or for one that has a
\* good token already.
LEMMA DeadStep == Inv /\ [Next]_vars => \A f \in Sids : Dead(f) => Dead(f)'
<1> SUFFICES ASSUME Inv, [Next]_vars, NEW f \in Sids, Dead(f) PROVE Dead(f)'
  OBVIOUS
<1>0. Shape /\ TypeOK /\ Asked /\ Roots
  BY DEF Inv, Shape
<1>1. Stay /\ Good
  BY <1>0, RowsStay, GoodTokens
<1>2. Stored \subseteq Sids /\ f \in Stored /\ f \in Stored'
  BY <1>0, <1>1, StoredRows DEF Dead, Stay
<1>3. \A z \in Stored : sessions[z].family = f => ~Unspent(z)
  BY DEF Dead, Family
<1>4. SUFFICES ASSUME NEW z \in Sids, Unspent(z)', sessions'[z].family = f PROVE FALSE
  BY <1>2 DEF Dead, Family, Unspent, Stored
<1>5. ~Unspent(z)
  BY <1>1, <1>3, <1>4 DEF Stay, Unspent
<1>6. ASSUME NEW s \in Sids, SignsIn(s), z = s PROVE FALSE
  BY <1>0, <1>2, <1>4, <1>6, AfterSignIn DEF SignsIn, NewSession
<1>7. ASSUME NEW r \in Requests, NEW t \in Stored, NEW n \in Sids, Rotates(r, n), t = requests[r].sid,
             sessions'[n].family = sessions[t].family, z = n
      PROVE  FALSE
  BY <1>3, <1>4, <1>7 DEF Rotates
<1> QED BY <1>1, <1>5, <1>4, <1>6, <1>7 DEF Good

\* A sign-in that has ended stays ended.
THEOREM EndedStaysEnded == Spec => DeadStaysDead
<1>1. Inv /\ [Next]_vars => [\A f \in Sids : Dead(f) => Dead(f)']_vars
  BY DeadStep
<1> QED BY <1>1, Invariant, PTL DEF Spec, DeadStaysDead
=============================================================================

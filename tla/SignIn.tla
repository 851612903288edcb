------------------------------ MODULE SignIn ------------------------------
(***************************************************************************)
(* One account: signing in, the lock after wrong passwords, the sessions   *)
(* and the rotation of their refresh tokens, and everything that ends      *)
(* sessions.  Rows of other accounts share nothing with it.                *)
(*                                                                         *)
(* Requests run concurrently; each reads first and writes later, outside   *)
(* any transaction but two.  A rotation reads and writes the one row its   *)
(* update matches, so it is one step.  The deletion of the account ends    *)
(* the sessions that its snapshot holds, and starts again if another wrote *)
(* one of those rows, or the account, since: it is a step that takes the   *)
(* snapshot and one that commits.  A session made in between conflicts     *)
(* with nothing.                                                           *)
(*                                                                         *)
(* A request that is refused changes nothing and is not a step, whatever   *)
(* it is refused for: a session that expired, a sign-in method turned off, *)
(* a password that staff issued and that was not changed yet.  Tokens are  *)
(* what they name: an access or a refresh token is a session id.           *)
(*                                                                         *)
(* revokeFamily and revokeAllForUser are one step: they update the rows of *)
(* an index in order, a rotation inserts after the row it replaces, and    *)
(* the two conflict on that row.                                           *)
(***************************************************************************)
EXTENDS Integers, FiniteSets

CONSTANTS
    Requests,       \* requests being served
    Sids,           \* session ids; bounds the sign-ins and rotations
    NoSid,          \* no session
    MaxFailed,      \* auth.max_failed_attempts
    AttemptBound    \* bounds the wrong passwords of one window

ASSUME NoSidAssumption == NoSid \notin Sids
ASSUME MaxFailedAssumption == MaxFailed \in Nat \ {0}
ASSUME AttemptBoundAssumption == AttemptBound \in Nat

VARIABLES
    account,     \* the row of users
    sessions,    \* the rows of sessions
    requests,    \* what each request has read, and does next
    deletions    \* the open transaction of each request that deletes

vars == <<account, sessions, requests, deletions>>

-----------------------------------------------------------------------------
(* Rows. *)

\* `lock`: locked_until is not set, ahead, or passed.  `recent`: the last
\* failure is inside the window.
Accounts == [exists : BOOLEAN, attempts : 0..AttemptBound, recent : BOOLEAN,
             lock : {"none", "held", "passed"}]

NoSession == [family |-> NoSid, next |-> NoSid, revoked |-> FALSE]
SessionRows == {NoSession} \cup
               [family : Sids, next : Sids \cup {NoSid}, revoked : BOOLEAN]

Steps == {"idle", "wrong", "lock", "right", "start", "rotate", "reused", "logout",
          "logoutAll", "change", "end", "delete", "deleting"}

Request(step, s, failures) == [at |-> step, sid |-> s, failures |-> failures]
Idle == Request("idle", NoSid, FALSE)
RequestRows == [at : Steps, sid : Sids \cup {NoSid}, failures : BOOLEAN]

\* `found`: the rows its update finds in the snapshot.  `conflict`: another wrote
\* one of them, or the account, since the snapshot was taken.
Deletions == [found : SUBSET Sids, conflict : BOOLEAN]
NoDeletion == [found |-> {}, conflict |-> FALSE]

Stored == {s \in Sids : sessions[s] # NoSession}

\* The token can still be rotated.
Unspent(s) == s \in Stored /\ ~sessions[s].revoked /\ sessions[s].next = NoSid

\* findActive; resolveAuthUser, which lets the guard open the door: the account
\* still exists and the session of the token is active.
Active(s) == Unspent(s)
Resolves(s) == account.exists /\ Active(s)

Family(f) == {s \in Stored : sessions[s].family = f}
Dead(f) == f \in Stored /\ \A s \in Family(f) : ~Unspent(s)

Goto(r, step, s, failures) == requests' = [requests EXCEPT ![r] = Request(step, s, failures)]
Done(r) == requests' = [requests EXCEPT ![r] = Idle]
At(r, step) == requests[r].at = step

\* The open deletions once another has written the rows, and the account.
Overtaken(rows, wroteAccount) ==
    [q \in Requests |->
        [deletions[q] EXCEPT !.conflict = \/ @
                                          \/ deletions[q].found \cap rows # {}
                                          \/ wroteAccount /\ At(q, "deleting")]]

-----------------------------------------------------------------------------
(* Signing in with a password. *)

\* login reads the account and compares what it read with the password given.
Login(r, right) ==
    /\ At(r, "idle")
    /\ account.exists /\ account.lock # "held"
    /\ account.attempts < AttemptBound
    /\ Goto(r, IF right THEN "right" ELSE "wrong", NoSid, account.attempts # 0)
    /\ UNCHANGED <<account, sessions, deletions>>

\* (Mutant of CountFailure: locks one failure too late.)
CountFailureLate(r) ==
    LET attempts == IF account.recent THEN account.attempts + 1 ELSE 1
    IN /\ At(r, "wrong")
       /\ IF ~account.exists
          THEN Done(r) /\ UNCHANGED account
          ELSE /\ attempts <= AttemptBound
               /\ account' = [account EXCEPT !.attempts = attempts, !.recent = TRUE]
               /\ IF attempts > MaxFailed THEN Goto(r, "lock", NoSid, FALSE) ELSE Done(r)
       /\ deletions' = Overtaken({}, account.exists)
       /\ UNCHANGED sessions

\* registerFailure: one atomic increment; a failure outside the window
\* restarts the count.
CountFailure(r) ==
    LET attempts == IF account.recent THEN account.attempts + 1 ELSE 1
    IN /\ At(r, "wrong")
       /\ IF ~account.exists
          THEN Done(r) /\ UNCHANGED account
          ELSE /\ attempts <= AttemptBound
               /\ account' = [account EXCEPT !.attempts = attempts, !.recent = TRUE]
               /\ IF attempts >= MaxFailed THEN Goto(r, "lock", NoSid, FALSE) ELSE Done(r)
       /\ deletions' = Overtaken({}, account.exists)
       /\ UNCHANGED sessions

\* lockAccount
Lock(r) ==
    /\ At(r, "lock")
    /\ account' = IF account.exists THEN [account EXCEPT !.lock = "held"] ELSE account
    /\ Done(r)
    /\ deletions' = Overtaken({}, account.exists)
    /\ UNCHANGED sessions

\* registerSuccess: clears the failures if the account it READ had any.
ClearFailures(r) ==
    /\ At(r, "right")
    /\ account' = IF requests[r].failures /\ account.exists
                  THEN [account EXCEPT !.attempts = 0, !.recent = FALSE, !.lock = "none"]
                  ELSE account
    /\ Goto(r, "start", NoSid, FALSE)
    /\ deletions' = Overtaken({}, requests[r].failures /\ account.exists)
    /\ UNCHANGED sessions

\* verifyOtp, of a code accepted: the account is looked up, or created, and
\* given the name and the address that came along if they are new.
OtpAccepted(r, patched) ==
    /\ At(r, "idle")
    /\ account.exists
    /\ Goto(r, "start", NoSid, FALSE)
    /\ deletions' = Overtaken({}, patched)
    /\ UNCHANGED <<account, sessions>>

NewSession(f) == [family |-> f, next |-> NoSid, revoked |-> FALSE]

\* startSession: the account is not looked at again.
StartSession(r, s) ==
    /\ At(r, "start")
    /\ s \notin Stored
    /\ sessions' = [sessions EXCEPT ![s] = NewSession(s)]
    /\ Done(r)
    /\ UNCHANGED <<account, deletions>>

-----------------------------------------------------------------------------
(* Rotation. *)

\* refresh reads the session, then the account.
Refresh(r, s) ==
    /\ At(r, "idle")
    /\ s \in Stored
    /\ IF ~Unspent(s) THEN Goto(r, "reused", s, FALSE)
       ELSE account.exists /\ Goto(r, "rotate", s, FALSE)
    /\ UNCHANGED <<account, sessions, deletions>>

\* (Mutant of Rotate: markReplaced forgets that the row may be replaced.)
RotateReplaced(r, n) ==
    LET s == requests[r].sid
    IN /\ At(r, "rotate")
       /\ IF ~sessions[s].revoked
          THEN /\ n \notin Stored
               /\ sessions' = [sessions EXCEPT ![s].next = n,
                                               ![n] = NewSession(sessions[s].family)]
               /\ deletions' = Overtaken({s}, FALSE)
               /\ Done(r)
          ELSE Goto(r, "reused", s, FALSE) /\ UNCHANGED <<sessions, deletions>>
       /\ UNCHANGED account

\* (Mutant of Rotate: markReplaced forgets that the row may be revoked.)
RotateRevoked(r, n) ==
    LET s == requests[r].sid
    IN /\ At(r, "rotate")
       /\ IF sessions[s].next = NoSid
          THEN /\ n \notin Stored
               /\ sessions' = [sessions EXCEPT ![s].next = n,
                                               ![n] = NewSession(sessions[s].family)]
               /\ deletions' = Overtaken({s}, FALSE)
               /\ Done(r)
          ELSE Goto(r, "reused", s, FALSE) /\ UNCHANGED <<sessions, deletions>>
       /\ UNCHANGED account

\* markReplaced and createSession in one transaction; a token spent meanwhile
\* is reuse.
Rotate(r, n) ==
    LET s == requests[r].sid
    IN /\ At(r, "rotate")
       /\ IF Unspent(s)
          THEN /\ n \notin Stored
               /\ sessions' = [sessions EXCEPT ![s].next = n,
                                               ![n] = NewSession(sessions[s].family)]
               /\ deletions' = Overtaken({s}, FALSE)
               /\ Done(r)
          ELSE Goto(r, "reused", s, FALSE) /\ UNCHANGED <<sessions, deletions>>
       /\ UNCHANGED account

Revoked(rows) == [s \in Sids |-> IF s \in rows THEN [sessions[s] EXCEPT !.revoked = TRUE]
                                 ELSE sessions[s]]

\* The update ends the rows that are not ended yet.
Revoke(rows) ==
    /\ sessions' = Revoked(rows)
    /\ deletions' = Overtaken({s \in rows : ~sessions[s].revoked}, FALSE)

RevokeFamily(r) ==
    /\ At(r, "reused")
    /\ Revoke(Family(sessions[requests[r].sid].family))
    /\ Done(r)
    /\ UNCHANGED account

-----------------------------------------------------------------------------
(* Requests the guard lets in: the session was active when it looked. *)

\* logout, logout-all, a password change, the deletion of one's account.
Enter(r, s, step) ==
    /\ At(r, "idle")
    /\ Resolves(s)
    /\ step \in {"logout", "logoutAll", "change", "delete"}
    /\ Goto(r, step, s, FALSE)
    /\ UNCHANGED <<account, sessions, deletions>>

\* logout, and revokeSession of a session of one's own.
Logout(r, s) ==
    /\ At(r, "logout")
    /\ s \in Stored
    /\ Revoke({s})
    /\ Done(r)
    /\ UNCHANGED account

LogoutAll(r) ==
    /\ At(r, "logoutAll")
    /\ Revoke(Stored)
    /\ Done(r)
    /\ UNCHANGED account

\* updateByAdmin and removeOperator look the account up first.
UpdateByAdmin(r) ==
    /\ At(r, "idle")
    /\ account.exists
    /\ Goto(r, "change", NoSid, FALSE)
    /\ UNCHANGED <<account, sessions, deletions>>

\* The account is written.  `ends`: the change is one that ends sessions, of the
\* password, the login, the role or the phone, and not of a name.  An account
\* that is gone refuses it, but changePassword does not look at the answer.
ChangeAccount(r, ends) ==
    /\ At(r, "change")
    /\ IF ends THEN Goto(r, "end", requests[r].sid, FALSE) ELSE Done(r)
    /\ deletions' = Overtaken({}, account.exists)
    /\ UNCHANGED <<account, sessions>>

\* Then every session but the caller's is ended.
EndSessions(r) ==
    /\ At(r, "end")
    /\ Revoke(Stored \ {requests[r].sid})
    /\ Done(r)
    /\ UNCHANGED account

-----------------------------------------------------------------------------
(* The deletion of the account. *)

\* users.delete by staff looks the account up first.
StartDelete(r) ==
    /\ At(r, "idle")
    /\ account.exists
    /\ Goto(r, "delete", NoSid, FALSE)
    /\ UNCHANGED <<account, sessions, deletions>>

\* The transaction takes its snapshot, in which revokeAllSessions will find
\* what it ends.
BeginDelete(r) ==
    /\ At(r, "delete")
    /\ Goto(r, "deleting", NoSid, FALSE)
    /\ deletions' = [deletions EXCEPT ![r].found = {s \in Stored : ~sessions[s].revoked}]
    /\ UNCHANGED <<account, sessions>>

\* (Mutant of CommitDelete: ends the sessions it has read, whatever was written
\* since.)
DeleteOutdated(r) ==
    /\ At(r, "deleting")
    /\ account' = [account EXCEPT !.exists = FALSE]
    /\ sessions' = Revoked(deletions[r].found)
    /\ deletions' = [Overtaken(deletions[r].found, account.exists) EXCEPT ![r] = NoDeletion]
    /\ Done(r)

\* users.delete: the sessions found are ended and the account is removed.
CommitDelete(r) ==
    /\ At(r, "deleting")
    /\ ~deletions[r].conflict
    /\ account' = [account EXCEPT !.exists = FALSE]
    /\ sessions' = Revoked(deletions[r].found)
    /\ deletions' = [Overtaken(deletions[r].found, account.exists) EXCEPT ![r] = NoDeletion]
    /\ Done(r)

\* A write conflict: withTransaction runs all of it again.
RetryDelete(r) ==
    /\ At(r, "deleting")
    /\ deletions[r].conflict
    /\ deletions' = [deletions EXCEPT ![r] = NoDeletion]
    /\ Goto(r, "delete", NoSid, FALSE)
    /\ UNCHANGED <<account, sessions>>

-----------------------------------------------------------------------------
(* Time. *)

LockPasses ==
    /\ account.lock = "held"
    /\ account' = [account EXCEPT !.lock = "passed"]
    /\ UNCHANGED <<sessions, requests, deletions>>

\* The window is never shorter than a lock (a cross rule of the settings).
WindowPasses ==
    /\ account.recent
    /\ account' = [account EXCEPT !.recent = FALSE]
    /\ UNCHANGED <<sessions, requests, deletions>>

-----------------------------------------------------------------------------
Init ==
    /\ account = [exists |-> TRUE, attempts |-> 0, recent |-> FALSE, lock |-> "none"]
    /\ sessions = [s \in Sids |-> NoSession]
    /\ requests = [r \in Requests |-> Idle]
    /\ deletions = [r \in Requests |-> NoDeletion]

Next ==
    \/ \E r \in Requests :
           \/ \E right \in BOOLEAN : Login(r, right)
           \/ \E patched \in BOOLEAN : OtpAccepted(r, patched)
           \/ CountFailure(r) \/ Lock(r) \/ ClearFailures(r)
           \/ RevokeFamily(r) \/ LogoutAll(r) \/ UpdateByAdmin(r)
           \/ \E ends \in BOOLEAN : ChangeAccount(r, ends)
           \/ EndSessions(r)
           \/ StartDelete(r) \/ BeginDelete(r) \/ CommitDelete(r) \/ RetryDelete(r)
    \/ \E r \in Requests, s \in Sids :
           \/ StartSession(r, s) \/ Refresh(r, s) \/ Rotate(r, s) \/ Logout(r, s)
           \/ \E step \in {"logout", "logoutAll", "change", "delete"} : Enter(r, s, step)
    \/ LockPasses \/ WindowPasses

Spec == Init /\ [][Next]_vars

-----------------------------------------------------------------------------
TypeOK ==
    /\ account \in Accounts
    /\ sessions \in [Sids -> SessionRows]
    /\ requests \in [Requests -> RequestRows]
    /\ deletions \in [Requests -> Deletions]

\* However many requests present the same refresh token at once, one sign-in
\* has at most one session whose token is still good: the others are reuse.
OneUnspentPerFamily ==
    \A s, z \in Sids :
        Unspent(s) /\ Unspent(z) /\ sessions[s].family = sessions[z].family => s = z

\* A sign-in whose sessions have all been ended (reuse, logout, password
\* change, deletion) never has a usable session again, whatever rotation of
\* one of its tokens was on its way meanwhile.
DeadStaysDead == [][\A f \in Sids : Dead(f) => Dead(f)']_vars

\* A deletion that commits leaves no good token to a sign-in whose session its
\* snapshot held, though the token was rotated since: the rotation is a write
\* conflict, and the row it made is found by the next attempt.  A sign-in that
\* began after the snapshot is not in it.
DeletionEndsWhatItFound ==
    [][\A r \in Requests, s \in Sids :
          At(r, "deleting") /\ requests'[r] = Idle /\ s \in deletions[r].found
          => Dead(sessions[s].family)']_vars

\* Once the failures reach the limit the account has been locked, or the
\* request that counted the last of them is about to lock it.
LimitLocks ==
    account.exists /\ account.attempts >= MaxFailed
    => account.lock # "none" \/ \E r \in Requests : At(r, "lock")
=============================================================================

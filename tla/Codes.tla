------------------------------- MODULE Codes -------------------------------
(***************************************************************************)
(* One-time codes of one phone and one purpose: the throttle on asking for *)
(* one, issuing it in three writes, and checking a guess in four steps.    *)
(* Requests run concurrently.  (Sending it is in SmsBudget: a failure to   *)
(* send is only logged.)                                                   *)
(*                                                                         *)
(* Codes are numbered in the order they are created.  A request that is    *)
(* refused because the code expired is not a step.  An audience that signs *)
(* in by password has its request ignored after the throttle.              *)
(***************************************************************************)
EXTENDS Integers, FiniteSets

CONSTANTS
    Requests,       \* requests about codes
    CodeBound,      \* bounds the codes created
    MaxAttempts,    \* otp.max_attempts
    Cooldown,       \* otp.resend_cooldown_seconds, in ticks
    DailyCodes      \* otp.daily_limit_per_phone

ASSUME CodesAssumption ==
    /\ CodeBound \in Nat /\ MaxAttempts \in Nat \ {0}
    /\ Cooldown \in Nat \ {0} /\ DailyCodes \in Nat \ {0}
ASSUME RequestsAssumption == IsFiniteSet(Requests)

VARIABLES
    storage,     \* the throttler storage configured: "mongo" or "redis"
    cooldown,    \* its record of the phone's cooldown
    daily,       \* hits of the phone's daily record
    quiet,       \* ticks since a request was last let through
    codes,       \* the rows of verification_codes
    requests,    \* what each request has read, and does next
    guesses,     \* comparisons made with each code
    accepted     \* times each code was accepted

codeVars == <<codes, guesses, accepted>>
throttleVars == <<storage, cooldown, daily, quiet>>
vars == <<codeVars, throttleVars, requests>>

Ids == 1..CodeBound
NoCode == [row |-> "none", attempts |-> 0]
CodeRows == [row : {"none", "gone"}, attempts : {0}] \cup
            [row : {"pending", "used"}, attempts : Nat]
Pending == {c \in Ids : codes[c].row = "pending"}

Idle == [at |-> "idle", code |-> 0, attempts |-> 0]
RequestRows == [at : {"idle", "read", "clear", "create", "attempt", "compare", "consume"},
                code : 0..CodeBound, attempts : Nat]

At(r, step) == requests[r].at = step
Goto(r, step, c, n) ==
    requests' = [requests EXCEPT ![r] = [at |-> step, code |-> c, attempts |-> n]]
Done(r) == requests' = [requests EXCEPT ![r] = Idle]

-----------------------------------------------------------------------------
(* The throttle: hits of a window of Cooldown ticks, and a block as long.  *)

\* The window and the block still to run, in ticks.
Record == [hits : Nat, window : 0..Cooldown, block : 0..Cooldown]

\* MongoThrottlerStorage: one pipeline; a hit past the window starts another
\* and drops the block, which may still run.
MongoHit(record, limit) ==
    LET alive == record.window > 0
        hits  == IF alive THEN record.hits + 1 ELSE 1
        block == IF alive THEN record.block ELSE 0
    IN [hits |-> hits, window |-> IF alive THEN record.window ELSE Cooldown,
        block |-> IF hits > limit /\ block = 0 THEN Cooldown ELSE block]

\* RedisThrottlerStorage: the block has a key, and a life, of its own.
RedisHit(record, limit) ==
    LET alive == record.window > 0
        hits  == IF alive THEN record.hits + 1 ELSE 1
    IN [hits |-> hits, window |-> IF alive THEN record.window ELSE Cooldown,
        block |-> IF hits > limit /\ record.block = 0 THEN Cooldown ELSE record.block]

Hit(record, limit) ==
    IF storage = "mongo" THEN MongoHit(record, limit) ELSE RedisHit(record, limit)

\* Hits past the limit are alike, so the record stops counting at 2.
Counted(record) == [record EXCEPT !.hits = IF @ > 2 THEN 2 ELSE @]

\* assertCanSend: the cooldown counts the request even when the day refuses it.
CanSend(r, ignored) ==
    LET record == Hit(cooldown, 1)
    IN /\ At(r, "idle")
       /\ cooldown' = Counted(record)
       /\ IF record.block > 0
          THEN UNCHANGED <<daily, quiet, requests>>
          ELSE /\ daily' = IF daily <= DailyCodes THEN daily + 1 ELSE daily
               /\ quiet' = 0
               /\ IF ignored \/ daily' > DailyCodes THEN UNCHANGED requests
                  ELSE Goto(r, "read", 0, 0)
       /\ UNCHANGED <<codeVars, storage>>

Tick ==
    /\ cooldown' = [cooldown EXCEPT !.window = IF @ > 0 THEN @ - 1 ELSE 0,
                                    !.block = IF @ > 0 THEN @ - 1 ELSE 0]
    /\ quiet' = IF quiet < Cooldown THEN quiet + 1 ELSE quiet
    /\ cooldown.window > 0 \/ cooldown.block > 0
    /\ UNCHANGED <<codeVars, storage, daily, requests>>

DayPasses ==
    /\ daily > 0
    /\ daily' = 0
    /\ UNCHANGED <<codeVars, storage, cooldown, quiet, requests>>

-----------------------------------------------------------------------------
(* Issuing a code. *)

\* The sum of the attempts of the codes in S.
AttemptsOf(S) == Cardinality(UNION {{c} \X (1..codes[c].attempts) : c \in S})

ReadPending(r) ==
    /\ At(r, "read")
    /\ Goto(r, "clear", 0, AttemptsOf(Pending))
    /\ UNCHANGED <<throttleVars, codeVars>>

Gone(S) == [c \in Ids |-> IF c \in S THEN [row |-> "gone", attempts |-> 0] ELSE codes[c]]

ClearPending(r) ==
    /\ At(r, "clear")
    /\ codes' = Gone(Pending)
    /\ Goto(r, "create", 0, requests[r].attempts)
    /\ UNCHANGED <<throttleVars, guesses, accepted>>

CreateCode(r, c) ==
    /\ At(r, "create")
    /\ c = Cardinality({d \in Ids : codes[d].row # "none"}) + 1 /\ c \in Ids
    /\ codes' = [codes EXCEPT ![c] = [row |-> "pending", attempts |-> requests[r].attempts]]
    /\ Done(r)
    /\ UNCHANGED <<throttleVars, guesses, accepted>>

-----------------------------------------------------------------------------
(* Checking a guess. *)

\* findLatestActive
Find(r) ==
    /\ At(r, "idle")
    /\ \E c \in Pending :
           /\ \A d \in Pending : d <= c
           /\ Goto(r, "attempt", c, 0)
    /\ UNCHANGED <<throttleVars, codeVars>>

\* (Mutant of Attempt: the limit is compared with the attempts before this.)
AttemptLate(r) ==
    LET c == requests[r].code
    IN /\ At(r, "attempt")
       /\ IF codes[c].row = "gone" \/ codes[c].attempts > MaxAttempts
          THEN Done(r) /\ UNCHANGED codes
          ELSE /\ codes' = [codes EXCEPT ![c].attempts = @ + 1]
               /\ IF codes[c].attempts > MaxAttempts THEN Done(r) ELSE Goto(r, "compare", c, 0)
       /\ UNCHANGED <<throttleVars, guesses, accepted>>

\* (Mutant of Attempt: the update makes the row it does not find.)
AttemptUpserting(r) ==
    LET c == requests[r].code
    IN /\ At(r, "attempt")
       /\ IF codes[c].attempts > MaxAttempts
          THEN Done(r) /\ UNCHANGED codes
          ELSE /\ codes' = [codes EXCEPT ![c].attempts = @ + 1]
               /\ IF codes[c].attempts + 1 > MaxAttempts THEN Done(r)
                  ELSE Goto(r, "compare", c, 0)
       /\ UNCHANGED <<throttleVars, guesses, accepted>>

\* registerAttempt counts before the comparison, on a row in any state.  (Past
\* the limit the count changes nothing and is not raised.)
Attempt(r) ==
    LET c == requests[r].code
    IN /\ At(r, "attempt")
       /\ IF codes[c].row = "gone" \/ codes[c].attempts > MaxAttempts
          THEN Done(r) /\ UNCHANGED codes
          ELSE /\ codes' = [codes EXCEPT ![c].attempts = @ + 1]
               /\ IF codes[c].attempts + 1 > MaxAttempts THEN Done(r)
                  ELSE Goto(r, "compare", c, 0)
       /\ UNCHANGED <<throttleVars, guesses, accepted>>

Compare(r, right) ==
    LET c == requests[r].code
    IN /\ At(r, "compare")
       /\ guesses' = [guesses EXCEPT ![c] = @ + 1]
       /\ IF right THEN Goto(r, "consume", c, 0) ELSE Done(r)
       /\ UNCHANGED <<throttleVars, codes, accepted>>

\* (Mutant of Consume: the row is marked used whatever it is.)
ConsumeAny(r) ==
    LET c == requests[r].code
    IN /\ At(r, "consume")
       /\ codes' = [codes EXCEPT ![c].row = "used"]
       /\ accepted' = [accepted EXCEPT ![c] = @ + 1]
       /\ Done(r)
       /\ UNCHANGED <<throttleVars, guesses>>

\* consume: only a row that is there and not used makes the guess good.
Consume(r) ==
    LET c == requests[r].code
    IN /\ At(r, "consume")
       /\ IF codes[c].row = "pending"
          THEN /\ codes' = [codes EXCEPT ![c].row = "used"]
               /\ accepted' = [accepted EXCEPT ![c] = @ + 1]
          ELSE UNCHANGED <<codes, accepted>>
       /\ Done(r)
       /\ UNCHANGED <<throttleVars, guesses>>

\* deleteCodesForPhone: the account is deleted, or its phone changes.
ForgetPhone ==
    /\ \E c \in Ids : codes[c].row \in {"pending", "used"}
    /\ codes' = Gone({c \in Ids : codes[c].row # "none"})
    /\ UNCHANGED <<throttleVars, guesses, accepted, requests>>

-----------------------------------------------------------------------------
Init ==
    /\ storage \in {"mongo", "redis"}
    /\ cooldown = [hits |-> 0, window |-> 0, block |-> 0]
    /\ daily = 0
    /\ quiet = Cooldown
    /\ codes = [c \in Ids |-> NoCode]
    /\ requests = [r \in Requests |-> Idle]
    /\ guesses = [c \in Ids |-> 0]
    /\ accepted = [c \in Ids |-> 0]

Next ==
    \/ \E r \in Requests :
           \/ \E ignored \in BOOLEAN : CanSend(r, ignored)
           \/ ReadPending(r) \/ ClearPending(r)
           \/ \E c \in Ids : CreateCode(r, c)
           \/ Find(r) \/ Attempt(r) \/ Consume(r)
           \/ \E right \in BOOLEAN : Compare(r, right)
    \/ Tick \/ DayPasses \/ ForgetPhone

Spec == Init /\ [][Next]_vars

-----------------------------------------------------------------------------
TypeOK ==
    /\ storage \in {"mongo", "redis"} /\ cooldown \in Record
    /\ daily \in 0..(DailyCodes + 1) /\ quiet \in 0..Cooldown
    /\ codes \in [Ids -> CodeRows]
    /\ requests \in [Requests -> RequestRows]
    /\ guesses \in [Ids -> Nat] /\ accepted \in [Ids -> Nat]

\* A code is accepted once, however many requests guess it right together.
SingleUse == \A c \in Ids : accepted[c] <= 1

\* A code is compared with at most MaxAttempts guesses: the attempt is counted
\* before the comparison, so parallel guesses do not stretch the limit.
GuessesLimited == \A c \in Ids : guesses[c] <= MaxAttempts

\* Two requests for a code are let through at least a cooldown apart, with
\* either storage.
SendsAreSpaced ==
    [][\A r \in Requests, ignored \in BOOLEAN :
           CanSend(r, ignored) /\ (cooldown').block = 0 => quiet = Cooldown]_vars
=============================================================================

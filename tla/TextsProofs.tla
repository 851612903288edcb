---------------------------- MODULE TextsProofs ----------------------------
(* The texts that go to phones: the one-time codes they carry (Codes) and   *)
(* the budget they are charged to (Settings, SmsBudget), for any requests,  *)
(* codes, replicas and limits.                                              *)
EXTENDS Codes, SmsBudget, FiniteSetTheorems, TLAPS

-----------------------------------------------------------------------------
(* A code is accepted once. *)

Created == {d \in Ids : codes[d].row # "none"}

\* Codes are created one after the other, and a code that was accepted is
\* used, or gone: never again pending.
RowStates ==
    /\ \A c \in Ids : /\ codes[c] = [row |-> codes[c].row, attempts |-> codes[c].attempts]
                      /\ codes[c].row \in {"none", "pending", "used", "gone"}
    /\ \E k \in 0..CodeBound : Created = 1..k

\* Requests compare and consume codes that were created.
Asked ==
    \A r \in Requests : requests[r].at \in {"attempt", "compare", "consume"} =>
        requests[r].code \in Created

Shapes ==
    /\ DOMAIN codes = Ids /\ DOMAIN requests = Requests /\ DOMAIN accepted = Ids

Once ==
    \A c \in Ids : /\ accepted[c] \in {0, 1}
                   /\ codes[c].row \in {"none", "pending"} => accepted[c] = 0

Inv == Shapes /\ RowStates /\ Asked /\ Once

\* Nothing is created, asked or accepted yet.
LEMMA InitInv == Init => Inv
<1> SUFFICES ASSUME Init PROVE Inv
  OBVIOUS
<1>1. Created = 1..0 /\ 0 \in 0..CodeBound
  BY CodesAssumption DEF Init, Created, NoCode
<1>2. RowStates
  BY <1>1 DEF Init, RowStates, NoCode
<1> QED BY <1>2 DEF Init, Inv, Shapes, Asked, Once, Idle, NoCode

\* The code a request creates is new.
LEMMA NextCode ==
  ASSUME RowStates, NEW c \in Ids, c = Cardinality(Created) + 1
  PROVE  c \notin Created /\ Created \cup {c} = 1..c
<1>1. PICK k \in 0..CodeBound : Created = 1..k
  BY DEF RowStates
<1>2. Cardinality(1..k) = k
  BY FS_Interval, CodesAssumption
<1>3. c = k + 1
  BY <1>1, <1>2
<1> QED BY <1>1, <1>3, CodesAssumption

\* A step that rewrites rows that were created, and no others.
LEMMA Rewritten ==
  ASSUME RowStates, DOMAIN codes' = Ids,
         \A c \in Ids : /\ codes'[c] = [row |-> codes'[c].row, attempts |-> codes'[c].attempts]
                        /\ codes'[c].row \in {"none", "pending", "used", "gone"}
                        /\ codes'[c].row = "none" <=> codes[c].row = "none"
  PROVE  RowStates' /\ Created' = Created
<1>1. Created' = Created
  BY DEF Created
<1> QED BY <1>1 DEF RowStates

\* What a request that moves on may ask for next.
LEMMA Moved ==
  ASSUME Asked, DOMAIN requests = Requests, Created \subseteq Created', NEW r \in Requests, NEW x,
         requests' = [requests EXCEPT ![r] = x],
         x.at \in {"attempt", "compare", "consume"} => x.code \in Created'
  PROVE  Asked' /\ DOMAIN requests' = Requests
BY DEF Asked

\* Every step keeps one code per creation and the count of acceptances.
LEMMA InvStep == Inv /\ [Next]_vars => Inv'
<1> SUFFICES ASSUME Inv, [Next]_vars PROVE Inv'
  OBVIOUS
<1>0. Shapes /\ RowStates /\ Asked /\ Once
  BY DEF Inv
<1>s. Created \subseteq Ids
  BY DEF Created
<1> USE DEF At, Goto, Done, Idle
\* Steps that leave the rows alone.
<1>1. ASSUME UNCHANGED <<codes, accepted>>, Asked', DOMAIN requests' = Requests PROVE Inv'
  BY <1>0, <1>1 DEF Inv, Shapes, RowStates, Created, Once
<1>c. UNCHANGED codes => Created' = Created
  BY DEF Created
<1>2. CASE UNCHANGED vars
  BY <1>0, <1>1, <1>c, <1>2 DEF vars, codeVars, Asked, Shapes
<1>3. ASSUME NEW r \in Requests, NEW ignored \in BOOLEAN, CanSend(r, ignored) PROVE Inv'
  <2>1. UNCHANGED <<codes, accepted>> /\ Created' = Created
    BY <1>3, <1>c DEF CanSend, codeVars
  <2>2. CASE UNCHANGED requests
    BY <1>0, <1>1, <2>1, <2>2 DEF Asked, Shapes
  <2>3. CASE Goto(r, "read", 0, 0)
    BY <1>0, <1>1, <2>1, <2>3, Moved DEF Shapes
  <2> QED BY <1>3, <2>2, <2>3 DEF CanSend
<1>4. ASSUME NEW r \in Requests, ReadPending(r) PROVE Inv'
  <2>1. UNCHANGED <<codes, accepted>> /\ Created' = Created
    BY <1>4, <1>c DEF ReadPending, codeVars
  <2> QED BY <1>0, <1>1, <1>4, <2>1, Moved DEF ReadPending, Shapes
<1>5. ASSUME NEW r \in Requests, ClearPending(r) PROVE Inv'
  <2>1. RowStates' /\ Created' = Created /\ DOMAIN codes' = Ids
    BY <1>0, <1>5, Rewritten DEF ClearPending, Gone, Pending, RowStates
  <2>2. Asked' /\ DOMAIN requests' = Requests
    BY <1>0, <1>5, <2>1, Moved DEF ClearPending, Shapes
  <2>3. Once'
    BY <1>0, <1>5 DEF ClearPending, Gone, Pending, Once
  <2> QED BY <1>0, <1>5, <2>1, <2>2, <2>3 DEF Inv, Shapes, ClearPending
<1>6. ASSUME NEW r \in Requests, NEW c \in Ids, CreateCode(r, c) PROVE Inv'
  <2>1. c \notin Created /\ Created \cup {c} = 1..c
    BY <1>0, <1>6, NextCode DEF CreateCode, Created
  <2>2. Created' = 1..c /\ c \in 0..CodeBound
    BY <1>0, <1>6, <2>1, CodesAssumption DEF CreateCode, Created, Shapes, Ids
  <2>3. RowStates' /\ DOMAIN codes' = Ids
    BY <1>0, <1>6, <2>2 DEF CreateCode, RowStates, Shapes
  <2>4. Asked' /\ DOMAIN requests' = Requests
    BY <1>0, <1>6, <2>1, <2>2, Moved DEF CreateCode, Shapes
  <2>5. Once'
    BY <1>0, <1>6, <2>1 DEF CreateCode, Once, Shapes, Created
  <2> QED BY <1>0, <1>6, <2>3, <2>4, <2>5 DEF Inv, Shapes, CreateCode
<1>7. ASSUME NEW r \in Requests, Find(r) PROVE Inv'
  <2>1. UNCHANGED <<codes, accepted>> /\ Created' = Created
    BY <1>7, <1>c DEF Find, codeVars
  <2>2. PICK c \in Pending : Goto(r, "attempt", c, 0)
    BY <1>7 DEF Find
  <2>3. c \in Created'
    BY <2>1, <2>2 DEF Pending, Created
  <2> QED BY <1>0, <1>1, <2>1, <2>2, <2>3, Moved DEF Shapes
<1>8. ASSUME NEW r \in Requests, Attempt(r) PROVE Inv'
  <2>1. requests[r].code \in Created /\ requests[r].code \in Ids
    BY <1>0, <1>8, <1>s DEF Attempt, Asked
  <2>2. RowStates' /\ Created' = Created /\ DOMAIN codes' = Ids
        /\ \A c \in Ids : codes'[c].row = codes[c].row
    BY <1>0, <1>8, <2>1, Rewritten DEF Attempt, RowStates, Shapes
  <2>3. Asked' /\ DOMAIN requests' = Requests
    BY <1>0, <1>8, <2>1, <2>2, Moved DEF Attempt, Shapes
  <2>4. Once'
    BY <1>0, <1>8, <2>2 DEF Attempt, Once
  <2> QED BY <1>0, <1>8, <2>2, <2>3, <2>4 DEF Inv, Shapes, Attempt
<1>9. ASSUME NEW r \in Requests, NEW right \in BOOLEAN, Compare(r, right) PROVE Inv'
  <2>1. UNCHANGED <<codes, accepted>> /\ Created' = Created
    BY <1>9, <1>c DEF Compare
  <2> QED BY <1>0, <1>1, <1>9, <2>1, Moved DEF Compare, Shapes, Asked
<1>10. ASSUME NEW r \in Requests, Consume(r) PROVE Inv'
  <2> DEFINE c == requests[r].code
  <2>1. c \in Created /\ c \in Ids
    BY <1>0, <1>10, <1>s DEF Consume, Asked
  <2>2. RowStates' /\ Created' = Created /\ DOMAIN codes' = Ids
    BY <1>0, <1>10, <2>1, Rewritten DEF Consume, RowStates, Shapes
  <2>3. Asked' /\ DOMAIN requests' = Requests
    BY <1>0, <1>10, <2>2, Moved DEF Consume, Shapes
  <2>4. Once' /\ DOMAIN accepted' = Ids
    BY <1>0, <1>10, <2>1 DEF Consume, Once, Shapes, RowStates
  <2> QED BY <2>2, <2>3, <2>4 DEF Inv, Shapes
<1>11. CASE Tick \/ DayPasses
  BY <1>0, <1>1, <1>c, <1>11 DEF Tick, DayPasses, codeVars, Asked, Shapes
<1>12. CASE ForgetPhone
  <2>1. RowStates' /\ Created' = Created /\ DOMAIN codes' = Ids
    BY <1>0, <1>12, Rewritten DEF ForgetPhone, Gone, RowStates
  <2>2. Once'
    BY <1>0, <1>12 DEF ForgetPhone, Gone, Once
  <2> QED BY <1>0, <1>12, <2>1, <2>2 DEF Inv, Shapes, Asked, ForgetPhone
<1> QED BY <1>2, <1>3, <1>4, <1>5, <1>6, <1>7, <1>8, <1>9, <1>10, <1>11, <1>12 DEF Next

\* A code is accepted once, however many requests guess it right together.
THEOREM AcceptedOnce == Spec => []SingleUse
<1>1. Inv => SingleUse
  BY DEF Inv, Once, SingleUse
<1> QED BY <1>1, InitInv, InvStep, PTL DEF Spec

-----------------------------------------------------------------------------
(* A code is compared with so many guesses and no more. *)

\* The requests about to compare a guess with code c.
Comparing(c) == {r \in Requests : requests[r].at = "compare" /\ requests[r].code = c}

\* Comparisons made with code c, and those on their way.
Compared(c) == guesses[c] + Cardinality(Comparing(c))

\* Every comparison, made or on its way, was counted in the row before: as long
\* as the row is there its attempts bound them.  What a row deleted by another
\* request leaves behind stays within the limit, as nothing is added to it.
Counts ==
    /\ DOMAIN guesses = Ids
    /\ \A c \in Ids : codes[c].attempts \in Nat /\ guesses[c] \in Nat
    /\ \A r \in Requests : requests[r].attempts \in Nat
    /\ \A c \in Ids : codes[c].row = "none" => guesses[c] = 0
    /\ \A c \in Ids : Compared(c) <= MaxAttempts
    /\ \A c \in Ids : codes[c].row \in {"pending", "used"} => Compared(c) <= codes[c].attempts

\* The comparisons under way can be counted, the requests being finitely many.
LEMMA ComparingFinite ==
  ASSUME NEW c
  PROVE  IsFiniteSet(Comparing(c)) /\ Cardinality(Comparing(c)) \in Nat
BY RequestsAssumption, FS_Subset, FS_CardinalityType DEF Comparing

\* Only request r moves.
Moves(r) ==
    /\ DOMAIN requests' = Requests
    /\ \A q \in Requests : q # r => requests'[q] = requests[q]

\* One element more or less, counted.
LEMMA OneMore ==
  ASSUME NEW S, IsFiniteSet(S), NEW x
  PROVE  /\ Cardinality(S) \in Nat
         /\ Cardinality(S \cup {x}) \in Nat /\ Cardinality(S \cup {x}) <= Cardinality(S) + 1
         /\ Cardinality(S \ {x}) \in Nat /\ Cardinality(S \ {x}) <= Cardinality(S)
         /\ x \in S => Cardinality(S \ {x}) = Cardinality(S) - 1
<1>1. Cardinality(S) \in Nat /\ Cardinality(S \cup {x}) \in Nat /\ Cardinality(S \ {x}) \in Nat
  BY FS_CardinalityType, FS_AddElement, FS_RemoveElement
<1>2. Cardinality(S \cup {x}) = IF x \in S THEN Cardinality(S) ELSE Cardinality(S) + 1
  BY FS_AddElement
<1>3. Cardinality(S \ {x}) = IF x \in S THEN Cardinality(S) - 1 ELSE Cardinality(S)
  BY FS_RemoveElement
<1> QED BY <1>1, <1>2, <1>3

\* One request that moves is one comparison more, fewer, or neither.
LEMMA CompareCount ==
  ASSUME NEW r \in Requests, Moves(r), NEW c
  PROVE  /\ Cardinality(Comparing(c)) \in Nat /\ Cardinality(Comparing(c)') \in Nat
         /\ Cardinality(Comparing(c)') <= Cardinality(Comparing(c)) + 1
         /\ ~(requests'[r].at = "compare" /\ requests'[r].code = c) =>
                Cardinality(Comparing(c)') <= Cardinality(Comparing(c))
         /\ requests[r].at = "compare" /\ requests[r].code = c /\ requests'[r].at # "compare" =>
                Cardinality(Comparing(c)') = Cardinality(Comparing(c)) - 1
<1>1. IsFiniteSet(Comparing(c))
  BY ComparingFinite
<1>2. CASE requests'[r].at = "compare" /\ requests'[r].code = c
  <2>1. Comparing(c)' = Comparing(c) \cup {r}
    BY <1>2 DEF Comparing, Moves
  <2> QED BY <1>1, <1>2, <2>1, OneMore
<1>3. CASE ~(requests'[r].at = "compare" /\ requests'[r].code = c)
  <2>1. Comparing(c)' = Comparing(c) \ {r}
    BY <1>3 DEF Comparing, Moves
  <2>2. requests[r].at = "compare" /\ requests[r].code = c => r \in Comparing(c)
    BY DEF Comparing
  <2>3. /\ Cardinality(Comparing(c)) \in Nat /\ Cardinality(Comparing(c)') \in Nat
        /\ Cardinality(Comparing(c)') <= Cardinality(Comparing(c))
        /\ r \in Comparing(c) => Cardinality(Comparing(c)') = Cardinality(Comparing(c)) - 1
    BY <1>1, <2>1, OneMore
  <2> QED BY <1>3, <2>2, <2>3
<1> QED BY <1>2, <1>3

\* The attempts a new code inherits are a number: a finite sum.
LEMMA SumIsNat ==
  ASSUME NEW S \in SUBSET Ids, \A c \in Ids : codes[c].attempts \in Nat
  PROVE  AttemptsOf(S) \in Nat
<1> DEFINE part(c) == {c} \X (1..codes[c].attempts)
           parts   == {part(c) : c \in S}
<1>1. IsFiniteSet(S)
  <2>1. IsFiniteSet(Ids)
    BY FS_Interval, CodesAssumption DEF Ids
  <2> QED BY <2>1, FS_Subset
<1>2. IsFiniteSet(parts)
  <2>1. \E f \in [S -> parts] : \A y \in parts : \E c \in S : f[c] = y
    <3> DEFINE f == [c \in S |-> part(c)]
    <3>1. f \in [S -> parts] /\ \A y \in parts : \E c \in S : f[c] = y
      OBVIOUS
    <3> QED BY <3>1
  <2>2. PICK f \in [S -> parts] : \A y \in parts : \E c \in S : f[c] = y
    BY <2>1
  <2>3. f \in Surjection(S, parts)
    BY <2>2 DEF Surjection
  <2> HIDE DEF parts
  <2> QED BY <1>1, <2>3, FS_Surjection
<1>3. \A T \in parts : IsFiniteSet(T)
  <2> SUFFICES ASSUME NEW c \in S PROVE IsFiniteSet(part(c))
    OBVIOUS
  <2>1. codes[c].attempts \in Int /\ 1 \in Int
    OBVIOUS
  <2>2. IsFiniteSet(1..codes[c].attempts)
    BY <2>1, FS_Interval
  <2>3. IsFiniteSet({c})
    BY FS_Singleton
  <2> QED BY <2>2, <2>3, FS_Product
<1>4. IsFiniteSet(UNION parts)
  <2> HIDE DEF parts
  <2> QED BY <1>2, <1>3, FS_UNION
<1> QED BY <1>4, FS_CardinalityType DEF AttemptsOf

\* Steps that make no comparison due and change no row's count.
LEMMA CountsKept ==
  ASSUME Counts, Inv, UNCHANGED guesses, DOMAIN codes' = Ids,
         \A r \in Requests : requests'[r].attempts \in Nat,
         \A c \in Ids : /\ codes'[c].attempts \in Nat
                        /\ codes'[c].row = "none" <=> codes[c].row = "none"
                        /\ codes'[c].row \in {"pending", "used"} =>
                              /\ codes[c].row \in {"pending", "used"}
                              /\ codes'[c].attempts = codes[c].attempts,
         \A c \in Ids : Cardinality(Comparing(c)') \in Nat
                        /\ Cardinality(Comparing(c)') <= Cardinality(Comparing(c))
  PROVE  Counts'
<1>1. \A c \in Ids : guesses[c] \in Nat /\ Cardinality(Comparing(c)) \in Nat
  BY ComparingFinite DEF Counts
<1>2. \A c \in Ids : Compared(c)' <= Compared(c) /\ Compared(c)' \in Nat /\ Compared(c) \in Nat
  BY <1>1 DEF Compared
<1>3. \A c \in Ids : Compared(c)' <= MaxAttempts
  BY <1>2, CodesAssumption DEF Counts
<1>4. \A c \in Ids : codes'[c].row \in {"pending", "used"} => Compared(c)' <= codes'[c].attempts
  BY <1>2 DEF Counts
<1> QED BY <1>3, <1>4 DEF Counts

\* The guess is counted in the row before it is compared, so every step keeps
\* the comparisons within the count.
LEMMA CountsStep == Inv /\ Counts /\ [Next]_vars => Counts'
<1> SUFFICES ASSUME Inv, Counts, [Next]_vars PROVE Counts'
  OBVIOUS
<1>0. Shapes /\ RowStates /\ Asked /\ DOMAIN codes = Ids /\ DOMAIN requests = Requests
  BY DEF Inv, Shapes
<1>s. Created \subseteq Ids
  BY DEF Created
<1>n. \A c \in Ids : guesses[c] \in Nat /\ codes[c].attempts \in Nat
  BY DEF Counts
<1> USE DEF At, Goto, Done, Idle
\* The requests stay, or one of them moves to a step that is no comparison.
<1>1. ASSUME UNCHANGED <<codes, guesses>>, UNCHANGED requests PROVE Counts'
  BY <1>1 DEF Counts, Compared, Comparing
<1>2. ASSUME NEW r \in Requests, Moves(r), requests'[r].at # "compare",
             requests'[r].attempts \in Nat, UNCHANGED guesses, DOMAIN codes' = Ids,
             \A c \in Ids : /\ codes'[c].attempts \in Nat
                            /\ codes'[c].row = "none" <=> codes[c].row = "none"
                            /\ codes'[c].row \in {"pending", "used"} =>
                                  /\ codes[c].row \in {"pending", "used"}
                                  /\ codes'[c].attempts = codes[c].attempts
      PROVE  Counts'
  <2>1. \A q \in Requests : requests'[q].attempts \in Nat
    BY <1>2 DEF Counts, Moves
  <2>2. \A c \in Ids : Cardinality(Comparing(c)') \in Nat
                       /\ Cardinality(Comparing(c)') <= Cardinality(Comparing(c))
    BY <1>2, CompareCount
  <2> QED BY <1>2, <2>1, <2>2, CountsKept
\* ...leaving the rows as they are.
<1>3. ASSUME NEW r \in Requests, Moves(r), requests'[r].at # "compare",
             requests'[r].attempts \in Nat, UNCHANGED <<codes, guesses>>
      PROVE  Counts'
  BY <1>0, <1>2, <1>3, <1>n
<1>4. CASE UNCHANGED vars
  BY <1>1, <1>4 DEF vars, codeVars
<1>5. ASSUME NEW r \in Requests, NEW ignored \in BOOLEAN, CanSend(r, ignored) PROVE Counts'
  <2>1. UNCHANGED <<codes, guesses>>
    BY <1>5 DEF CanSend, codeVars
  <2>2. CASE requests' = [requests EXCEPT ![r] = [at |-> "read", code |-> 0, attempts |-> 0]]
    BY <1>0, <1>3, <2>1, <2>2 DEF Moves
  <2> QED BY <1>1, <1>5, <2>1, <2>2 DEF CanSend
<1>6. ASSUME NEW r \in Requests, ReadPending(r) PROVE Counts'
  <2>1. AttemptsOf(Pending) \in Nat
    BY <1>n, SumIsNat DEF Pending
  <2>2. requests' = [requests EXCEPT ![r] = [at |-> "clear", code |-> 0, attempts |-> AttemptsOf(Pending)]]
    BY <1>6 DEF ReadPending
  <2>3. UNCHANGED <<codes, guesses>>
    BY <1>6 DEF ReadPending, codeVars
  <2>4. Moves(r) /\ requests'[r].at # "compare" /\ requests'[r].attempts = AttemptsOf(Pending)
    BY <1>0, <2>2 DEF Moves
  <2> QED BY <1>3, <2>1, <2>3, <2>4
<1>7. ASSUME NEW r \in Requests, ClearPending(r) PROVE Counts'
  <2>1. /\ requests' = [requests EXCEPT ![r] =
                            [at |-> "create", code |-> 0, attempts |-> requests[r].attempts]]
        /\ UNCHANGED guesses
        /\ codes' = Gone(Pending)
    BY <1>7 DEF ClearPending
  <2>2. Moves(r) /\ requests'[r].at # "compare" /\ requests'[r].attempts \in Nat
    BY <1>0, <2>1 DEF Moves, Counts
  <2>3. DOMAIN codes' = Ids
    BY <2>1 DEF Gone
  <2>4. \A c \in Ids : codes'[c] = IF codes[c].row = "pending" THEN [row |-> "gone", attempts |-> 0]
                                   ELSE codes[c]
    BY <2>1 DEF Gone, Pending
  <2>5. \A c \in Ids : /\ codes'[c].attempts \in Nat
                       /\ codes'[c].row = "none" <=> codes[c].row = "none"
                       /\ codes'[c].row \in {"pending", "used"} =>
                             /\ codes[c].row \in {"pending", "used"}
                             /\ codes'[c].attempts = codes[c].attempts
    BY <1>n, <2>4
  <2> QED BY <1>2, <2>1, <2>2, <2>3, <2>5
<1>8. ASSUME NEW r \in Requests, NEW c \in Ids, CreateCode(r, c) PROVE Counts'
  <2>1. c \notin Created
    BY <1>0, <1>8, NextCode DEF CreateCode, Created
  <2>2. guesses[c] = 0 /\ codes[c].row = "none"
    BY <2>1 DEF Counts, Created
  <2>3. Comparing(c) = {}
    BY <1>0, <2>1 DEF Comparing, Asked
  <2>4. /\ requests' = [requests EXCEPT ![r] = Idle] /\ UNCHANGED guesses
        /\ codes' = [codes EXCEPT ![c] = [row |-> "pending", attempts |-> requests[r].attempts]]
    BY <1>8 DEF CreateCode
  <2>5. requests[r].attempts \in Nat
    BY DEF Counts
  <2>6. Moves(r) /\ requests'[r].at # "compare" /\ requests'[r].attempts \in Nat
    BY <1>0, <2>4 DEF Moves
  <2>7. \A d \in Ids : Cardinality(Comparing(d)') \in Nat /\ Cardinality(Comparing(d)) \in Nat
                       /\ Cardinality(Comparing(d)') <= Cardinality(Comparing(d))
    BY <2>6, CompareCount
  <2>8. Cardinality(Comparing(c)) = 0
    BY <2>3, FS_EmptySet
  <2>9. \A d \in Ids : Compared(d)' <= Compared(d) /\ Compared(d)' \in Nat /\ Compared(d) \in Nat
    BY <1>n, <2>4, <2>7 DEF Compared
  <2>10. Compared(c)' = 0
    BY <2>2, <2>8, <2>9 DEF Compared
  <2>11. \A q \in Requests : requests'[q].attempts \in Nat
    BY <2>6 DEF Counts, Moves
  <2>12. \A d \in Ids : Compared(d)' <= MaxAttempts
    BY <2>9, CodesAssumption DEF Counts
  <2>13. \A d \in Ids : codes'[d].row \in {"pending", "used"} => Compared(d)' <= codes'[d].attempts
    BY <1>0, <1>n, <2>4, <2>5, <2>9, <2>10 DEF Counts
  <2>14. \A d \in Ids : codes'[d].attempts \in Nat /\ (codes'[d].row = "none" => guesses'[d] = 0)
    BY <1>0, <1>n, <2>4, <2>5 DEF Counts
  <2> QED BY <1>n, <2>4, <2>11, <2>12, <2>13, <2>14 DEF Counts
<1>9. ASSUME NEW r \in Requests, Find(r) PROVE Counts'
  <2>1. PICK c : requests' = [requests EXCEPT ![r] = [at |-> "attempt", code |-> c, attempts |-> 0]]
    BY <1>9 DEF Find
  <2>2. UNCHANGED <<codes, guesses>>
    BY <1>9 DEF Find, codeVars
  <2> QED BY <1>0, <1>3, <2>1, <2>2 DEF Moves
<1>10. ASSUME NEW r \in Requests, Attempt(r) PROVE Counts'
  <2>1. PICK c \in Ids : c = requests[r].code /\ codes[c].row # "none"
    BY <1>0, <1>10, <1>s DEF Attempt, Asked, Created
  <2>2. CASE codes[c].row = "gone" \/ codes[c].attempts > MaxAttempts
    <3>1. requests' = [requests EXCEPT ![r] = Idle] /\ UNCHANGED <<codes, guesses>>
      BY <1>10, <2>1, <2>2 DEF Attempt
    <3> QED BY <1>0, <1>3, <3>1 DEF Moves
  <2>3. CASE ~(codes[c].row = "gone" \/ codes[c].attempts > MaxAttempts)
    <3>1. /\ codes' = [codes EXCEPT ![c].attempts = @ + 1]
          /\ UNCHANGED guesses
          /\ \/ /\ codes[c].attempts + 1 > MaxAttempts
                /\ requests' = [requests EXCEPT ![r] = Idle]
             \/ /\ ~(codes[c].attempts + 1 > MaxAttempts)
                /\ requests' = [requests EXCEPT ![r] = [at |-> "compare", code |-> c, attempts |-> 0]]
      BY <1>10, <2>1, <2>3 DEF Attempt
    <3>2. /\ DOMAIN codes' = Ids
          /\ codes'[c].attempts = codes[c].attempts + 1 /\ codes'[c].row = codes[c].row
          /\ \A d \in Ids : d # c => codes'[d] = codes[d]
      BY <1>0, <2>1, <3>1 DEF RowStates
    <3>3. codes[c].row \in {"pending", "used"} /\ codes[c].attempts \in Nat
      BY <1>0, <1>n, <2>1, <2>3 DEF RowStates
    <3>4. Compared(c) <= codes[c].attempts
      BY <2>1, <3>3 DEF Counts
    <3>5. /\ Moves(r) /\ requests'[r].attempts \in Nat
          /\ requests'[r].at = "compare" => ~(codes[c].attempts + 1 > MaxAttempts) /\ requests'[r].code = c
      BY <1>0, <3>1 DEF Moves
    <3>6. \A d \in Ids : /\ Cardinality(Comparing(d)) \in Nat /\ Cardinality(Comparing(d)') \in Nat
                         /\ d # c => Cardinality(Comparing(d)') <= Cardinality(Comparing(d))
                         /\ Cardinality(Comparing(d)') <= Cardinality(Comparing(d)) + 1
                         /\ requests'[r].at # "compare" =>
                               Cardinality(Comparing(d)') <= Cardinality(Comparing(d))
      BY <3>5, CompareCount
    <3>7. \A d \in Ids : /\ Compared(d) \in Nat /\ Compared(d)' \in Nat
                         /\ d # c => Compared(d)' <= Compared(d)
                         /\ Compared(d)' <= Compared(d) + 1
                         /\ requests'[r].at # "compare" => Compared(d)' <= Compared(d)
      BY <1>n, <3>1, <3>6 DEF Compared
    <3>m. MaxAttempts \in Nat /\ \A d \in Ids : Compared(d) <= MaxAttempts
      BY CodesAssumption DEF Counts
    <3>8. Compared(c)' <= MaxAttempts /\ Compared(c)' <= codes'[c].attempts
      BY <2>1, <3>2, <3>3, <3>4, <3>5, <3>7, <3>m
    <3>9. \A d \in Ids : Compared(d)' <= MaxAttempts
      BY <3>7, <3>8, <3>m
    <3>10. \A d \in Ids : codes'[d].row \in {"pending", "used"} => Compared(d)' <= codes'[d].attempts
      <4> SUFFICES ASSUME NEW d \in Ids, codes'[d].row \in {"pending", "used"}, d # c
                   PROVE  Compared(d)' <= codes'[d].attempts
        BY <3>8
      <4>1. codes'[d] = codes[d]
        BY <3>2
      <4>2. Compared(d) <= codes[d].attempts
        BY <4>1 DEF Counts
      <4> QED BY <1>n, <3>7, <4>1, <4>2
    <3>11. \A q \in Requests : requests'[q].attempts \in Nat
      BY <3>5 DEF Counts, Moves
    <3>12. \A d \in Ids : codes'[d].attempts \in Nat /\ (codes'[d].row = "none" => guesses'[d] = 0)
      BY <1>n, <2>1, <3>1, <3>2 DEF Counts
    <3> QED BY <1>n, <3>1, <3>9, <3>10, <3>11, <3>12 DEF Counts
  <2> QED BY <2>2, <2>3
<1>11. ASSUME NEW r \in Requests, NEW right \in BOOLEAN, Compare(r, right) PROVE Counts'
  <2>1. PICK c \in Ids : c = requests[r].code /\ codes[c].row # "none" /\ requests[r].at = "compare"
    BY <1>0, <1>11, <1>s DEF Compare, Asked, Created
  <2>2. /\ guesses' = [guesses EXCEPT ![c] = @ + 1] /\ codes' = codes
        /\ \/ requests' = [requests EXCEPT ![r] = [at |-> "consume", code |-> c, attempts |-> 0]]
           \/ requests' = [requests EXCEPT ![r] = Idle]
    BY <1>11, <2>1 DEF Compare
  <2>3. Moves(r) /\ requests'[r].at # "compare" /\ requests'[r].attempts \in Nat
    BY <1>0, <2>2 DEF Moves
  <2>4. \A d \in Ids : /\ Cardinality(Comparing(d)) \in Nat /\ Cardinality(Comparing(d)') \in Nat
                       /\ Cardinality(Comparing(d)') <= Cardinality(Comparing(d))
    BY <2>3, CompareCount
  <2>5. Cardinality(Comparing(c)') = Cardinality(Comparing(c)) - 1
    BY <2>1, <2>3, CompareCount
  <2>6. guesses'[c] = guesses[c] + 1 /\ \A d \in Ids : d # c => guesses'[d] = guesses[d]
    BY <2>1, <2>2 DEF Counts
  <2>7. Compared(c)' = Compared(c)
    BY <1>n, <2>1, <2>4, <2>5, <2>6 DEF Compared
  <2>8. \A d \in Ids : Compared(d)' <= Compared(d) /\ Compared(d) \in Nat /\ Compared(d)' \in Nat
    BY <1>n, <2>1, <2>4, <2>6, <2>7 DEF Compared
  <2>9. \A q \in Requests : requests'[q].attempts \in Nat
    BY <2>3 DEF Counts, Moves
  <2>10. \A d \in Ids : /\ Compared(d)' <= MaxAttempts
                        /\ codes'[d].row \in {"pending", "used"} => Compared(d)' <= codes'[d].attempts
    BY <1>n, <2>2, <2>8, CodesAssumption DEF Counts
  <2>11. \A d \in Ids : guesses'[d] \in Nat /\ (codes'[d].row = "none" => guesses'[d] = 0)
    BY <1>n, <2>1, <2>2, <2>6 DEF Counts
  <2>12. DOMAIN guesses' = Ids
    BY <2>2 DEF Counts
  <2> QED BY <1>n, <2>2, <2>9, <2>10, <2>11, <2>12 DEF Counts
<1>12. ASSUME NEW r \in Requests, Consume(r) PROVE Counts'
  <2>1. PICK c : c = requests[r].code
    OBVIOUS
  <2>2. \/ codes' = codes
        \/ codes[c].row = "pending" /\ codes' = [codes EXCEPT ![c].row = "used"]
    BY <1>12, <2>1 DEF Consume
  <2>3. \A d \in Ids : /\ codes'[d].attempts = codes[d].attempts
                       /\ \/ codes'[d].row = codes[d].row
                          \/ codes[d].row = "pending" /\ codes'[d].row = "used"
    <3>1. CASE codes' = codes
      BY <3>1
    <3>2. CASE codes[c].row = "pending" /\ codes' = [codes EXCEPT ![c].row = "used"]
      BY <1>0, <3>2 DEF RowStates
    <3> QED BY <2>2, <3>1, <3>2
  <2>4. DOMAIN codes' = Ids /\ UNCHANGED guesses /\ requests' = [requests EXCEPT ![r] = Idle]
    BY <1>0, <1>12 DEF Consume
  <2>5. Moves(r) /\ requests'[r].at # "compare" /\ requests'[r].attempts \in Nat
    BY <1>0, <2>4 DEF Moves
  <2> QED BY <1>2, <1>n, <2>3, <2>4, <2>5
<1>13. CASE Tick \/ DayPasses
  BY <1>1, <1>13 DEF Tick, DayPasses, codeVars
<1>14. CASE ForgetPhone
  <2>1. UNCHANGED <<guesses, requests>> /\ codes' = Gone({c \in Ids : codes[c].row # "none"})
    BY <1>14 DEF ForgetPhone
  <2>2. DOMAIN codes' = Ids /\ \A c \in Ids :
            codes'[c] = IF codes[c].row # "none" THEN [row |-> "gone", attempts |-> 0] ELSE codes[c]
    BY <2>1 DEF Gone
  <2>3. \A c \in Ids : Comparing(c)' = Comparing(c)
    BY <2>1 DEF Comparing
  <2>4. \A c \in Ids : Cardinality(Comparing(c)') \in Nat
                       /\ Cardinality(Comparing(c)') <= Cardinality(Comparing(c))
    BY <2>3, ComparingFinite
  <2>5. \A r \in Requests : requests'[r].attempts \in Nat
    BY <2>1 DEF Counts
  <2> QED BY <1>n, <2>1, <2>2, <2>4, <2>5, CountsKept
<1> QED BY <1>4, <1>5, <1>6, <1>7, <1>8, <1>9, <1>10, <1>11, <1>12, <1>13, <1>14 DEF Next

\* A code is compared with at most MaxAttempts guesses, however many requests
\* guess at once, and whatever others issue, replace or forget meanwhile.
THEOREM GuessesAreLimited == Spec => []GuessesLimited
<1>1. Init => Counts
  <2> SUFFICES ASSUME Init PROVE Counts
    OBVIOUS
  <2>1. \A c \in Ids : Comparing(c) = {}
    BY DEF Init, Comparing, Idle
  <2>2. \A c \in Ids : Compared(c) = 0
    BY <2>1, FS_EmptySet DEF Init, Compared
  <2> QED BY <2>2, CodesAssumption DEF Init, Counts, NoCode, Idle
<1>2. Counts => GuessesLimited
  <2> SUFFICES ASSUME Counts, NEW c \in Ids PROVE guesses[c] <= MaxAttempts
    BY DEF GuessesLimited
  <2>1. guesses[c] \in Nat /\ Cardinality(Comparing(c)) \in Nat
    BY ComparingFinite DEF Counts
  <2> QED BY <2>1, CodesAssumption DEF Counts, Compared
<1> QED BY <1>1, <1>2, InitInv, InvStep, CountsStep, PTL DEF Spec

-----------------------------------------------------------------------------
(* Codes are sent a cooldown apart. *)

\* A window that runs has a hit; it runs since a request was let through.
Spaced ==
    /\ cooldown = [hits |-> cooldown.hits, window |-> cooldown.window, block |-> cooldown.block]
    /\ cooldown.hits \in Nat /\ cooldown.window \in 0..Cooldown /\ cooldown.block \in 0..Cooldown
    /\ quiet \in 0..Cooldown
    /\ storage \in {"mongo", "redis"}
    /\ cooldown.window > 0 => cooldown.hits > 0
    /\ quiet < Cooldown => cooldown.window = Cooldown - quiet

\* A hit is let through only when no window runs.
LEMMA LetThrough ==
  ASSUME Spaced
  PROVE  LET record == Hit(cooldown, 1)
         IN  /\ record.hits \in Nat \ {0}
             /\ record = [hits |-> record.hits, window |-> record.window, block |-> record.block]
             /\ record.window \in 1..Cooldown /\ record.block \in 0..Cooldown
             /\ cooldown.window > 0 => record.window = cooldown.window
             /\ record.block = 0 => cooldown.window = 0 /\ record.window = Cooldown
BY CodesAssumption DEF Spaced, Hit, MongoHit, RedisHit

\* Every step, with either storage, keeps the window a cooldown after the send.
LEMMA SpacedStep == Spaced /\ [Next]_vars => Spaced'
<1> SUFFICES ASSUME Spaced, [Next]_vars PROVE Spaced'
  OBVIOUS
<1>1. CASE UNCHANGED throttleVars
  BY <1>1 DEF throttleVars, Spaced
<1>2. ASSUME NEW r \in Requests, NEW ignored \in BOOLEAN, CanSend(r, ignored) PROVE Spaced'
  <2> DEFINE record == Hit(cooldown, 1)
  <2>1. /\ cooldown' = Counted(record) /\ storage' = storage
        /\ IF record.block > 0 THEN quiet' = quiet ELSE quiet' = 0
    BY <1>2 DEF CanSend
  <2>2. /\ record.hits \in Nat \ {0}
        /\ record = [hits |-> record.hits, window |-> record.window, block |-> record.block]
        /\ record.window \in 1..Cooldown /\ record.block \in 0..Cooldown
        /\ cooldown.window > 0 => record.window = cooldown.window
        /\ record.block = 0 => record.window = Cooldown
    BY LetThrough
  <2> HIDE DEF record
  <2>3. cooldown' = [hits |-> IF record.hits > 2 THEN 2 ELSE record.hits,
                     window |-> record.window, block |-> record.block]
    BY <2>1, <2>2 DEF Counted
  <2>4. /\ cooldown'.hits \in Nat \ {0} /\ cooldown'.window = record.window
        /\ cooldown'.block = record.block
        /\ cooldown' = [hits |-> cooldown'.hits, window |-> cooldown'.window, block |-> cooldown'.block]
    BY <2>2, <2>3
  <2>5. CASE record.block > 0
    BY <2>1, <2>2, <2>4, <2>5, CodesAssumption DEF Spaced
  <2>6. CASE record.block = 0
    BY <2>1, <2>2, <2>4, <2>6, CodesAssumption DEF Spaced
  <2> QED BY <2>2, <2>5, <2>6, CodesAssumption
<1>3. CASE Tick
  <2>1. cooldown' = [hits |-> cooldown.hits,
                     window |-> IF cooldown.window > 0 THEN cooldown.window - 1 ELSE 0,
                     block |-> IF cooldown.block > 0 THEN cooldown.block - 1 ELSE 0]
    BY <1>3 DEF Tick, Spaced
  <2>2. storage' = storage /\ quiet' = (IF quiet < Cooldown THEN quiet + 1 ELSE quiet)
    BY <1>3 DEF Tick
  <2>3. /\ cooldown'.hits = cooldown.hits
        /\ cooldown'.window = IF cooldown.window > 0 THEN cooldown.window - 1 ELSE 0
        /\ cooldown'.block = IF cooldown.block > 0 THEN cooldown.block - 1 ELSE 0
        /\ cooldown' = [hits |-> cooldown'.hits, window |-> cooldown'.window, block |-> cooldown'.block]
    BY <2>1
  <2> QED BY <2>2, <2>3, CodesAssumption DEF Spaced
<1>4. CASE DayPasses
  BY <1>4 DEF DayPasses, Spaced
<1>5. ASSUME NEW r \in Requests, ReadPending(r) \/ ClearPending(r) \/ Find(r)
      PROVE  UNCHANGED throttleVars
  BY <1>5 DEF ReadPending, ClearPending, Find
<1>7. ASSUME NEW r \in Requests, NEW c \in Ids, CreateCode(r, c) PROVE UNCHANGED throttleVars
  BY <1>7 DEF CreateCode
<1>8. ASSUME NEW r \in Requests, Attempt(r) PROVE UNCHANGED throttleVars
  BY <1>8 DEF Attempt
<1>9. ASSUME NEW r \in Requests, Consume(r) PROVE UNCHANGED throttleVars
  BY <1>9 DEF Consume
<1>10. ASSUME NEW r \in Requests, NEW right \in BOOLEAN, Compare(r, right)
       PROVE  UNCHANGED throttleVars
  BY <1>10 DEF Compare
<1>6. CASE ForgetPhone \/ UNCHANGED vars
  BY <1>1, <1>6 DEF ForgetPhone, vars
<1> QED BY <1>1, <1>2, <1>3, <1>4, <1>5, <1>6, <1>7, <1>8, <1>9, <1>10 DEF Next

\* Two requests are let through at least a cooldown apart, with the records in
\* MongoDB or in Redis, and however many requests were refused in between.
THEOREM SpacedSends == Spec => SendsAreSpaced
<1>1. Init => Spaced
  BY CodesAssumption DEF Init, Spaced
<1>2. Spaced /\ [Next]_vars =>
        [\A r \in Requests, ignored \in BOOLEAN :
            CanSend(r, ignored) /\ (cooldown').block = 0 => quiet = Cooldown]_vars
  <2> SUFFICES ASSUME Spaced, NEW r \in Requests, NEW ignored \in BOOLEAN,
                      CanSend(r, ignored), (cooldown').block = 0
               PROVE  quiet = Cooldown
    OBVIOUS
  <2> DEFINE record == Hit(cooldown, 1)
  <2>1. /\ record = [hits |-> record.hits, window |-> record.window, block |-> record.block]
        /\ record.block = 0 => cooldown.window = 0
    BY LetThrough
  <2>2. cooldown' = Counted(record)
    BY DEF CanSend
  <2> HIDE DEF record
  <2>3. record.block = 0
    BY <2>1, <2>2 DEF Counted
  <2> QED BY <2>1, <2>3, CodesAssumption DEF Spaced
<1> QED BY <1>1, <1>2, SpacedStep, PTL DEF Spec, SendsAreSpaced

-----------------------------------------------------------------------------
(* The settings and the budget: the cross rules hold everywhere; and while  *)
(* no limit is 0, refusals are free and no hour and no day exceeds the      *)
(* largest limit.                                                           *)

Writing(t) == tasks[t].at \in {"write", "written"}

SendTask(t, step, paid) ==
    [at |-> step, replica |-> tasks[t].replica, hour |-> tasks[t].hour, paid |-> paid]

LEMMA Days == ASSUME NEW h \in 0..Hours PROVE h \div HoursPerDay \in 0..(Hours \div HoursPerDay)
<1> DEFINE d == HoursPerDay
           p == h \div d
           q == Hours \div d
<1>1. d \in Nat \ {0} /\ h \in Nat /\ Hours \in Nat /\ h <= Hours
  BY BudgetAssumption
<1>2. p \in Nat /\ q \in Nat
  BY <1>1
<1>3. d * p <= h /\ Hours < d * (q + 1)
  BY <1>1
<1> HIDE DEF d, p, q
<1>4. ASSUME p >= q + 1 PROVE FALSE
  <2>1. d * p >= d * (q + 1)
    BY <1>1, <1>2, <1>4
  <2>2. d * p \in Int /\ d * (q + 1) \in Int
    BY <1>1, <1>2
  <2> QED BY <1>1, <1>3, <2>1, <2>2
<1> QED BY <1>2, <1>4 DEF p, q, d

\* The three kinds of requests.
LEMMA Kinds ==
  ASSUME BudgetTypeOK, NEW t \in Tasks
  PROVE  /\ Writing(t) => tasks[t] \in WriteTasks
         /\ Sending(t) => tasks[t] \in SendTasks(0..Hours, Windows)
         /\ tasks[t] = NoTask => ~Writing(t) /\ ~Sending(t)
         /\ ~Writing(t) /\ ~Sending(t) => tasks[t] = NoTask
<1>1. tasks[t] \in {NoTask} \cup WriteTasks \cup SendTasks(0..Hours, Windows)
  BY DEF BudgetTypeOK
<1>2. CASE tasks[t] = NoTask
  BY <1>2 DEF NoTask, Writing, Sending, SendSteps
<1>3. CASE tasks[t] \in WriteTasks
  BY <1>3 DEF WriteTasks, NoTask, Writing, Sending, SendSteps
<1>4. CASE tasks[t] \in SendTasks(0..Hours, Windows)
  BY <1>4 DEF SendTasks, NoTask, Writing, Sending, SendSteps
<1> QED BY <1>1, <1>2, <1>3, <1>4

LEMMA HourWindow ==
  ASSUME BudgetTypeOK, NEW t \in Tasks, Sending(t)
  PROVE  /\ HourOf(t) \in Windows /\ DayOf(t) \in Windows /\ HourOf(t) # DayOf(t)
         /\ tasks[t].hour \in 0..Hours /\ tasks[t].replica \in Replicas
         /\ tasks[t].paid \subseteq Windows
         /\ LimitOf(t) \in Values
<1>1. tasks[t].hour \in 0..Hours /\ tasks[t].replica \in Replicas /\ tasks[t].paid \subseteq Windows
  BY Kinds DEF SendTasks
<1>2. tasks[t].hour \div HoursPerDay \in 0..(Hours \div HoursPerDay)
  BY <1>1, Days
<1>3. LimitOf(t) \in Values
  BY <1>1 DEF BudgetTypeOK, LimitOf, Rows
<1> QED BY <1>1, <1>2, <1>3 DEF HourOf, DayOf, Windows

\* Two fields of a message change.
LEMMA SendFields ==
  ASSUME NEW x \in SendTasks(0..Hours, Windows), NEW e \in SendSteps, NEW f \in SUBSET Windows
  PROVE  [x EXCEPT !.at = e, !.paid = f] =
         [at |-> e, replica |-> x.replica, hour |-> x.hour, paid |-> f]
<1> DEFINE y == [x EXCEPT !.at = e, !.paid = f]
<1>1. y \in SendTasks(0..Hours, Windows)
  BY DEF SendTasks
<1>2. y.at = e /\ y.paid = f /\ y.replica = x.replica /\ y.hour = x.hour
  BY DEF SendTasks
<1> HIDE DEF y
<1>3. y = [at |-> y.at, replica |-> y.replica, hour |-> y.hour, paid |-> y.paid]
  BY <1>1 DEF SendTasks
<1> QED BY <1>2, <1>3 DEF y

\* What Step does to a message.
LEMMA StepOf ==
  ASSUME BudgetTypeOK, NEW t \in Tasks, Sending(t), NEW step \in SendSteps \cup {"idle"},
         NEW paid \in SUBSET Windows, Step(t, step, paid)
  PROVE  /\ DOMAIN tasks' = Tasks
         /\ \A u \in Tasks \ {t} : tasks'[u] = tasks[u]
         /\ tasks'[t] = IF step = "idle" THEN NoTask ELSE SendTask(t, step, paid)
<1>1. tasks[t] \in SendTasks(0..Hours, Windows)
  BY Kinds
<1>2. step # "idle" => [tasks[t] EXCEPT !.at = step, !.paid = paid] = SendTask(t, step, paid)
  BY <1>1, SendFields DEF SendTask
<1> QED BY <1>2 DEF Step, BudgetTypeOK

-----------------------------------------------------------------------------
(* Types. *)

LEMMA InitTypes == BudgetInit => BudgetTypeOK
<1> SUFFICES ASSUME BudgetInit PROVE BudgetTypeOK
  OBVIOUS
<1>1. row \in Rows /\ snapshots \in [Replicas -> Rows] /\ polls \in [Replicas -> Polls]
  BY DEF BudgetInit, SettingsInit, Polls, NoPoll
<1>2. tasks \in [Tasks -> {NoTask} \cup WriteTasks \cup SendTasks(0..Hours, Windows)]
  BY DEF BudgetInit, SettingsInit
<1>3. DOMAIN counts = {} /\ hour \in 0..Hours /\ sent \in [Windows -> Nat]
  BY BudgetAssumption DEF BudgetInit
<1> QED BY <1>1, <1>2, <1>3 DEF BudgetTypeOK

\* A step of one message that leaves the settings alone.
LEMMA SendTypes ==
  ASSUME BudgetTypeOK, NEW t \in Tasks, Sending(t), NEW step \in SendSteps \cup {"idle"},
         NEW paid \in SUBSET Windows, Step(t, step, paid)
  PROVE  tasks' \in [Tasks -> {NoTask} \cup WriteTasks \cup SendTasks(0..Hours, Windows)]
<1>1. tasks[t].hour \in 0..Hours /\ tasks[t].replica \in Replicas
  BY HourWindow
<1>2. /\ DOMAIN tasks' = Tasks
      /\ \A u \in Tasks \ {t} : tasks'[u] = tasks[u]
      /\ tasks'[t] = IF step = "idle" THEN NoTask ELSE SendTask(t, step, paid)
  BY StepOf
<1>3. tasks'[t] \in {NoTask} \cup SendTasks(0..Hours, Windows)
  BY <1>1, <1>2 DEF SendTask, SendTasks
<1>4. tasks' = [u \in Tasks |-> tasks'[u]]
  BY <1>2 DEF Step, BudgetTypeOK
<1> QED BY <1>2, <1>3, <1>4 DEF BudgetTypeOK

\* A charge is of one of the two counters, with a limit then in force.
ChargeOf(t, from, w, next, refused) ==
    /\ Sending(t) /\ tasks[t].at = from
    /\ \E limit \in Limits : Charge(t, from, w, limit, next, refused)

LEMMA Charges ==
  ASSUME BudgetTypeOK, NEW t \in Tasks
  PROVE  /\ ChargeHour(t) => ChargeOf(t, "hour", HourOf(t), "day", "refundHour")
         /\ ChargeDay(t) => ChargeOf(t, "day", DayOf(t), "provider", "refundDay")
<1>1. Sending(t) => LimitOf(t).hourly \in Limits /\ LimitOf(t).daily \in Limits
  BY HourWindow DEF Values
<1>2. ChargeHour(t) => ChargeOf(t, "hour", HourOf(t), "day", "refundHour")
  BY <1>1 DEF ChargeHour, ChargeOf, Charge
<1>3. ChargeDay(t) => ChargeOf(t, "day", DayOf(t), "provider", "refundDay")
  BY <1>1 DEF ChargeDay, ChargeOf, Charge
<1> QED BY <1>2, <1>3

\* The counters after a step that writes one of them.
LEMMA Counters ==
  ASSUME BudgetTypeOK
  PROVE  /\ \A w \in Windows : Count(w) \in Int
         /\ UNCHANGED counts => \A w \in Windows : Count(w)' = Count(w)
         /\ \A v \in Windows : Increment(v) =>
                /\ DOMAIN counts' \subseteq Windows
                /\ \A w \in DOMAIN counts' : counts'[w] \in Int
                /\ \A w \in Windows : Count(w)' = Count(w) + (IF w = v THEN 1 ELSE 0)
<1>1. \A w \in Windows : Count(w) \in Int
  BY DEF BudgetTypeOK, Count
<1>2. ASSUME NEW v \in Windows, Increment(v)
      PROVE  /\ DOMAIN counts' \subseteq Windows
             /\ \A w \in DOMAIN counts' : counts'[w] \in Int
             /\ \A w \in Windows : Count(w)' = Count(w) + (IF w = v THEN 1 ELSE 0)
  <2>1. DOMAIN counts' = DOMAIN counts \cup {v}
    BY <1>2 DEF Increment
  <2>2. \A w \in DOMAIN counts' : counts'[w] = Count(w) + (IF w = v THEN 1 ELSE 0)
    BY <1>2 DEF Increment
  <2>3. DOMAIN counts' \subseteq Windows
    BY <2>1 DEF BudgetTypeOK
  <2>4. \A w \in Windows \ DOMAIN counts' : Count(w) = 0 /\ w # v
    BY <2>1 DEF Count
  <2>5. \A w \in Windows : Count(w)' = IF w \in DOMAIN counts' THEN counts'[w] ELSE 0
    BY DEF Count
  <2> QED BY <1>1, <2>2, <2>3, <2>4, <2>5
<1>3. UNCHANGED counts => \A w \in Windows : Count(w)' = Count(w)
  BY DEF Count
<1> QED BY <1>1, <1>2, <1>3

\* What the steps of a message have in common.
LEMMA Messages ==
  ASSUME BudgetTypeOK, NEW t \in Tasks,
         \/ ChargeHour(t) \/ RefundHour(t) \/ ChargeDay(t)
         \/ RefundDay(t) \/ GiveHourBack(t) \/ Deliver(t)
  PROVE  /\ UNCHANGED <<row, snapshots, polls, hour>> /\ Sending(t)
         /\ \E step \in SendSteps \cup {"idle"}, paid \in SUBSET Windows : Step(t, step, paid)
<1>1. Sending(t)
  BY DEF ChargeHour, RefundHour, ChargeDay, RefundDay, GiveHourBack, Deliver, Sending, SendSteps
<1>2. tasks[t].paid \in SUBSET Windows /\ HourOf(t) \in Windows /\ DayOf(t) \in Windows
  BY <1>1, HourWindow
<1>3. ASSUME NEW from, NEW w \in Windows, NEW next \in SendSteps, NEW refused \in SendSteps,
             ChargeOf(t, from, w, next, refused)
      PROVE  /\ UNCHANGED <<row, snapshots, polls, hour>>
             /\ \E step \in SendSteps, paid \in SUBSET Windows : Step(t, step, paid)
  <2>1. PICK limit \in Limits : Charge(t, from, w, limit, next, refused)
    BY <1>3 DEF ChargeOf
  <2>2. tasks[t].paid \cup {w} \in SUBSET Windows
    BY <1>2
  <2> QED BY <1>2, <2>1, <2>2 DEF Charge
<1>4. ASSUME NEW from, NEW w, NEW next \in SendSteps \cup {"idle"}, Refund(t, from, w, next)
      PROVE  /\ UNCHANGED <<row, snapshots, polls, hour>>
             /\ \E step \in SendSteps \cup {"idle"}, paid \in SUBSET Windows : Step(t, step, paid)
  <2>1. tasks[t].paid \ {w} \in SUBSET Windows
    BY <1>2
  <2> QED BY <1>4, <2>1 DEF Refund
<1>5. CASE ChargeHour(t) \/ ChargeDay(t)
  BY <1>1, <1>2, <1>3, <1>5, Charges DEF SendSteps
<1>6. CASE RefundHour(t) \/ RefundDay(t) \/ GiveHourBack(t)
  BY <1>1, <1>4, <1>6 DEF RefundHour, RefundDay, GiveHourBack, SendSteps
<1>7. CASE Deliver(t)
  BY <1>1, <1>7 DEF Deliver
<1> QED BY <1>1, <1>5, <1>6, <1>7

LEMMA TypesStep == BudgetTypeOK /\ [BudgetNext]_smsVars => BudgetTypeOK'
<1> SUFFICES ASSUME BudgetTypeOK, [BudgetNext]_smsVars PROVE BudgetTypeOK'
  OBVIOUS
<1> DEFINE Ts == {NoTask} \cup WriteTasks \cup SendTasks(0..Hours, Windows)
<1> USE SettingsAssumption, BudgetAssumption
<1>1. CASE UNCHANGED smsVars
  BY <1>1 DEF smsVars, settingsVars, budgetVars, BudgetTypeOK
\* The settings.
<1>2. ASSUME row' \in Rows, snapshots' \in [Replicas -> Rows], polls' \in [Replicas -> Polls],
             tasks' \in [Tasks -> Ts], UNCHANGED budgetVars
      PROVE  BudgetTypeOK'
  BY <1>2 DEF BudgetTypeOK, budgetVars
<1>3. ASSUME NEW t \in Tasks, NEW r \in Replicas, NEW values \in Values,
             StartWrite(t, r, values), UNCHANGED budgetVars
      PROVE  BudgetTypeOK'
  <2>1. [at |-> "write", replica |-> r, current |-> row, values |-> values] \in WriteTasks
    BY DEF WriteTasks, BudgetTypeOK
  <2>2. tasks' \in [Tasks -> Ts]
    BY <1>3, <2>1 DEF StartWrite, BudgetTypeOK
  <2> QED BY <1>2, <1>3, <2>2 DEF StartWrite, BudgetTypeOK
<1>4. ASSUME NEW t \in Tasks, WriteNothing(t) \/ Written(t), UNCHANGED budgetVars PROVE BudgetTypeOK'
  <2>1. tasks[t] \in WriteTasks
    BY <1>4, Kinds DEF WriteNothing, Written, Writing
  <2>2. tasks[t].current \in Rows
    BY <2>1 DEF WriteTasks
  <2>3. snapshots' \in [Replicas -> Rows] /\ tasks' \in [Tasks -> Ts]
    BY <1>4, <2>2 DEF WriteNothing, Written, BudgetTypeOK
  <2> QED BY <1>2, <1>4, <2>3 DEF WriteNothing, Written, BudgetTypeOK
<1>5. ASSUME NEW t \in Tasks, CommitWrite(t), UNCHANGED budgetVars PROVE BudgetTypeOK'
  <2>1. tasks[t] \in WriteTasks
    BY <1>5, Kinds DEF CommitWrite, Writing
  <2>2. CASE row = tasks[t].current
    <3>1. row' = [values |-> tasks[t].values, stamp |-> row.stamp + 1] /\ row.stamp < StampBound
      BY <1>5, <2>2 DEF CommitWrite
    <3>2. row' \in Rows
      BY <2>1, <3>1 DEF WriteTasks, Rows, BudgetTypeOK
    <3>3. [tasks[t] EXCEPT !.at = "written", !.current = row'] \in WriteTasks
      BY <2>1, <3>2 DEF WriteTasks
    <3>4. tasks' = [tasks EXCEPT ![t] = [tasks[t] EXCEPT !.at = "written", !.current = row']]
      BY <1>5, <2>2 DEF CommitWrite, BudgetTypeOK
    <3>5. tasks' \in [Tasks -> Ts]
      BY <3>3, <3>4 DEF BudgetTypeOK
    <3> QED BY <1>2, <1>5, <3>2, <3>5 DEF CommitWrite, BudgetTypeOK
  <2>3. CASE row # tasks[t].current
    <3>1. row' = row /\ tasks' \in [Tasks -> Ts]
      BY <1>5, <2>3 DEF CommitWrite, BudgetTypeOK
    <3> QED BY <1>2, <1>5, <3>1 DEF CommitWrite, BudgetTypeOK
  <2> QED BY <2>2, <2>3
<1>6. ASSUME NEW r \in Replicas, PollStamp(r) \/ PollRead(r), UNCHANGED budgetVars PROVE BudgetTypeOK'
  <2>1. [at |-> "read"] \in Polls /\ [at |-> "apply", row |-> row] \in Polls
    BY DEF Polls, BudgetTypeOK
  <2>2. polls' \in [Replicas -> Polls]
    BY <1>6, <2>1 DEF PollStamp, PollRead, BudgetTypeOK
  <2> QED BY <1>2, <1>6, <2>2 DEF PollStamp, PollRead, BudgetTypeOK
<1>7. ASSUME NEW r \in Replicas, PollApply(r) \/ Restart(r), UNCHANGED budgetVars PROVE BudgetTypeOK'
  <2>1. NoPoll \in Polls /\ (polls[r].at = "apply" => polls[r].row \in Rows)
    BY DEF Polls, NoPoll, BudgetTypeOK
  <2>2. polls' \in [Replicas -> Polls] /\ snapshots' \in [Replicas -> Rows]
    BY <1>7, <2>1 DEF PollApply, Restart, BudgetTypeOK
  <2> QED BY <1>2, <1>7, <2>2 DEF PollApply, Restart, BudgetTypeOK
<1>8. CASE SettingsStep
  BY <1>3, <1>4, <1>5, <1>6, <1>7, <1>8 DEF SettingsStep
\* The messages.
<1>9. ASSUME UNCHANGED <<row, snapshots, polls, hour>>, tasks' \in [Tasks -> Ts],
             DOMAIN counts' \subseteq Windows, \A w \in DOMAIN counts' : counts'[w] \in Int,
             sent' \in [Windows -> Nat]
      PROVE  BudgetTypeOK'
  BY <1>9 DEF BudgetTypeOK
<1>10. ASSUME NEW t \in Tasks, NEW r \in Replicas, StartSend(t, r) PROVE BudgetTypeOK'
  <2>1. [at |-> "hour", replica |-> r, hour |-> hour, paid |-> {}] \in SendTasks(0..Hours, Windows)
    BY DEF SendTasks, SendSteps, BudgetTypeOK
  <2>2. tasks' \in [Tasks -> Ts]
    BY <1>10, <2>1 DEF StartSend, BudgetTypeOK
  <2> QED BY <1>9, <1>10, <2>2 DEF StartSend, BudgetTypeOK, budgetVars
<1>11. ASSUME NEW t \in Tasks, NEW from, NEW w \in Windows, NEW next \in SendSteps,
              NEW refused \in SendSteps, ChargeOf(t, from, w, next, refused)
       PROVE  BudgetTypeOK'
  <2>1. PICK limit \in Limits : Charge(t, from, w, limit, next, refused)
    BY <1>11 DEF ChargeOf
  <2>2. Sending(t) /\ tasks[t].paid \subseteq Windows
    BY <1>11, HourWindow DEF ChargeOf
  <2>3. CASE limit = 0
    <3>1. UNCHANGED counts /\ Step(t, next, tasks[t].paid)
      BY <2>1, <2>3 DEF Charge
    <3>2. tasks' \in [Tasks -> Ts]
      BY <2>2, <3>1, SendTypes
    <3> QED BY <1>9, <2>1, <3>1, <3>2 DEF Charge, BudgetTypeOK
  <2>4. CASE limit # 0
    <3>1. Increment(w) /\ Step(t, IF Count(w) + 1 <= limit THEN next ELSE refused, tasks[t].paid \cup {w})
      BY <2>1, <2>4 DEF Charge
    <3>2. tasks' \in [Tasks -> Ts]
      BY <2>2, <3>1, SendTypes
    <3> QED BY <1>9, <2>1, <3>1, <3>2, Counters DEF Charge, BudgetTypeOK
  <2> QED BY <2>3, <2>4
<1>12. ASSUME NEW t \in Tasks, ChargeHour(t) \/ ChargeDay(t) PROVE BudgetTypeOK'
  <2>1. Sending(t)
    BY <1>12 DEF ChargeHour, ChargeDay
  <2>2. HourOf(t) \in Windows /\ DayOf(t) \in Windows
    BY <2>1, HourWindow
  <2> QED BY <1>11, <1>12, <2>2, Charges DEF SendSteps
<1>13. ASSUME NEW t \in Tasks, NEW from, NEW w, NEW next \in SendSteps \cup {"idle"},
              Sending(t), Refund(t, from, w, next)
       PROVE  BudgetTypeOK'
  <2>1. tasks[t].paid \ {w} \subseteq Windows
    BY <1>13, HourWindow
  <2>2. tasks' \in [Tasks -> Ts]
    BY <1>13, <2>1, SendTypes DEF Refund
  <2>3. DOMAIN counts' = DOMAIN counts /\ \A x \in DOMAIN counts' : counts'[x] \in Int
    BY <1>13 DEF Refund, BudgetTypeOK
  <2> QED BY <1>9, <1>13, <2>2, <2>3 DEF Refund, BudgetTypeOK
<1>14. ASSUME NEW t \in Tasks, RefundHour(t) \/ RefundDay(t) \/ GiveHourBack(t) PROVE BudgetTypeOK'
  BY <1>13, <1>14 DEF RefundHour, RefundDay, GiveHourBack, SendSteps
<1>15. ASSUME NEW t \in Tasks, Deliver(t) PROVE BudgetTypeOK'
  <2>1. Sending(t) /\ Step(t, "idle", {})
    BY <1>15 DEF Deliver, Sending, SendSteps
  <2>2. tasks' \in [Tasks -> Ts]
    BY <2>1, SendTypes
  <2>3. sent' \in [Windows -> Nat]
    BY <1>15 DEF Deliver, BudgetTypeOK
  <2> QED BY <1>9, <1>15, <2>2, <2>3 DEF Deliver, BudgetTypeOK
<1>16. CASE NewHour
  BY <1>16 DEF NewHour, BudgetTypeOK, settingsVars
<1> QED BY <1>1, <1>8, <1>10, <1>12, <1>14, <1>15, <1>16 DEF BudgetNext

\* The settings, the counters and what every request has read are what their
\* schemas say; a counter may be negative.
THEOREM BudgetTypes == BudgetSpec => []BudgetTypeOK
BY InitTypes, TypesStep, PTL DEF BudgetSpec

-----------------------------------------------------------------------------
(* The cross rules. *)

\* They hold of every copy of the row, and of what is about to be written.
RulesEverywhere ==
    /\ RulesHold
    /\ \A r \in Replicas : polls[r].at = "apply" => RuleHolds(polls[r].row.values)
    /\ \A t \in Tasks : Writing(t) =>
           RuleHolds(tasks[t].current.values) /\ RuleHolds(tasks[t].values)

LEMMA RulesStep == BudgetTypeOK /\ RulesEverywhere /\ [BudgetNext]_smsVars => RulesEverywhere'
<1> SUFFICES ASSUME BudgetTypeOK, RulesEverywhere, [BudgetNext]_smsVars PROVE RulesEverywhere'
  OBVIOUS
<1> USE DEF RulesEverywhere, RulesHold
<1>t. DOMAIN tasks = Tasks /\ DOMAIN snapshots = Replicas /\ DOMAIN polls = Replicas
  BY DEF BudgetTypeOK
<1>1. CASE UNCHANGED smsVars
  BY <1>1 DEF smsVars, settingsVars, Writing
<1>2. ASSUME NEW t \in Tasks, NEW r \in Replicas, NEW values \in Values, StartWrite(t, r, values)
      PROVE  RulesEverywhere'
  <2>1. /\ \A u \in Tasks \ {t} : tasks'[u] = tasks[u]
        /\ tasks'[t] = [at |-> "write", replica |-> r, current |-> row, values |-> values]
    BY <1>2, <1>t DEF StartWrite
  <2>2. tasks'[t].current = row /\ tasks'[t].values = values
    BY <2>1
  <2> QED BY <1>2, <2>1, <2>2 DEF StartWrite, Writing
<1>3. ASSUME NEW t \in Tasks, WriteNothing(t) \/ Written(t) PROVE RulesEverywhere'
  <2>1. Writing(t)
    BY <1>3 DEF WriteNothing, Written, Writing
  <2>2. /\ \A u \in Tasks \ {t} : tasks'[u] = tasks[u]
        /\ tasks'[t] = NoTask
    BY <1>3, <1>t DEF WriteNothing, Written
  <2>3. ~Writing(t)'
    BY <2>2 DEF Writing, NoTask
  <2>4. \A q \in Replicas : snapshots'[q] \in {snapshots[q], tasks[t].current}
    BY <1>3, <1>t DEF WriteNothing, Written
  <2>5. row' = row /\ polls' = polls
    BY <1>3 DEF WriteNothing, Written
  <2>6. \A u \in Tasks : Writing(u)' => Writing(u) /\ tasks'[u] = tasks[u]
    BY <2>2, <2>3 DEF Writing
  <2> QED BY <2>1, <2>4, <2>5, <2>6
<1>4. ASSUME NEW t \in Tasks, CommitWrite(t) PROVE RulesEverywhere'
  <2>1. Writing(t) /\ tasks[t] \in WriteTasks
    BY <1>4, Kinds DEF CommitWrite, Writing
  <2>2. snapshots' = snapshots /\ polls' = polls /\ \A u \in Tasks \ {t} : tasks'[u] = tasks[u]
    BY <1>4, <1>t DEF CommitWrite
  <2>3. CASE row = tasks[t].current
    <3>1. row' = [values |-> tasks[t].values, stamp |-> row.stamp + 1]
      BY <1>4, <2>3 DEF CommitWrite
    <3>2. tasks'[t].current = row' /\ tasks'[t].values = tasks[t].values
      BY <1>4, <1>t, <2>1, <2>3 DEF CommitWrite, WriteTasks
    <3>3. row'.values = tasks[t].values
      BY <3>1
    <3> QED BY <2>1, <2>2, <3>2, <3>3 DEF Writing
  <2>4. CASE row # tasks[t].current
    <3>1. row' = row /\ tasks'[t] = NoTask
      BY <1>4, <1>t, <2>4 DEF CommitWrite
    <3> QED BY <2>2, <3>1 DEF Writing, NoTask
  <2> QED BY <2>3, <2>4
<1>5. ASSUME NEW r \in Replicas, PollStamp(r) \/ PollRead(r) PROVE RulesEverywhere'
  <2>1. /\ \A q \in Replicas \ {r} : polls'[q] = polls[q]
        /\ polls'[r] \in {[at |-> "read"], [at |-> "apply", row |-> row]}
        /\ UNCHANGED <<row, snapshots, tasks>>
    BY <1>5, <1>t DEF PollStamp, PollRead
  <2> QED BY <2>1 DEF Writing
<1>6. ASSUME NEW r \in Replicas, PollApply(r) \/ Restart(r) PROVE RulesEverywhere'
  <2>1. /\ \A q \in Replicas \ {r} : polls'[q] = polls[q] /\ snapshots'[q] = snapshots[q]
        /\ polls'[r] = NoPoll
        /\ snapshots'[r] \in {snapshots[r], row} \/ (polls[r].at = "apply" /\ snapshots'[r] = polls[r].row)
        /\ UNCHANGED <<row, tasks>>
    BY <1>6, <1>t DEF PollApply, Restart
  <2> QED BY <2>1 DEF Writing, NoPoll
\* A message is not a write.
<1>7. ASSUME NEW t \in Tasks, \A u \in Tasks \ {t} : tasks'[u] = tasks[u], ~Writing(t)',
             UNCHANGED <<row, snapshots, polls>>
      PROVE  RulesEverywhere'
  <2>1. \A u \in Tasks : Writing(u)' => Writing(u) /\ tasks'[u] = tasks[u]
    BY <1>7 DEF Writing
  <2> QED BY <1>7, <2>1
<1>8. ASSUME NEW t \in Tasks, NEW r \in Replicas, StartSend(t, r) PROVE RulesEverywhere'
  BY <1>7, <1>8, <1>t DEF StartSend, Writing
<1>9. ASSUME NEW t \in Tasks,
             \/ ChargeHour(t) \/ RefundHour(t) \/ ChargeDay(t)
             \/ RefundDay(t) \/ GiveHourBack(t) \/ Deliver(t)
      PROVE  RulesEverywhere'
  <2>1. /\ UNCHANGED <<row, snapshots, polls>> /\ Sending(t)
        /\ \E step \in SendSteps \cup {"idle"}, paid \in SUBSET Windows : Step(t, step, paid)
    BY <1>9, Messages
  <2>2. PICK step \in SendSteps \cup {"idle"}, paid \in SUBSET Windows : Step(t, step, paid)
    BY <2>1
  <2>3. /\ \A u \in Tasks \ {t} : tasks'[u] = tasks[u]
        /\ tasks'[t] = IF step = "idle" THEN NoTask ELSE SendTask(t, step, paid)
    BY <2>1, <2>2, StepOf
  <2>4. ~Writing(t)'
    BY <2>3 DEF Writing, NoTask, SendTask, SendSteps
  <2> QED BY <1>7, <2>1, <2>3, <2>4
<1>10. CASE NewHour
  BY <1>10 DEF NewHour, settingsVars, Writing
<1> QED BY <1>1, <1>2, <1>3, <1>4, <1>5, <1>6, <1>8, <1>9, <1>10 DEF BudgetNext, SettingsStep

\* The cross rules hold of the row and of what every replica works with,
\* for any number of replicas and of writes under way.
THEOREM CrossRulesHold == BudgetSpec => []RulesHold
<1>1. BudgetInit => RulesEverywhere
  BY DEF BudgetInit, SettingsInit, RulesEverywhere, RulesHold, Rows, NoPoll, NoTask, Writing
<1>2. RulesEverywhere => RulesHold
  BY DEF RulesEverywhere
<1> QED BY <1>1, <1>2, RulesStep, InitTypes, TypesStep, PTL DEF BudgetSpec

-----------------------------------------------------------------------------
(* The counters, while no limit is 0. *)

NoZero == 0 \notin Limits

Paid(t) == IF Sending(t) THEN tasks[t].paid ELSE {}
Payers(w) == {t \in Tasks : w \in Paid(t)}

\* The charges of a message that were allowed, and not given back yet.
Granted(t) ==
    IF tasks[t].at \in {"day", "refundDay", "giveBack"} THEN {HourOf(t)}
    ELSE IF tasks[t].at = "provider" THEN {HourOf(t), DayOf(t)} ELSE {}
Holders(w) == {t \in Tasks : w \in Granted(t)}

\* With no limit of 0 a message has paid for every counter it has passed.
PaidSteps ==
    \A t \in Tasks : Sending(t) =>
        tasks[t].paid = IF tasks[t].at = "hour" THEN {}
                        ELSE IF tasks[t].at \in {"refundHour", "day", "giveBack"} THEN {HourOf(t)}
                        ELSE {HourOf(t), DayOf(t)}

\* What was sent and what may still be, in a window, is within the limits.
HeldWithin ==
    \A w \in Windows : \A m \in Limits : (\A x \in Limits : x <= m) =>
        sent[w] + Cardinality(Holders(w)) <= m

PaidCounted == BudgetTypeOK /\ PaidSteps /\ RefusalsAreFree /\ HeldWithin

One(b) == IF b THEN 1 ELSE 0

LEMMA OneMoves ==
  ASSUME NEW S \in SUBSET Tasks, NEW T \in SUBSET Tasks, NEW t \in Tasks, S \ {t} = T \ {t}
  PROVE  /\ Cardinality(S) \in Nat /\ Cardinality(T) \in Nat
         /\ Cardinality(T) = Cardinality(S) + One(t \in T) - One(t \in S)
<1>1. IsFiniteSet(S) /\ IsFiniteSet(T)
  BY BudgetAssumption, FS_Subset
<1>2. Cardinality(S) \in Nat /\ Cardinality(T) \in Nat
  BY <1>1, FS_CardinalityType
<1>3. Cardinality(S \ {t}) = IF t \in S THEN Cardinality(S) - 1 ELSE Cardinality(S)
  BY <1>1, FS_RemoveElement
<1>4. Cardinality(T \ {t}) = IF t \in T THEN Cardinality(T) - 1 ELSE Cardinality(T)
  BY <1>1, FS_RemoveElement
<1> QED BY <1>2, <1>3, <1>4 DEF One

\* A step seen from one window: nothing changes, or one message pays, is
\* granted its charge, takes it back or is sent.
Same(w) ==
    /\ Count(w)' = Count(w) /\ sent'[w] = sent[w]
    /\ Payers(w)' = Payers(w) /\ Holders(w)' = Holders(w)
MovesOne(w, t) ==
    /\ Payers(w)' \ {t} = Payers(w) \ {t} /\ Holders(w)' \ {t} = Holders(w) \ {t}
    /\ Count(w)' - sent'[w] - One(t \in Payers(w)') = Count(w) - sent[w] - One(t \in Payers(w))
    /\ \/ sent'[w] + One(t \in Holders(w)') <= sent[w] + One(t \in Holders(w))
       \/ \E limit \in Limits : Count(w)' <= limit

\* Only the message that steps pays or holds anything else.
LEMMA Others ==
  ASSUME NEW t \in Tasks, \A u \in Tasks \ {t} : tasks'[u] = tasks[u], NEW w \in Windows
  PROVE  /\ Payers(w)' \ {t} = Payers(w) \ {t} /\ Holders(w)' \ {t} = Holders(w) \ {t}
         /\ t \in Payers(w) <=> w \in Paid(t)
         /\ t \in Holders(w) <=> w \in Granted(t)
         /\ t \in Payers(w)' <=> w \in Paid(t)'
         /\ t \in Holders(w)' <=> w \in Granted(t)'
<1>1. \A u \in Tasks \ {t} : Paid(u)' = Paid(u) /\ Granted(u)' = Granted(u)
  BY DEF Paid, Granted, Sending, HourOf, DayOf
<1> QED BY <1>1 DEF Payers, Holders

\* The windows of a message stay its own, and what it holds after a step.
LEMMA After ==
  ASSUME BudgetTypeOK, NEW t \in Tasks, Sending(t), NEW step \in SendSteps \cup {"idle"},
         NEW paid \in SUBSET Windows, Step(t, step, paid)
  PROVE  /\ \A u \in Tasks \ {t} : tasks'[u] = tasks[u]
         /\ step = "idle" => tasks'[t] = NoTask /\ Paid(t)' = {} /\ Granted(t)' = {}
         /\ step # "idle" =>
               /\ Sending(t)' /\ tasks'[t].at = step /\ tasks'[t].paid = paid
               /\ HourOf(t)' = HourOf(t) /\ DayOf(t)' = DayOf(t)
               /\ Paid(t)' = paid
               /\ Granted(t)' = IF step \in {"day", "refundDay", "giveBack"} THEN {HourOf(t)}
                                ELSE IF step = "provider" THEN {HourOf(t), DayOf(t)} ELSE {}
<1>1. /\ \A u \in Tasks \ {t} : tasks'[u] = tasks[u]
      /\ tasks'[t] = IF step = "idle" THEN NoTask ELSE SendTask(t, step, paid)
  BY StepOf
<1>2. CASE step = "idle"
  BY <1>1, <1>2 DEF NoTask, Paid, Granted, Sending, SendSteps
<1>3. CASE step # "idle"
  <2>1. /\ tasks'[t].at = step /\ tasks'[t].paid = paid /\ tasks'[t].hour = tasks[t].hour
    BY <1>1, <1>3 DEF SendTask
  <2> QED BY <1>1, <1>3, <2>1 DEF Paid, Granted, Sending, HourOf, DayOf
<1> QED BY <1>2, <1>3

\* One charge, allowed or not.
LEMMA ChargeEffect ==
  ASSUME BudgetTypeOK, PaidSteps, NoZero, NEW t \in Tasks, ChargeHour(t) \/ ChargeDay(t)
  PROVE  PaidSteps' /\ \A w \in Windows : MovesOne(w, t)
<1>1. Sending(t)
  BY DEF ChargeHour, ChargeDay
<1>2. HourOf(t) \in Windows /\ DayOf(t) \in Windows /\ HourOf(t) # DayOf(t)
  BY <1>1, HourWindow
<1>3. ASSUME NEW from, NEW v \in Windows, NEW next \in SendSteps, NEW refused \in SendSteps,
             ChargeOf(t, from, v, next, refused),
             \/ from = "hour" /\ v = HourOf(t) /\ next = "day" /\ refused = "refundHour"
             \/ from = "day" /\ v = DayOf(t) /\ next = "provider" /\ refused = "refundDay"
      PROVE  PaidSteps' /\ \A w \in Windows : MovesOne(w, t)
  <2>1. PICK limit \in Limits : Charge(t, from, v, limit, next, refused)
    BY <1>3 DEF ChargeOf
  <2> DEFINE step == IF Count(v) + 1 <= limit THEN next ELSE refused
             paid == tasks[t].paid \cup {v}
  <2>2. Increment(v) /\ Step(t, step, paid) /\ sent' = sent /\ tasks[t].at = from
    BY <2>1 DEF Charge, NoZero
  <2>3. tasks[t].paid \subseteq Windows /\ paid \in SUBSET Windows
    BY <1>1, HourWindow
  <2>4. step \in SendSteps /\ step # "idle"
    BY <1>3 DEF SendSteps
  <2>5. /\ \A u \in Tasks \ {t} : tasks'[u] = tasks[u]
        /\ Sending(t)' /\ tasks'[t].at = step /\ tasks'[t].paid = paid
        /\ HourOf(t)' = HourOf(t) /\ DayOf(t)' = DayOf(t)
        /\ Paid(t)' = paid
        /\ Granted(t)' = IF step \in {"day", "refundDay", "giveBack"} THEN {HourOf(t)}
                         ELSE IF step = "provider" THEN {HourOf(t), DayOf(t)} ELSE {}
    BY <1>1, <2>2, <2>3, <2>4, After
  <2>6. Paid(t) = tasks[t].paid /\ tasks[t].paid = IF from = "hour" THEN {} ELSE {HourOf(t)}
    BY <1>1, <1>3, <2>2 DEF Paid, PaidSteps
  <2>7. \A w \in Windows : Count(w) \in Int /\ Count(w)' = Count(w) + (IF w = v THEN 1 ELSE 0)
    BY <2>2, Counters
  <2>8. PaidSteps'
    <3>1. \A u \in Tasks \ {t} : Sending(u)' = Sending(u) /\ HourOf(u)' = HourOf(u) /\ DayOf(u)' = DayOf(u)
      BY <2>5 DEF Sending, HourOf, DayOf
    <3>2. tasks'[t].paid = IF step \in {"refundHour", "day", "giveBack"} THEN {HourOf(t)}
                           ELSE {HourOf(t), DayOf(t)}
      BY <1>3, <2>5, <2>6
    <3> QED BY <1>3, <2>4, <2>5, <3>1, <3>2 DEF PaidSteps
  <2>9. Granted(t) = IF from = "hour" THEN {} ELSE {HourOf(t)}
    BY <1>3, <2>2 DEF Granted
  <2>10. ASSUME NEW w \in Windows PROVE MovesOne(w, t)
    <3>1. /\ Payers(w)' \ {t} = Payers(w) \ {t} /\ Holders(w)' \ {t} = Holders(w) \ {t}
          /\ t \in Payers(w) <=> w \in Paid(t)
          /\ t \in Holders(w) <=> w \in Granted(t)
          /\ t \in Payers(w)' <=> w \in Paid(t)'
          /\ t \in Holders(w)' <=> w \in Granted(t)'
      BY <2>5, Others
    <3>2. sent[w] \in Nat /\ sent'[w] = sent[w] /\ limit \in Nat
      BY <2>2, SettingsAssumption DEF BudgetTypeOK
    <3>3. One(t \in Payers(w)) = 0 \/ w # v
      BY <1>2, <1>3, <2>6, <3>1 DEF One
    <3>4. One(t \in Payers(w)') = One(t \in Payers(w)) + (IF w = v THEN 1 ELSE 0)
      BY <1>2, <1>3, <2>5, <2>6, <3>1 DEF One
    <3>5. w # v => One(t \in Holders(w)') = One(t \in Holders(w))
      BY <1>2, <1>3, <2>5, <2>9, <3>1 DEF One
    <3>6. Count(v) + 1 > limit => One(t \in Holders(w)') = One(t \in Holders(w))
      BY <1>2, <1>3, <2>5, <2>7, <2>9, <3>1, <3>2 DEF One
    <3>7. One(t \in Payers(w)) \in Int /\ One(t \in Holders(w)) \in Int
      BY DEF One
    <3>8. Count(w)' - sent'[w] - One(t \in Payers(w)') = Count(w) - sent[w] - One(t \in Payers(w))
      BY <2>7, <3>2, <3>4, <3>7
    <3>9. \/ sent'[w] + One(t \in Holders(w)') <= sent[w] + One(t \in Holders(w))
          \/ Count(w)' <= limit
      BY <2>7, <3>2, <3>5, <3>6, <3>7
    <3> QED BY <3>1, <3>8, <3>9 DEF MovesOne
  <2> QED BY <2>8, <2>10
<1>4. CASE ChargeHour(t)
  BY <1>2, <1>3, <1>4, Charges DEF SendSteps
<1>5. CASE ChargeDay(t)
  BY <1>2, <1>3, <1>5, Charges DEF SendSteps
<1> QED BY <1>4, <1>5

\* The module's set of messages is Payers.
LEMMA FreePayers ==
  RefusalsAreFree <=> \A w \in Windows : Count(w) = sent[w] + Cardinality(Payers(w))
<1>1. \A w \in Windows : Payers(w) = {t \in Tasks : Sending(t) /\ w \in tasks[t].paid}
  BY DEF Payers, Paid
<1> QED BY <1>1 DEF RefusalsAreFree

\* A charge taken back: its row exists, for the message has paid.
LEMMA RefundEffect ==
  ASSUME BudgetTypeOK, PaidSteps, RefusalsAreFree, NEW t \in Tasks,
         RefundHour(t) \/ RefundDay(t) \/ GiveHourBack(t)
  PROVE  PaidSteps' /\ \A w \in Windows : MovesOne(w, t)
<1>1. Sending(t)
  BY DEF RefundHour, RefundDay, GiveHourBack
<1>2. HourOf(t) \in Windows /\ DayOf(t) \in Windows /\ HourOf(t) # DayOf(t)
  BY <1>1, HourWindow
<1>3. ASSUME NEW from, NEW v \in Windows, NEW next \in SendSteps \cup {"idle"}, Refund(t, from, v, next),
             \/ from = "refundHour" /\ v = HourOf(t) /\ next = "idle"
             \/ from = "refundDay" /\ v = DayOf(t) /\ next = "giveBack"
             \/ from = "giveBack" /\ v = HourOf(t) /\ next = "idle"
      PROVE  PaidSteps' /\ \A w \in Windows : MovesOne(w, t)
  <2> DEFINE paid == tasks[t].paid \ {v}
  <2>1. tasks[t].at = from /\ Step(t, next, paid) /\ sent' = sent
        /\ counts' = [x \in DOMAIN counts |-> IF x = v THEN counts[x] - 1 ELSE counts[x]]
    BY <1>3 DEF Refund
  <2>2. paid \in SUBSET Windows
    BY <1>1, HourWindow
  <2>3. tasks[t].paid = (IF from = "refundDay" THEN {HourOf(t), DayOf(t)} ELSE {HourOf(t)})
        /\ Paid(t) = tasks[t].paid
    BY <1>1, <1>3, <2>1 DEF PaidSteps, Paid
  <2>4. paid = IF from = "refundDay" THEN {HourOf(t)} ELSE {}
    BY <1>2, <1>3, <2>3
  <2>5. Granted(t) = IF from = "refundHour" THEN {} ELSE {HourOf(t)}
    BY <1>3, <2>1 DEF Granted
  <2>6. /\ \A u \in Tasks \ {t} : tasks'[u] = tasks[u]
        /\ next = "idle" => tasks'[t] = NoTask /\ Paid(t)' = {} /\ Granted(t)' = {}
        /\ next # "idle" =>
              /\ Sending(t)' /\ tasks'[t].at = next /\ tasks'[t].paid = paid
              /\ HourOf(t)' = HourOf(t) /\ DayOf(t)' = DayOf(t)
              /\ Paid(t)' = paid
              /\ Granted(t)' = IF next \in {"day", "refundDay", "giveBack"} THEN {HourOf(t)}
                               ELSE IF next = "provider" THEN {HourOf(t), DayOf(t)} ELSE {}
    BY <1>1, <2>1, <2>2, After
  <2> HIDE DEF paid
  <2>7. Paid(t)' = paid /\ Granted(t)' = (IF from = "refundDay" THEN {HourOf(t)} ELSE {})
    BY <1>3, <2>4, <2>6
  <2>8. PaidSteps'
    <3>1. \A u \in Tasks \ {t} : Sending(u)' = Sending(u) /\ HourOf(u)' = HourOf(u) /\ DayOf(u)' = DayOf(u)
      BY <2>6 DEF Sending, HourOf, DayOf
    <3>2. CASE next = "idle"
      <4>1. ~Sending(t)'
        BY <2>6, <3>2 DEF NoTask, Sending, SendSteps
      <4> QED BY <2>6, <3>1, <4>1 DEF PaidSteps
    <3>3. CASE next = "giveBack"
      <4>1. tasks'[t].at = "giveBack" /\ tasks'[t].paid = {HourOf(t)} /\ HourOf(t)' = HourOf(t)
        BY <1>3, <2>4, <2>6, <3>3
      <4> QED BY <2>6, <3>1, <4>1 DEF PaidSteps
    <3> QED BY <1>3, <3>2, <3>3
  \* The row of the counter exists.
  <2>9. t \in Payers(v) /\ Cardinality(Payers(v)) > 0
    <3>1. t \in Payers(v)
      BY <1>3, <2>3 DEF Payers
    <3>2. IsFiniteSet(Payers(v)) /\ Payers(v) # {}
      BY <3>1, BudgetAssumption, FS_Subset DEF Payers
    <3>3. Cardinality(Payers(v)) \in Nat /\ Cardinality(Payers(v)) # 0
      BY <3>2, FS_EmptySet, FS_CardinalityType
    <3> QED BY <3>1, <3>3
  <2>10. v \in DOMAIN counts
    <3>1. Count(v) = sent[v] + Cardinality(Payers(v)) /\ sent[v] \in Nat
      BY FreePayers DEF BudgetTypeOK
    <3>2. Cardinality(Payers(v)) \in Nat
      BY BudgetAssumption, FS_Subset, FS_CardinalityType DEF Payers
    <3> QED BY <2>9, <3>1, <3>2 DEF Count
  <2>11. \A w \in Windows : Count(w) \in Int /\ Count(w)' = Count(w) - (IF w = v THEN 1 ELSE 0)
    <3>1. \A w \in Windows : Count(w) \in Int
      BY Counters
    <3>2. DOMAIN counts' = DOMAIN counts
          /\ \A w \in DOMAIN counts : counts'[w] = counts[w] - (IF w = v THEN 1 ELSE 0)
      BY <2>1 DEF BudgetTypeOK
    <3> QED BY <2>10, <3>1, <3>2 DEF Count
  <2>12. ASSUME NEW w \in Windows PROVE MovesOne(w, t)
    <3>1. /\ Payers(w)' \ {t} = Payers(w) \ {t} /\ Holders(w)' \ {t} = Holders(w) \ {t}
          /\ t \in Payers(w) <=> w \in Paid(t)
          /\ t \in Holders(w) <=> w \in Granted(t)
          /\ t \in Payers(w)' <=> w \in Paid(t)'
          /\ t \in Holders(w)' <=> w \in Granted(t)'
      BY <2>6, Others
    <3>2. sent[w] \in Nat /\ sent'[w] = sent[w]
      BY <2>1 DEF BudgetTypeOK
    <3>3. One(t \in Payers(w)') = One(t \in Payers(w)) - (IF w = v THEN 1 ELSE 0)
      BY <1>2, <1>3, <2>3, <2>4, <2>7, <3>1 DEF One
    <3>4. One(t \in Holders(w)') <= One(t \in Holders(w))
      BY <1>3, <2>5, <2>7, <3>1 DEF One
    <3>5. One(t \in Payers(w)) \in Int /\ One(t \in Holders(w)) \in Int /\ One(t \in Holders(w)') \in Int
      BY DEF One
    <3>6. Count(w)' - sent'[w] - One(t \in Payers(w)') = Count(w) - sent[w] - One(t \in Payers(w))
      BY <2>11, <3>2, <3>3, <3>5
    <3>7. sent'[w] + One(t \in Holders(w)') <= sent[w] + One(t \in Holders(w))
      BY <3>2, <3>4, <3>5
    <3> QED BY <3>1, <3>6, <3>7 DEF MovesOne
  <2> QED BY <2>8, <2>12
<1> QED BY <1>2, <1>3 DEF RefundHour, RefundDay, GiveHourBack, SendSteps

\* What was paid for is sent.
LEMMA DeliverEffect ==
  ASSUME BudgetTypeOK, PaidSteps, NEW t \in Tasks, Deliver(t)
  PROVE  PaidSteps' /\ \A w \in Windows : MovesOne(w, t)
<1>1. Sending(t) /\ tasks[t].at = "provider" /\ Step(t, "idle", {}) /\ counts' = counts
      /\ sent' = [w \in Windows |-> IF w \in tasks[t].paid THEN sent[w] + 1 ELSE sent[w]]
  BY DEF Deliver, Sending, SendSteps
<1>2. /\ \A u \in Tasks \ {t} : tasks'[u] = tasks[u]
      /\ tasks'[t] = NoTask /\ Paid(t)' = {} /\ Granted(t)' = {}
  BY <1>1, After
<1>3. Paid(t) = tasks[t].paid /\ Granted(t) = tasks[t].paid
  BY <1>1 DEF Paid, Granted, PaidSteps
<1>4. PaidSteps'
  <2>1. \A u \in Tasks \ {t} : Sending(u)' = Sending(u) /\ HourOf(u)' = HourOf(u) /\ DayOf(u)' = DayOf(u)
    BY <1>2 DEF Sending, HourOf, DayOf
  <2>2. ~Sending(t)'
    BY <1>2 DEF NoTask, Sending, SendSteps
  <2> QED BY <1>2, <2>1, <2>2 DEF PaidSteps
<1>5. ASSUME NEW w \in Windows PROVE MovesOne(w, t)
  <2>1. /\ Payers(w)' \ {t} = Payers(w) \ {t} /\ Holders(w)' \ {t} = Holders(w) \ {t}
        /\ t \in Payers(w) <=> w \in Paid(t)
        /\ t \in Holders(w) <=> w \in Granted(t)
        /\ t \in Payers(w)' <=> w \in Paid(t)'
        /\ t \in Holders(w)' <=> w \in Granted(t)'
    BY <1>2, Others
  <2>2. sent[w] \in Nat /\ sent'[w] = sent[w] + One(w \in tasks[t].paid)
    BY <1>1 DEF BudgetTypeOK, One
  <2>3. Count(w)' = Count(w) /\ Count(w) \in Int
    BY <1>1, Counters
  <2>4. /\ One(t \in Payers(w)) = One(w \in tasks[t].paid) /\ One(t \in Payers(w)') = 0
        /\ One(t \in Holders(w)) = One(w \in tasks[t].paid) /\ One(t \in Holders(w)') = 0
    BY <1>2, <1>3, <2>1 DEF One
  <2>5. One(w \in tasks[t].paid) \in Int
    BY DEF One
  <2>6. Count(w)' - sent'[w] - One(t \in Payers(w)') = Count(w) - sent[w] - One(t \in Payers(w))
    BY <2>2, <2>3, <2>4, <2>5
  <2>7. sent'[w] + One(t \in Holders(w)') <= sent[w] + One(t \in Holders(w))
    BY <2>2, <2>4, <2>5
  <2> QED BY <2>1, <2>6, <2>7 DEF MovesOne
<1> QED BY <1>4, <1>5

\* The other steps neither pay nor hold.
LEMMA OtherEffect ==
  ASSUME BudgetTypeOK, PaidSteps,
         \/ SettingsStep \/ NewHour \/ UNCHANGED smsVars
         \/ \E t \in Tasks, r \in Replicas : StartSend(t, r)
  PROVE  PaidSteps' /\ \A w \in Windows : Same(w)
<1>1. UNCHANGED <<counts, sent>>
  BY DEF SettingsStep, NewHour, smsVars, StartSend, budgetVars
<1>2. \A u \in Tasks : \/ tasks'[u] = tasks[u]
                       \/ ~Sending(u) /\ ~Sending(u)'
                       \/ ~Sending(u) /\ tasks'[u].at = "hour" /\ tasks'[u].paid = {}
  <2>t. DOMAIN tasks = Tasks
    BY DEF BudgetTypeOK
  <2>1. CASE NewHour \/ UNCHANGED smsVars
    BY <2>1 DEF NewHour, smsVars, settingsVars
  <2>2. ASSUME NEW t \in Tasks, NEW r \in Replicas, StartSend(t, r)
        PROVE  ~Sending(t) /\ tasks'[t].at = "hour" /\ tasks'[t].paid = {}
               /\ \A u \in Tasks \ {t} : tasks'[u] = tasks[u]
    BY <2>2, <2>t DEF StartSend, Sending, NoTask, SendSteps
  <2>3. ASSUME NEW t \in Tasks, NEW r \in Replicas, NEW values \in Values, StartWrite(t, r, values)
        PROVE  ~Sending(t) /\ ~Sending(t)' /\ \A u \in Tasks \ {t} : tasks'[u] = tasks[u]
    BY <2>3, <2>t DEF StartWrite, Sending, NoTask, SendSteps
  <2>4. ASSUME NEW t \in Tasks, WriteNothing(t) \/ Written(t)
        PROVE  ~Sending(t) /\ ~Sending(t)' /\ \A u \in Tasks \ {t} : tasks'[u] = tasks[u]
    BY <2>4, <2>t DEF WriteNothing, Written, Sending, NoTask, SendSteps
  <2>5. ASSUME NEW t \in Tasks, CommitWrite(t)
        PROVE  ~Sending(t) /\ ~Sending(t)' /\ \A u \in Tasks \ {t} : tasks'[u] = tasks[u]
    <3>1. tasks[t].at = "write" /\ tasks[t] \in WriteTasks /\ ~Sending(t)
      BY <2>5, Kinds DEF CommitWrite, Writing, Sending, SendSteps
    <3>2. tasks'[t].at \in {"written", "idle"}
      BY <2>5, <2>t, <3>1 DEF CommitWrite, NoTask, WriteTasks
    <3> QED BY <2>5, <2>t, <3>1, <3>2 DEF CommitWrite, Sending, SendSteps
  <2>6. ASSUME NEW r \in Replicas, PollStamp(r) \/ PollRead(r) \/ PollApply(r) \/ Restart(r)
        PROVE  tasks' = tasks
    BY <2>6 DEF PollStamp, PollRead, PollApply, Restart
  <2> QED BY <2>1, <2>2, <2>3, <2>4, <2>5, <2>6 DEF SettingsStep
<1>3. \A u \in Tasks : Paid(u)' = Paid(u) /\ Granted(u)' = Granted(u)
  BY <1>2 DEF Paid, Granted, Sending, SendSteps, HourOf, DayOf
<1>4. \A w \in Windows : Count(w)' = Count(w)
  BY <1>1, Counters
<1>5. PaidSteps'
  BY <1>2 DEF PaidSteps, Sending, SendSteps, HourOf, DayOf
<1> QED BY <1>1, <1>3, <1>4, <1>5 DEF Same, Payers, Holders

LEMMA CountedStep == NoZero /\ PaidCounted /\ [BudgetNext]_smsVars => PaidCounted'
<1> SUFFICES ASSUME NoZero, PaidCounted, [BudgetNext]_smsVars PROVE PaidCounted'
  OBVIOUS
<1>0. BudgetTypeOK /\ PaidSteps /\ RefusalsAreFree /\ HeldWithin /\ BudgetTypeOK'
  BY TypesStep DEF PaidCounted
<1>f. \A w \in Windows : Count(w) = sent[w] + Cardinality(Payers(w))
  BY <1>0, FreePayers
<1>1. PaidSteps' /\ \A w \in Windows : Same(w) \/ \E t \in Tasks : MovesOne(w, t)
  BY <1>0, ChargeEffect, RefundEffect, DeliverEffect, OtherEffect DEF BudgetNext
<1>2. ASSUME NEW w \in Windows
      PROVE  /\ Count(w)' = sent'[w] + Cardinality(Payers(w)')
             /\ \A m \in Limits : (\A x \in Limits : x <= m) =>
                   sent'[w] + Cardinality(Holders(w)') <= m
  <2>0. sent[w] \in Nat /\ sent'[w] \in Nat /\ Count(w) \in Int /\ Count(w)' \in Int /\ Limits \subseteq Nat
    <3>1. Count(w)' \in Int
      BY <1>0 DEF BudgetTypeOK, Count
    <3> QED BY <1>0, <3>1, Counters, SettingsAssumption DEF BudgetTypeOK
  <2>1. CASE Same(w)
    BY <1>0, <1>f, <2>1 DEF Same, HeldWithin
  <2>2. ASSUME NEW t \in Tasks, MovesOne(w, t)
        PROVE  /\ Count(w)' = sent'[w] + Cardinality(Payers(w)')
               /\ \A m \in Limits : (\A x \in Limits : x <= m) =>
                     sent'[w] + Cardinality(Holders(w)') <= m
    <3>1. Payers(w) \in SUBSET Tasks /\ Payers(w)' \in SUBSET Tasks
          /\ Holders(w) \in SUBSET Tasks /\ Holders(w)' \in SUBSET Tasks
      BY DEF Payers, Holders
    <3>2. /\ Cardinality(Payers(w)) \in Nat /\ Cardinality(Payers(w)') \in Nat
          /\ Cardinality(Payers(w)') = Cardinality(Payers(w)) + One(t \in Payers(w)') - One(t \in Payers(w))
      BY <2>2, <3>1, OneMoves DEF MovesOne
    <3>3. /\ Cardinality(Holders(w)) \in Nat /\ Cardinality(Holders(w)') \in Nat
          /\ Cardinality(Holders(w)') = Cardinality(Holders(w)) + One(t \in Holders(w)') - One(t \in Holders(w))
      BY <2>2, <3>1, OneMoves DEF MovesOne
    <3>4. /\ One(t \in Payers(w)) \in Int /\ One(t \in Payers(w)') \in Int
          /\ One(t \in Holders(w)) \in Int /\ One(t \in Holders(w)') \in Int
      BY DEF One
    <3>5. Count(w)' = sent'[w] + Cardinality(Payers(w)')
      BY <1>f, <2>0, <2>2, <3>2, <3>4 DEF MovesOne
    <3>6. Holders(w)' \subseteq Payers(w)'
      <4>1. \A u \in Tasks : Granted(u)' \subseteq Paid(u)'
        BY <1>1 DEF Granted, Paid, PaidSteps, Sending, SendSteps
      <4> QED BY <4>1 DEF Holders, Payers
    <3>7. Cardinality(Holders(w)') <= Cardinality(Payers(w)')
      BY <3>1, <3>6, BudgetAssumption, FS_Subset
    <3>8. ASSUME NEW m \in Limits, \A x \in Limits : x <= m
          PROVE  sent'[w] + Cardinality(Holders(w)') <= m
      <4>1. CASE sent'[w] + One(t \in Holders(w)') <= sent[w] + One(t \in Holders(w))
        <5>1. sent[w] + Cardinality(Holders(w)) <= m
          BY <1>0, <3>8 DEF HeldWithin
        <5> QED BY <2>0, <3>3, <3>4, <4>1, <5>1
      <4>2. ASSUME NEW limit \in Limits, Count(w)' <= limit
            PROVE  sent'[w] + Cardinality(Holders(w)') <= m
        BY <2>0, <3>2, <3>3, <3>5, <3>7, <3>8, <4>2
      <4> QED BY <2>2, <4>1, <4>2 DEF MovesOne
    <3> QED BY <3>5, <3>8
  <2> QED BY <1>1, <2>1, <2>2
<1>3. RefusalsAreFree'
  <2>1. \A w \in Windows : Payers(w)' = {t \in Tasks : Sending(t)' /\ w \in tasks'[t].paid}
    BY DEF Payers, Paid
  <2> QED BY <1>2, <2>1 DEF RefusalsAreFree
<1>4. HeldWithin'
  BY <1>2 DEF HeldWithin
<1> QED BY <1>0, <1>1, <1>3, <1>4 DEF PaidCounted

LEMMA InitCounted == BudgetInit => PaidCounted
<1> SUFFICES ASSUME BudgetInit PROVE PaidCounted
  OBVIOUS
<1>1. \A t \in Tasks : ~Sending(t) /\ Paid(t) = {} /\ Granted(t) = {}
  BY DEF BudgetInit, SettingsInit, NoTask, Paid, Granted, Sending, SendSteps
<1>2. \A w \in Windows : Payers(w) = {} /\ Holders(w) = {} /\ sent[w] = 0 /\ Count(w) = 0
  BY <1>1 DEF BudgetInit, Payers, Holders, Count
<1>3. RefusalsAreFree
  BY <1>2, FreePayers, FS_EmptySet
<1>4. HeldWithin
  BY <1>2, FS_EmptySet, SettingsAssumption DEF HeldWithin
<1> QED BY <1>1, <1>3, <1>4, InitTypes DEF PaidCounted, PaidSteps

\* While no limit is 0, a counter is the messages charged to it and those
\* whose fate is open: a refusal costs nothing and gives back only its own.
THEOREM RefusalsFree == ASSUME NoZero PROVE BudgetSpec => []RefusalsAreFree
<1>1. PaidCounted /\ [BudgetNext]_smsVars => PaidCounted'
  BY CountedStep
<1>2. PaidCounted => RefusalsAreFree
  BY DEF PaidCounted
<1> QED BY <1>1, <1>2, InitCounted, PTL DEF BudgetSpec

\* While no limit is 0, no hour and no day sees more messages than the
\* largest limit, for any senders on any replicas.
THEOREM WithinBudget == BudgetSpec => []BudgetHolds
<1>1. CASE NoZero
  <2>1. PaidCounted /\ [BudgetNext]_smsVars => PaidCounted'
    BY <1>1, CountedStep
  <2>2. PaidCounted => BudgetHolds
    <3> SUFFICES ASSUME PaidCounted, NEW w \in Windows PROVE sent[w] <= Max(Limits)
      BY DEF BudgetHolds
    <3>1. Max(Limits) \in Limits /\ \A x \in Limits : x <= Max(Limits)
      <4>1. PICK m \in Limits : \A x \in Limits : m >= x
        BY BudgetAssumption, SettingsAssumption
      <4>2. Max(Limits) \in Limits /\ \A x \in Limits : Max(Limits) >= x
        BY <4>1 DEF Max
      <4> QED BY <4>2, SettingsAssumption
    <3>2. sent[w] + Cardinality(Holders(w)) <= Max(Limits)
      BY <3>1 DEF PaidCounted, HeldWithin
    <3>3. Cardinality(Holders(w)) \in Nat /\ sent[w] \in Nat
      BY BudgetAssumption, FS_Subset, FS_CardinalityType DEF Holders, PaidCounted, BudgetTypeOK
    <3>4. Max(Limits) \in Int
      <4>1. \A m \in Limits : m \in Int
        BY SettingsAssumption
      <4> QED BY <3>1, <4>1, Zenon
    <3>5. \A a \in Nat, b \in Nat, m \in Int : a + b <= m => a <= m
      OBVIOUS
    <3> QED BY <3>2, <3>3, <3>4, <3>5
  <2> QED BY <2>1, <2>2, InitCounted, PTL DEF BudgetSpec
<1>2. CASE ~NoZero
  <2>1. BudgetHolds
    BY <1>2 DEF BudgetHolds, NoZero
  <2> QED BY <2>1, PTL
<1> QED BY <1>1, <1>2

=============================================================================

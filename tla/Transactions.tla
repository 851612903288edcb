--------------------------- MODULE Transactions ---------------------------
(***************************************************************************)
(* TransactionRunner.run over documents: every handler runs in a MongoDB   *)
(* transaction that reads one snapshot and whose writes take effect at     *)
(* commit, unless a document it writes was written by someone else since   *)
(* the snapshot; then the driver runs the handler again.  Documents that   *)
(* are only read protect nothing.                                          *)
(*                                                                         *)
(* db maps the name of a document to its content; a document that does not *)
(* exist has a content that says so.  (Bookings has the same transactions  *)
(* over a database whose slots share documents.)                           *)
(***************************************************************************)
EXTENDS Integers, FiniteSets

CONSTANTS Txns    \* concurrent transactions

VARIABLES
    db,      \* the committed documents
    open,    \* the transactions under way
    snap,    \* the snapshot of each
    work,    \* what each of them sees: its snapshot and its own writes
    dirty    \* the documents others have written since the snapshot

txVars == <<db, open, snap, work, dirty>>

NoDb == << >>

Changed(old, new) == {x \in DOMAIN new : old[x] # new[x]}

\* The handler of t has made no write yet.
AtStart(t) == t \in open /\ work[t] = snap[t]

TxInit(initial) ==
    /\ db = initial
    /\ open = {}
    /\ snap = [t \in Txns |-> NoDb]
    /\ work = [t \in Txns |-> NoDb]
    /\ dirty = [t \in Txns |-> {}]

Begin(t) ==
    /\ t \notin open
    /\ open' = open \cup {t}
    /\ snap' = [snap EXCEPT ![t] = db]
    /\ work' = [work EXCEPT ![t] = db]
    /\ UNCHANGED <<db, dirty>>

Close(t) ==
    /\ open' = open \ {t}
    /\ snap' = [snap EXCEPT ![t] = NoDb]
    /\ work' = [work EXCEPT ![t] = NoDb]

\* A write inside the transaction, which goes on.
Update(t, new) ==
    /\ t \in open
    /\ work' = [work EXCEPT ![t] = new]
    /\ UNCHANGED <<db, open, snap, dirty>>

\* t commits with `new` in sight; `touched` are documents it writes without
\* changing what is modelled of them.
Commit(t, new, touched) ==
    LET docs == Changed(snap[t], new) \cup touched
    IN /\ t \in open
       /\ docs \cap dirty[t] = {}
       /\ db' = [x \in DOMAIN db |-> IF x \in docs THEN new[x] ELSE db[x]]
       /\ dirty' = [u \in Txns |-> IF u \in open \ {t} THEN dirty[u] \cup docs ELSE {}]
       /\ Close(t)

\* It was refused, met a write conflict, or the process died.
Abort(t) ==
    /\ t \in open
    /\ dirty' = [dirty EXCEPT ![t] = {}]
    /\ UNCHANGED db
    /\ Close(t)

\* One write outside any transaction.
Write(x, content) ==
    /\ db' = [db EXCEPT ![x] = content]
    /\ dirty' = [t \in Txns |-> IF t \in open THEN dirty[t] \cup {x} ELSE {}]
    /\ UNCHANGED <<open, snap, work>>
=============================================================================

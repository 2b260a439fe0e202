----------------------------- MODULE AuditChain -----------------------------
(***************************************************************************)
(* The audit hash chain (backend/app/audit/service.py).                    *)
(*                                                                         *)
(* Every handler that changes something calls write_audit in its own       *)
(* transaction.  The row audit_chain_head carries the hash of the last     *)
(* event; the UPDATE of its version takes SQLite's write lock, and the     *)
(* refresh after it reads the hash the next event is chained to.  What a   *)
(* transaction wrote becomes visible to others when it commits.            *)
(* verify_chain reads the events back in the order of their timestamps.    *)
(*                                                                         *)
(* The material that is hashed holds the event's uuid, so the digest of an *)
(* event is identified with its id.  An event takes at least a microsecond *)
(* to write, so the clock moves on with every stamp, unless it is set      *)
(* back.  A transaction is used once.                                      *)
(***************************************************************************)
EXTENDS Naturals, Sequences

CONSTANTS
    Writers,        \* transactions that write audit events
    Ids,            \* event ids: uuids, compared by ORDER BY
    MaxBatch,       \* bound: events per transaction
    None            \* the empty hash, and "nobody"

ASSUME IdAssumption == Ids \subseteq Nat
ASSUME BatchAssumption == MaxBatch \in Nat
ASSUME NobodyAssumption == None \notin Ids \cup Writers

VARIABLES
    head,           \* audit_chain_head, as committed
    rows,           \* audit_events, as committed, in the order of insertion
    locker,         \* the transaction that holds the write lock
    clock,          \* datetime.now, in microseconds
    setBack,        \* history: the clock was set back
    tx              \* the transactions

vars == <<head, rows, locker, clock, setBack, tx>>

HeadRecord == [present : BOOLEAN, hash : Ids \cup {None}, version : Nat]

EventRecord == [id : Ids, created_at : Nat, previous : Ids \cup {None}]

Active == {"flushed", "found", "missing", "updated", "written"}

\* "head" is the transaction's own copy of the head row, "events" what it has inserted.
TxRecord ==
    [pc : {"idle", "done", "error"} \cup Active, head : HeadRecord, events : Seq(EventRecord)]

TypeOK ==
    /\ head \in HeadRecord
    /\ rows \in Seq(EventRecord)
    /\ locker \in Writers \cup {None}
    /\ clock \in Nat
    /\ setBack \in BOOLEAN
    /\ tx \in [Writers -> TxRecord]

NoHead == [present |-> FALSE, hash |-> None, version |-> 0]
NewHead == [present |-> TRUE, hash |-> None, version |-> 0]

\* The migration inserts the head; without it the first writer does.
Init ==
    /\ head \in {NoHead, NewHead}
    /\ rows = <<>>
    /\ locker = None
    /\ clock = 0
    /\ setBack = FALSE
    /\ tx = [w \in Writers |-> [pc |-> "idle", head |-> NoHead, events |-> <<>>]]

-----------------------------------------------------------------------------
Free(w) == locker \in {None, w}

\* What a statement of the transaction sees of the head row.
Visible(w) == IF locker = w THEN tx[w].head ELSE head

\* The handler flushes rows of its own before it writes the audit event.
Flush(w) ==
    /\ tx[w].pc = "idle"
    /\ locker = None
    /\ locker' = w
    /\ tx' = [tx EXCEPT ![w].pc = "flushed", ![w].head = head]
    /\ UNCHANGED <<head, rows, clock, setBack>>

GetHead(w) ==
    /\ tx[w].pc \in {"idle", "flushed"}
    /\ tx' = [tx EXCEPT ![w].head = head, ![w].pc = IF head.present THEN "found" ELSE "missing"]
    /\ UNCHANGED <<head, rows, locker, clock, setBack>>

\* Mutant: the version column has no default.
InsertHead_NoDefault(w) ==
    /\ tx[w].pc = "missing"
    /\ Free(w)
    /\ ~head.present
    /\ locker' = w
    /\ tx' = [tx EXCEPT ![w].pc = "found", ![w].head = [NewHead EXCEPT !.version = None]]
    /\ UNCHANGED <<head, rows, clock, setBack>>

InsertHead(w) ==
    /\ tx[w].pc = "missing"
    /\ Free(w)
    /\ ~head.present
    /\ locker' = w
    /\ tx' = [tx EXCEPT ![w].pc = "found", ![w].head = NewHead]
    /\ UNCHANGED <<head, rows, clock, setBack>>

\* Mutant: the new version is computed from the copy that was read before.
BumpVersion_FromCopy(w) ==
    /\ tx[w].pc = "found"
    /\ Free(w)
    /\ locker' = w
    /\ tx' = [tx EXCEPT ![w].pc = "updated",
                        ![w].head = [Visible(w) EXCEPT !.version = tx[w].head.version + 1]]
    /\ UNCHANGED <<head, rows, clock, setBack>>

\* The UPDATE, which waits for the write lock, and the refresh of the copy.
BumpVersion(w) ==
    /\ tx[w].pc = "found"
    /\ Free(w)
    /\ locker' = w
    /\ tx' = [tx EXCEPT ![w].pc = "updated",
                        ![w].head = [Visible(w) EXCEPT !.version = @ + 1]]
    /\ UNCHANGED <<head, rows, clock, setBack>>

Unused(id) ==
    /\ \A i \in 1..Len(rows) : rows[i].id # id
    /\ \A w \in Writers : \A i \in 1..Len(tx[w].events) : tx[w].events[i].id # id

\* Mutant: write_audit commits the event itself.
WriteEvent_Commits(w, id) ==
    /\ tx[w].pc = "updated"
    /\ Unused(id)
    /\ rows' = Append(rows, [id |-> id, created_at |-> clock, previous |-> tx[w].head.hash])
    /\ head' = [tx[w].head EXCEPT !.hash = id]
    /\ tx' = [tx EXCEPT ![w].pc = "written", ![w].head = head']
    /\ clock' = clock + 1
    /\ UNCHANGED <<locker, setBack>>

WriteEvent(w, id) ==
    LET event == [id |-> id, created_at |-> clock, previous |-> tx[w].head.hash]
    IN  /\ tx[w].pc = "updated"
        /\ Unused(id)
        /\ tx' = [tx EXCEPT ![w].pc = "written",
                            ![w].head.hash = id,
                            ![w].events = Append(@, event)]
        /\ clock' = clock + 1
        /\ UNCHANGED <<head, rows, locker, setBack>>

\* A further event in the same transaction finds the head in the session.
WriteAnother(w) ==
    /\ tx[w].pc = "written"
    /\ Len(tx[w].events) < MaxBatch
    /\ tx' = [tx EXCEPT ![w].pc = "found"]
    /\ UNCHANGED <<head, rows, locker, clock, setBack>>

Commit(w) ==
    /\ tx[w].pc = "written"
    /\ rows' = rows \o tx[w].events
    /\ head' = tx[w].head
    /\ locker' = None
    /\ tx' = [tx EXCEPT ![w].pc = "done"]
    /\ UNCHANGED <<clock, setBack>>

\* The head was inserted by somebody else (IntegrityError), the write lock was not free
\* within the busy timeout, the handler raised, or the process died.
Rollback(w) ==
    /\ tx[w].pc \in Active
    /\ tx' = [tx EXCEPT ![w].pc = "error"]
    /\ locker' = IF locker = w THEN None ELSE locker
    /\ UNCHANGED <<head, rows, clock, setBack>>

SetClockBack ==
    /\ clock' \in 0..(clock - 1)
    /\ setBack' = TRUE
    /\ UNCHANGED <<head, rows, locker, tx>>

Write(w) ==
    \/ Flush(w)
    \/ GetHead(w)
    \/ InsertHead(w)
    \/ BumpVersion(w)
    \/ \E id \in Ids : WriteEvent(w, id)
    \/ WriteAnother(w)
    \/ Commit(w)
    \/ Rollback(w)

Next ==
    \/ \E w \in Writers : Write(w)
    \/ SetClockBack

Spec == Init /\ [][Next]_vars

-----------------------------------------------------------------------------
(***************************************************************************)
(* verify_chain.  The loop carries the hash of the event before, in the    *)
(* order of created_at and id, and compares it with previous_hash; since   *)
(* it stops at the first difference, it passes if no event differs from    *)
(* its neighbour.                                                          *)
(***************************************************************************)
\* Mutant: ORDER BY id alone.
Before_ById(e, f) == e.id < f.id

Before(e, f) == e.created_at < f.created_at \/ (e.created_at = f.created_at /\ e.id < f.id)

Earlier(e) == {f \in {rows[i] : i \in 1..Len(rows)} : Before(f, e)}

\* The hash the loop carries when it reaches e.
Carried(e) ==
    IF Earlier(e) = {}
    THEN None
    ELSE (CHOOSE f \in Earlier(e) : \A g \in Earlier(e) : g = f \/ Before(g, f)).id

VerifyChain == \A i \in 1..Len(rows) : rows[i].previous = Carried(rows[i])

(***************************************************************************)
(* Properties                                                              *)
(***************************************************************************)
\* Concurrent writers never fork the chain: each event is chained to the one that was
\* committed, or written in the same transaction, right before it.  SerialSpec, which the
\* run checks, promises it too.
ChainLinear ==
    \A i \in 1..Len(rows) : rows[i].previous = IF i = 1 THEN None ELSE rows[i - 1].id

\* The head row is the end of the chain, and its version counts the events, whatever was
\* rolled back or ran into the insertion of the head by another writer.
HeadMatches ==
    /\ head.hash = IF rows = <<>> THEN None ELSE rows[Len(rows)].id
    /\ head.version = Len(rows)

\* verify_chain accepts what write_audit wrote: the events of concurrent transactions are
\* stamped in the order in which they are chained, unless the clock was set back.
VerifiesUnlessSetBack == setBack \/ VerifyChain

\* Concurrent transactions, statement by statement, come down to a serial log: each appends
\* all its events at its commit or, rolled back, none, and nothing is changed later.
Serial == INSTANCE SerialLog WITH log <- rows, done <- {w \in Writers : tx[w].pc = "done"}

SerialSpec == Serial!Spec

=============================================================================

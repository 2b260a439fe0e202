--------------------------- MODULE Records_proofs ---------------------------
(***************************************************************************)
(* Proofs about what the server keeps on record: the audit chain (module   *)
(* AuditChain), and settings, baselines and knowledge (module Records).    *)
(***************************************************************************)
EXTENDS AuditChain, Records, TLAPS

-----------------------------------------------------------------------------
(* The audit chain, for any writers, ids and batches.                      *)
(*                                                                         *)
(* The transaction that holds the write lock is the only one that can have *)
(* written events.  They continue the committed chain, and its copy of the *)
(* head is the end of that continuation; the others have seen nothing but  *)
(* that the head exists, so what they read before the lock does not count. *)

\* The events of s follow one another, and the first follows the hash h.
Linked(s, h) == \A i \in 1..Len(s) : s[i].previous = IF i = 1 THEN h ELSE s[i - 1].id

End(s, h) == IF s = <<>> THEN h ELSE s[Len(s)].id

\* A transaction without the write lock has written nothing.
Waiting(w) ==
    /\ tx[w].pc \notin {"flushed", "updated", "written"}
    /\ tx[w].pc \in {"idle", "found", "missing"} => tx[w].events = <<>>
    /\ tx[w].pc = "found" => head.present

\* The copy of the head that the transaction with the write lock goes by.
Continues(w) ==
    /\ tx[w].head.present
    /\ tx[w].head.hash = End(tx[w].events, head.hash)
    /\ tx[w].head.version =
         head.version + Len(tx[w].events) + IF tx[w].pc = "updated" THEN 1 ELSE 0

Holding(w) ==
    /\ tx[w].pc \in Active
    /\ Linked(tx[w].events, head.hash)
    /\ tx[w].pc \in {"flushed", "missing"} => tx[w].events = <<>>
    /\ tx[w].pc \in {"found", "updated", "written"} => Continues(w)

ChainInv ==
    /\ TypeOK
    /\ Linked(rows, None)
    /\ head.hash = End(rows, None)
    /\ head.version = Len(rows)
    /\ ~head.present => rows = <<>>
    /\ \A w \in Writers : IF locker = w THEN Holding(w) ELSE Waiting(w)

-----------------------------------------------------------------------------
(***************************************************************************)
(* Sequences of events                                                     *)
(***************************************************************************)
LEMMA AppendIs ==
    ASSUME NEW s \in Seq(EventRecord), NEW e \in EventRecord
    PROVE  /\ Append(s, e) # <<>> /\ Len(Append(s, e)) = Len(s) + 1
           /\ Append(s, e)[Len(Append(s, e))] = e
<1>1. Len(Append(s, e)) = Len(s) + 1 /\ Len(s) + 1 # 0 /\ Append(s, e)[Len(s) + 1] = e
  OBVIOUS
<1>2. Len(<<>>) = 0
  OBVIOUS
<1> QED
  BY <1>1, <1>2, Zenon

LEMMA AppendLinks ==
    ASSUME NEW s \in Seq(EventRecord), NEW h \in Ids \cup {None}, NEW e \in EventRecord,
           Linked(s, h), e.previous = End(s, h)
    PROVE  Linked(Append(s, e), h) /\ End(Append(s, e), h) = e.id
<1>1. End(Append(s, e), h) = e.id
  BY AppendIs, Zenon DEF End
<1>2. Linked(Append(s, e), h)
  BY DEF Linked, End
<1> QED
  BY <1>1, <1>2

LEMMA ConcatLinks ==
    ASSUME NEW r \in Seq(EventRecord), NEW s \in Seq(EventRecord), NEW h \in Ids \cup {None},
           Linked(r, h), Linked(s, End(r, h))
    PROVE  /\ Linked(r \o s, h)
           /\ End(r \o s, h) = End(s, End(r, h))
<1>1. /\ Len(r \o s) = Len(r) + Len(s)
      /\ r \o s \in Seq(EventRecord)
      /\ \A i \in 1..Len(r) : (r \o s)[i] = r[i]
      /\ \A i \in 1..Len(s) : (r \o s)[Len(r) + i] = s[i]
  OBVIOUS
<1>2. Linked(r \o s, h)
  <2> SUFFICES ASSUME NEW i \in 1..Len(r \o s)
               PROVE  (r \o s)[i].previous = IF i = 1 THEN h ELSE (r \o s)[i - 1].id
    BY DEF Linked
  <2>1. CASE i \in 1..Len(r)
    BY <1>1, <2>1 DEF Linked
  <2>2. CASE i \notin 1..Len(r)
    <3> DEFINE j == i - Len(r)
    <3>1. j \in 1..Len(s) /\ (r \o s)[i] = s[j]
      BY <1>1, <2>2
    <3>2. s[j].previous = IF j = 1 THEN End(r, h) ELSE s[j - 1].id
      BY <3>1 DEF Linked
    <3>3. CASE j = 1 /\ r = <<>>
      BY <3>1, <3>2, <3>3 DEF End
    <3>4. CASE j = 1 /\ r # <<>>
      <4>1. i - 1 = Len(r) /\ Len(r) \in 1..Len(r) /\ i # 1
        BY <3>4
      <4> QED
        BY <1>1, <3>1, <3>2, <3>4, <4>1 DEF End
    <3>5. CASE j # 1
      <4>1. j - 1 \in 1..Len(s) /\ i - 1 = Len(r) + (j - 1) /\ i # 1
        BY <3>1, <3>5
      <4> QED
        BY <1>1, <3>1, <3>2, <3>5, <4>1
    <3> QED
      BY <3>3, <3>4, <3>5
  <2> QED
    BY <2>1, <2>2
<1>3. End(r \o s, h) = End(s, End(r, h))
  <2>1. CASE s = <<>>
    BY <1>1, <2>1 DEF End
  <2>2. CASE s # <<>>
    BY <1>1, <2>2 DEF End
  <2> QED
    BY <2>1, <2>2
<1> QED
  BY <1>2, <1>3

-----------------------------------------------------------------------------
(***************************************************************************)
(* The steps.  What a transaction does changes its own record, and only a  *)
(* commit changes what the others see.                                     *)
(***************************************************************************)
\* A transaction that waits and does not move goes on waiting while the head exists.
LEMMA OthersKeep ==
    ASSUME NEW v \in Writers, tx'[v] = tx[v], Waiting(v), head.present => head'.present
    PROVE  Waiting(v)'
  BY DEF Waiting

LEMMA InitChain == Init => ChainInv
<1> SUFFICES ASSUME Init PROVE ChainInv
  OBVIOUS
<1>1. TypeOK
  <2>1. NoHead \in HeadRecord /\ NewHead \in HeadRecord
    BY DEF NoHead, NewHead, HeadRecord
  <2>2. [pc |-> "idle", head |-> NoHead, events |-> <<>>] \in TxRecord
    BY <2>1 DEF TxRecord
  <2>3. setBack \in BOOLEAN
    BY DEF Init
  <2>4. /\ head \in HeadRecord /\ rows \in Seq(EventRecord)
        /\ locker \in Writers \cup {None} /\ clock \in Nat
        /\ tx \in [Writers -> TxRecord]
    BY <2>1, <2>2 DEF Init
  <2> QED
    BY <2>3, <2>4 DEF TypeOK
<1>2. Linked(rows, None) /\ head.hash = End(rows, None) /\ head.version = Len(rows)
  BY DEF Init, Linked, End, NoHead, NewHead
<1>3. \A w \in Writers : locker # w /\ Waiting(w)
  BY NobodyAssumption DEF Init, Waiting
<1> QED
  BY <1>1, <1>2, <1>3 DEF Init, ChainInv

LEMMA FlushKeeps ==
    ASSUME ChainInv, NEW w \in Writers, Flush(w)
    PROVE  ChainInv'
<1> USE NobodyAssumption
<1>1. TypeOK'
  <2>1. TypeOK /\ tx[w] \in TxRecord /\ head \in HeadRecord
    BY DEF ChainInv, TypeOK
  <2>2. [tx[w] EXCEPT !.pc = "flushed", !.head = head] \in TxRecord
    BY <2>1 DEF TxRecord, Active
  <2>3. tx' = [tx EXCEPT ![w] = [tx[w] EXCEPT !.pc = "flushed", !.head = head]]
    BY DEF Flush
  <2>4. locker' = w /\ UNCHANGED <<head, rows, clock, setBack>>
    BY DEF Flush
  <2> QED
    BY <2>1, <2>2, <2>3, <2>4 DEF TypeOK
<1>2. Holding(w)'
  <2>1. tx[w].pc = "idle" /\ tx[w].events = <<>> /\ tx[w] \in TxRecord
    BY DEF ChainInv, Flush, Waiting, TypeOK
  <2>2. tx'[w].pc = "flushed" /\ tx'[w].events = <<>>
    BY <2>1 DEF ChainInv, Flush, TypeOK, TxRecord
  <2> QED
    BY <2>2 DEF Holding, Active, Linked
<1>3. \A v \in Writers : v # w => Waiting(v)'
  BY OthersKeep DEF ChainInv, Flush, TypeOK
<1> QED
  BY <1>1, <1>2, <1>3 DEF ChainInv, Flush

LEMMA GetHeadKeeps ==
    ASSUME ChainInv, NEW w \in Writers, GetHead(w)
    PROVE  ChainInv'
<1> USE NobodyAssumption
<1>1. TypeOK'
  <2>1. tx' \in [Writers -> TxRecord]
    BY DEF ChainInv, GetHead, TypeOK, TxRecord, Active
  <2> QED
    BY <2>1 DEF ChainInv, GetHead, TypeOK
<1>2. IF locker' = w THEN Holding(w)' ELSE Waiting(w)'
  <2>1. CASE locker = w
    <3>1. tx[w].events = <<>> /\ tx'[w].events = <<>> /\ tx'[w].head = head
      BY <2>1 DEF ChainInv, GetHead, Holding, TypeOK, TxRecord, Active
    <3>2. tx'[w].pc = IF head.present THEN "found" ELSE "missing"
      BY DEF ChainInv, GetHead, TypeOK, TxRecord
    <3> QED
      BY <2>1, <3>1, <3>2
      DEF ChainInv, GetHead, Holding, Continues, Linked, End, Active, TypeOK, HeadRecord
  <2>2. CASE locker # w
    <3>1. tx[w].pc = "idle"
      BY <2>2 DEF ChainInv, GetHead, Waiting
    <3> QED
      BY <2>2, <3>1 DEF ChainInv, GetHead, Waiting, TypeOK, TxRecord
  <2> QED
    BY <2>1, <2>2
<1>3. \A v \in Writers : v # w => IF locker' = v THEN Holding(v)' ELSE Waiting(v)'
  BY DEF ChainInv, GetHead, TypeOK, Holding, Waiting, Continues
<1> QED
  BY <1>1, <1>2, <1>3 DEF ChainInv, GetHead

LEMMA InsertHeadKeeps ==
    ASSUME ChainInv, NEW w \in Writers, InsertHead(w)
    PROVE  ChainInv'
<1> USE NobodyAssumption
<1>1. TypeOK'
  <2>1. NewHead \in HeadRecord
    BY DEF NewHead, HeadRecord
  <2> QED
    BY <2>1 DEF ChainInv, InsertHead, TypeOK, TxRecord, Active
<1>2. Holding(w)'
  <2>1. tx[w].events = <<>> /\ tx[w] \in TxRecord
    BY DEF ChainInv, InsertHead, Holding, Waiting, TypeOK
  <2>2. tx'[w].events = <<>> /\ tx'[w].pc = "found" /\ tx'[w].head = NewHead
    BY <2>1 DEF ChainInv, InsertHead, TypeOK, TxRecord
  <2>3. head.hash = None /\ head.version = 0 /\ head' = head
    BY DEF ChainInv, InsertHead, End
  <2> QED
    BY <2>2, <2>3 DEF Holding, Continues, Linked, End, Active, NewHead
<1>3. \A v \in Writers : v # w => Waiting(v)'
  BY OthersKeep DEF ChainInv, InsertHead, TypeOK, Free
<1> QED
  BY <1>1, <1>2, <1>3 DEF ChainInv, InsertHead

LEMMA BumpVersionKeeps ==
    ASSUME ChainInv, NEW w \in Writers, BumpVersion(w)
    PROVE  ChainInv'
<1> USE NobodyAssumption
<1> DEFINE seen == Visible(w)
           h == [seen EXCEPT !.version = @ + 1]
<1>1. tx[w] \in TxRecord /\ seen \in HeadRecord /\ head \in HeadRecord
  BY DEF ChainInv, TypeOK, Visible, TxRecord
<1>2. h \in HeadRecord /\ h.present = seen.present /\ h.hash = seen.hash
        /\ h.version = seen.version + 1
  BY <1>1 DEF HeadRecord
<1>3. tx' = [tx EXCEPT ![w] = [@ EXCEPT !.pc = "updated", !.head = h]]
  BY <1>1 DEF BumpVersion, ChainInv, TypeOK, TxRecord
<1> HIDE DEF h
<1>4. tx'[w].pc = "updated" /\ tx'[w].head = h /\ tx'[w].events = tx[w].events
  BY <1>1, <1>3 DEF ChainInv, TypeOK, TxRecord
<1>5. TypeOK'
  <2>1. [tx[w] EXCEPT !.pc = "updated", !.head = h] \in TxRecord
    BY <1>1, <1>2 DEF TxRecord, Active
  <2> QED
    BY <1>3, <2>1 DEF ChainInv, BumpVersion, TypeOK
<1>6. Holding(w)'
  <2>1. seen.present /\ seen.hash = End(tx[w].events, head.hash)
          /\ seen.version = head.version + Len(tx[w].events)
          /\ Linked(tx[w].events, head.hash)
    <3>1. CASE locker = w
      BY <3>1, <1>1
      DEF ChainInv, BumpVersion, Holding, Continues, Visible, TypeOK, TxRecord, HeadRecord
    <3>2. CASE locker # w
      BY <3>2, <1>1 DEF ChainInv, BumpVersion, Waiting, Visible, End, Linked, HeadRecord
    <3> QED
      BY <3>1, <3>2
  <2>2. head' = head /\ Len(tx[w].events) \in Nat /\ head.version \in Nat
    BY <1>1 DEF BumpVersion, TxRecord, HeadRecord
  <2> QED
    BY <1>2, <1>4, <2>1, <2>2 DEF Holding, Continues, Active
<1>7. \A v \in Writers : v # w => Waiting(v)'
  BY OthersKeep, <1>3 DEF ChainInv, BumpVersion, TypeOK, Free
<1> QED
  BY <1>5, <1>6, <1>7 DEF ChainInv, BumpVersion

LEMMA WriteEventKeeps ==
    ASSUME ChainInv, NEW w \in Writers, NEW id \in Ids, WriteEvent(w, id)
    PROVE  ChainInv'
<1> USE NobodyAssumption
<1> DEFINE event == [id |-> id, created_at |-> clock, previous |-> tx[w].head.hash]
           h == [tx[w].head EXCEPT !.hash = id]
           es == Append(tx[w].events, event)
<1>1. tx[w] \in TxRecord /\ head \in HeadRecord /\ event \in EventRecord
        /\ tx[w].pc = "updated" /\ locker = w /\ Holding(w)
  BY DEF ChainInv, TypeOK, WriteEvent, Waiting, TxRecord, HeadRecord, EventRecord
<1>2. h \in HeadRecord /\ h.present = tx[w].head.present /\ h.hash = id
        /\ h.version = tx[w].head.version
  BY <1>1 DEF TxRecord, HeadRecord
<1>3. es \in Seq(EventRecord) /\ Len(es) = Len(tx[w].events) + 1
  BY <1>1 DEF TxRecord
<1>4. tx' = [tx EXCEPT ![w] = [@ EXCEPT !.pc = "written", !.head = h, !.events = es]]
  BY <1>1 DEF WriteEvent, ChainInv, TypeOK, TxRecord
<1>5. Linked(es, head.hash) /\ End(es, head.hash) = id
  <2>1. event.previous = End(tx[w].events, head.hash) /\ Linked(tx[w].events, head.hash)
    BY <1>1 DEF Holding, Continues
  <2>2. event.id = id /\ head.hash \in Ids \cup {None} /\ tx[w].events \in Seq(EventRecord)
    BY <1>1 DEF HeadRecord, TxRecord
  <2> QED
    BY <1>1, <2>1, <2>2, AppendLinks
<1> HIDE DEF event, h, es
<1>6. tx'[w].pc = "written" /\ tx'[w].head = h /\ tx'[w].events = es
  BY <1>1, <1>4 DEF ChainInv, TypeOK, TxRecord
<1>7. TypeOK'
  <2>1. [tx[w] EXCEPT !.pc = "written", !.head = h, !.events = es] \in TxRecord
    BY <1>1, <1>2, <1>3 DEF TxRecord, Active
  <2>2. clock' \in Nat /\ UNCHANGED <<head, rows, locker, setBack>>
    BY DEF ChainInv, WriteEvent, TypeOK
  <2>3. tx' \in [Writers -> TxRecord]
    BY <1>4, <2>1 DEF ChainInv, TypeOK
  <2> QED
    BY <2>2, <2>3 DEF ChainInv, TypeOK
<1>8. Holding(w)'
  <2>1. h.present /\ h.version = head.version + Len(es) /\ head' = head
    BY <1>1, <1>2, <1>3 DEF Holding, Continues, WriteEvent, TxRecord, HeadRecord
  <2>2. h.version = head.version + Len(es) + 0
    BY <1>1, <1>3, <2>1 DEF HeadRecord
  <2> QED
    BY <1>2, <1>5, <1>6, <2>1, <2>2 DEF Holding, Continues, Active
<1>9. \A v \in Writers : v # w => Waiting(v)'
  BY OthersKeep, <1>1, <1>4 DEF ChainInv, WriteEvent, TypeOK
<1> QED
  BY <1>1, <1>7, <1>8, <1>9 DEF ChainInv, WriteEvent

LEMMA WriteAnotherKeeps ==
    ASSUME ChainInv, NEW w \in Writers, WriteAnother(w)
    PROVE  ChainInv'
<1> USE NobodyAssumption
<1>1. tx[w] \in TxRecord /\ locker = w /\ Holding(w)
  BY DEF ChainInv, TypeOK, WriteAnother, Waiting
<1>2. tx'[w].pc = "found" /\ tx'[w].head = tx[w].head /\ tx'[w].events = tx[w].events
  BY <1>1 DEF ChainInv, WriteAnother, TypeOK, TxRecord
<1>3. TypeOK'
  BY DEF ChainInv, WriteAnother, TypeOK, TxRecord, Active
<1>4. Holding(w)'
  BY <1>1, <1>2 DEF Holding, Continues, WriteAnother, Active
<1>5. \A v \in Writers : v # w => Waiting(v)'
  BY OthersKeep, <1>1 DEF ChainInv, WriteAnother, TypeOK
<1> QED
  BY <1>1, <1>3, <1>4, <1>5 DEF ChainInv, WriteAnother

LEMMA CommitKeeps ==
    ASSUME ChainInv, NEW w \in Writers, Commit(w)
    PROVE  ChainInv'
<1> USE NobodyAssumption
<1>1. tx[w] \in TxRecord /\ locker = w /\ Holding(w) /\ Continues(w) /\ tx[w].pc = "written"
  BY DEF ChainInv, TypeOK, Commit, Waiting, Holding
<1>2. TypeOK'
  <2>1. rows \o tx[w].events \in Seq(EventRecord) /\ tx[w].head \in HeadRecord
    BY <1>1 DEF ChainInv, TypeOK, TxRecord
  <2>2. [tx[w] EXCEPT !.pc = "done"] \in TxRecord
    BY <1>1 DEF TxRecord
  <2> QED
    BY <2>1, <2>2 DEF ChainInv, Commit, TypeOK
<1>3. Linked(rows', None) /\ head'.hash = End(rows', None)
  <2>1. rows \in Seq(EventRecord) /\ tx[w].events \in Seq(EventRecord)
    BY <1>1 DEF ChainInv, TypeOK, TxRecord
  <2>2. Linked(rows, None) /\ Linked(tx[w].events, End(rows, None))
    BY <1>1 DEF ChainInv, Holding
  <2>3. /\ Linked(rows \o tx[w].events, None)
        /\ End(rows \o tx[w].events, None) = End(tx[w].events, End(rows, None))
    BY <2>1, <2>2, ConcatLinks
  <2> QED
    BY <1>1, <2>3 DEF ChainInv, Commit, Continues
<1>4. head'.version = Len(rows') /\ head'.present
  <2>1. head.version \in Nat /\ tx[w].head.version = head.version + Len(tx[w].events) + 0
    BY <1>1 DEF Continues, ChainInv, TypeOK, HeadRecord
  <2> QED
    BY <1>1, <2>1 DEF ChainInv, Commit, Continues, TypeOK, TxRecord
<1>5. \A v \in Writers : v # w => Waiting(v)'
  BY OthersKeep, <1>1, <1>4 DEF ChainInv, Commit, TypeOK
<1>6. Waiting(w)'
  BY DEF Commit, Waiting, ChainInv, TypeOK, TxRecord
<1> QED
  BY <1>2, <1>3, <1>4, <1>5, <1>6 DEF ChainInv, Commit

LEMMA RollbackKeeps ==
    ASSUME ChainInv, NEW w \in Writers, Rollback(w)
    PROVE  ChainInv'
<1> USE NobodyAssumption
<1>1. TypeOK'
  BY DEF ChainInv, Rollback, TypeOK, TxRecord, Active
<1>2. Waiting(w)' /\ locker' # w
  BY DEF Rollback, Waiting, ChainInv, TypeOK, TxRecord
<1>3. \A v \in Writers : v # w => IF locker' = v THEN Holding(v)' ELSE Waiting(v)'
  <2> SUFFICES ASSUME NEW v \in Writers, v # w
               PROVE  IF locker' = v THEN Holding(v)' ELSE Waiting(v)'
    OBVIOUS
  <2>1. tx'[v] = tx[v] /\ head' = head /\ (locker' = v <=> locker = v)
    BY DEF ChainInv, Rollback, TypeOK
  <2>2. CASE locker = v
    BY <2>1, <2>2 DEF ChainInv, Holding, Continues
  <2>3. CASE locker # v
    BY <2>1, <2>3 DEF ChainInv, Waiting
  <2> QED
    BY <2>1, <2>2, <2>3
<1> QED
  BY <1>1, <1>2, <1>3 DEF ChainInv, Rollback

LEMMA QuietStepKeeps ==
    ASSUME ChainInv, SetClockBack \/ UNCHANGED vars
    PROVE  ChainInv'
<1>1. clock' \in Nat /\ UNCHANGED <<head, rows, locker, tx>>
  BY DEF ChainInv, TypeOK, SetClockBack, vars
<1>2. setBack' \in BOOLEAN
  BY Zenon DEF ChainInv, TypeOK, SetClockBack, vars
<1> QED
  BY <1>1, <1>2 DEF ChainInv, TypeOK, Holding, Waiting, Continues

THEOREM ChainInductive == Spec => []ChainInv
<1>1. ChainInv /\ [Next]_vars => ChainInv'
  BY FlushKeeps, GetHeadKeeps, InsertHeadKeeps, BumpVersionKeeps, WriteEventKeeps,
     WriteAnotherKeeps, CommitKeeps, RollbackKeeps, QuietStepKeeps DEF Next, Write
<1> QED
  BY <1>1, InitChain, PTL DEF Spec

\* Whoever writes, rolls back or dies, and whatever the clock does: every committed event is
\* chained to the one before it (write_audit reads the hash after it has the write lock).
THEOREM ChainLinearHolds == Spec => []ChainLinear
<1>1. ChainInv => ChainLinear
  BY DEF ChainInv, Linked, ChainLinear
<1> QED
  BY <1>1, ChainInductive, PTL

\* The committed head is the end of the chain and counts its events.
THEOREM HeadMatchesHolds == Spec => []HeadMatches
<1>1. ChainInv => HeadMatches
  BY DEF ChainInv, End, HeadMatches
<1> QED
  BY <1>1, ChainInductive, PTL

-----------------------------------------------------------------------------
(***************************************************************************)
(* Time.  The stamp is taken while the write lock is held, so the events   *)
(* of a transaction are younger than every committed one.                  *)
(***************************************************************************)
\* The stamps of s rise, between the times low (included) and high (excluded).
Rising(s, low, high) ==
    /\ \A i \in 1..Len(s) : low <= s[i].created_at /\ s[i].created_at < high
    /\ \A i, j \in 1..Len(s) : i < j => s[i].created_at < s[j].created_at

Newest(s) == IF s = <<>> THEN 0 ELSE s[Len(s)].created_at + 1

StampInv ==
    /\ Rising(rows, 0, Newest(rows))
    /\ Newest(rows) <= clock
    /\ \A w \in Writers : locker = w => Rising(tx[w].events, Newest(rows), clock)

LEMMA StampsAreNat ==
    ASSUME NEW s \in Seq(EventRecord)
    PROVE  \A i \in 1..Len(s) : s[i].created_at \in Nat
<1>1. \A i \in 1..Len(s) : s[i] \in EventRecord
  OBVIOUS
<1> QED
  BY <1>1 DEF EventRecord

LEMMA AppendRises ==
    ASSUME NEW s \in Seq(EventRecord), NEW low \in Nat, NEW high \in Nat, low <= high,
           NEW e \in EventRecord, Rising(s, low, high), e.created_at = high
    PROVE  Rising(Append(s, e), low, high + 1)
<1>1. \A i \in 1..Len(s) : s[i].created_at \in Nat
  BY StampsAreNat
<1> QED
  BY <1>1 DEF Rising

LEMMA NewestIsNat ==
    ASSUME NEW s \in Seq(EventRecord)
    PROVE  Newest(s) \in Nat
<1>1. s # <<>> => s[Len(s)] \in EventRecord
  OBVIOUS
<1> QED
  BY <1>1 DEF Newest, EventRecord

LEMMA ConcatRises ==
    ASSUME NEW r \in Seq(EventRecord), NEW s \in Seq(EventRecord), NEW high \in Nat,
           Rising(r, 0, Newest(r)), Rising(s, Newest(r), high), Newest(r) <= high
    PROVE  Rising(r \o s, 0, Newest(r \o s)) /\ Newest(r \o s) <= high
<1> DEFINE t == r \o s
<1>1. /\ Len(t) = Len(r) + Len(s) /\ Len(r) \in Nat /\ Len(s) \in Nat
      /\ t \in Seq(EventRecord)
      /\ \A i \in 1..Len(r) : t[i] = r[i]
      /\ \A i \in 1..Len(t) : i \notin 1..Len(r) =>
            i - Len(r) \in 1..Len(s) /\ t[i] = s[i - Len(r)]
  OBVIOUS
<1>2. \A i \in 1..Len(t) : t[i].created_at \in Nat
  BY <1>1, StampsAreNat
<1> HIDE DEF t
<1>3. \A i \in 1..Len(t) : t[i].created_at < high
  <2> SUFFICES ASSUME NEW i \in 1..Len(t) PROVE t[i].created_at < high
    OBVIOUS
  <2>1. CASE i \in 1..Len(r)
    <3>1. t[i].created_at < Newest(r)
      BY <1>1, <2>1 DEF Rising
    <3> QED
      BY <1>2, <3>1, NewestIsNat
  <2>2. CASE i \notin 1..Len(r)
    BY <1>1, <2>2 DEF Rising
  <2> QED
    BY <2>1, <2>2
<1>4. \A i, j \in 1..Len(t) : i < j => t[i].created_at < t[j].created_at
  <2> SUFFICES ASSUME NEW i \in 1..Len(t), NEW j \in 1..Len(t), i < j
               PROVE  t[i].created_at < t[j].created_at
    OBVIOUS
  <2>1. CASE j \in 1..Len(r)
    <3>1. i \in 1..Len(r) /\ t[i] = r[i] /\ t[j] = r[j]
      BY <1>1, <2>1
    <3> QED
      BY <2>1, <3>1 DEF Rising
  <2>2. CASE i \in 1..Len(r) /\ j \notin 1..Len(r)
    <3>1. t[i].created_at < Newest(r)
      BY <1>1, <2>2 DEF Rising
    <3>2. Newest(r) <= t[j].created_at
      BY <1>1, <2>2 DEF Rising
    <3> QED
      BY <3>1, <3>2, <1>2, NewestIsNat
  <2>3. CASE i \notin 1..Len(r)
    <3>1. j \notin 1..Len(r) /\ i - Len(r) < j - Len(r)
      BY <1>1, <2>3
    <3> QED
      BY <1>1, <2>3, <3>1 DEF Rising
  <2> QED
    BY <2>1, <2>2, <2>3
<1>5. Rising(t, 0, Newest(t)) /\ Newest(t) <= high
  <2>1. CASE t = <<>>
    BY <2>1 DEF Rising, Newest
  <2>2. CASE t # <<>>
    <3>1. Len(t) \in 1..Len(t) /\ Newest(t) = t[Len(t)].created_at + 1
      BY <1>1, <2>2 DEF Newest
    <3>2. ASSUME NEW i \in 1..Len(t)
          PROVE  0 <= t[i].created_at /\ t[i].created_at < Newest(t)
      <4>0. i = Len(t) \/ i < Len(t)
        <5>1. Len(t) \in Nat
          BY <1>1
        <5> QED
          BY <5>1
      <4>1. i = Len(t) \/ t[i].created_at < t[Len(t)].created_at
        BY <1>4, <3>1, <4>0, Zenon
      <4>2. t[i].created_at \in Nat /\ t[Len(t)].created_at \in Nat
        BY <1>2, <3>1
      <4>3. \A x, y \in Nat : x = y \/ x < y => 0 <= x /\ x < y + 1
        OBVIOUS
      <4>4. t[i].created_at = t[Len(t)].created_at \/ t[i].created_at < t[Len(t)].created_at
        BY <4>1
      <4> QED
        BY <3>1, <4>2, <4>3, <4>4, Zenon
    <3> QED
      BY <1>2, <1>3, <1>4, <3>1, <3>2 DEF Rising
  <2> QED
    BY <2>1, <2>2
<1> QED
  BY <1>5 DEF t

\* Steps that write no event and leave the rows and the clock alone.
LEMMA NoEventKeeps ==
    ASSUME ChainInv, StampInv, UNCHANGED <<rows, clock>>,
           \A v \in Writers : locker' = v =>
               \/ tx'[v].events = <<>>
               \/ locker = v /\ tx'[v].events = tx[v].events
    PROVE  StampInv'
<1> SUFFICES ASSUME NEW v \in Writers, locker' = v
             PROVE  Rising(tx'[v].events, Newest(rows), clock)
  BY DEF StampInv
<1>1. CASE tx'[v].events = <<>>
  BY <1>1 DEF Rising
<1>2. CASE locker = v /\ tx'[v].events = tx[v].events
  BY <1>2 DEF StampInv
<1> QED
  BY <1>1, <1>2

LEMMA StampsKept ==
    ASSUME ChainInv, StampInv, [Next]_vars, ~setBack'
    PROVE  StampInv'
<1> USE NobodyAssumption
<1>1. ASSUME NEW w \in Writers, Flush(w) PROVE StampInv'
  <2>1. tx'[w].events = <<>> /\ locker' = w /\ UNCHANGED <<rows, clock>>
    BY <1>1 DEF ChainInv, Flush, Waiting, TypeOK, TxRecord
  <2> QED
    BY <2>1, NoEventKeeps
<1>2. ASSUME NEW w \in Writers, GetHead(w) PROVE StampInv'
  <2>1. \A v \in Writers : tx'[v].events = tx[v].events
    BY <1>2 DEF ChainInv, GetHead, TypeOK, TxRecord
  <2> QED
    BY <1>2, <2>1, NoEventKeeps DEF GetHead
<1>3. ASSUME NEW w \in Writers, InsertHead(w) PROVE StampInv'
  <2>1. tx'[w].events = <<>> /\ locker' = w /\ UNCHANGED <<rows, clock>>
    BY <1>3 DEF ChainInv, InsertHead, Waiting, Holding, TypeOK, TxRecord
  <2> QED
    BY <2>1, NoEventKeeps
<1>4. ASSUME NEW w \in Writers, BumpVersion(w) PROVE StampInv'
  <2>1. tx'[w].events = tx[w].events /\ locker' = w /\ UNCHANGED <<rows, clock>>
    BY <1>4 DEF ChainInv, BumpVersion, TypeOK, TxRecord
  <2>2. locker = w \/ tx[w].events = <<>>
    BY <1>4 DEF ChainInv, BumpVersion, Waiting
  <2> QED
    BY <2>1, <2>2, NoEventKeeps
<1>5. ASSUME NEW w \in Writers, NEW id \in Ids, WriteEvent(w, id) PROVE StampInv'
  <2> DEFINE event == [id |-> id, created_at |-> clock, previous |-> tx[w].head.hash]
  <2>1. /\ locker = w /\ locker' = w /\ rows' = rows
        /\ clock \in Nat /\ clock' = clock + 1
    BY <1>5 DEF ChainInv, TypeOK, WriteEvent, Waiting
  <2>2. tx[w].events \in Seq(EventRecord) /\ event \in EventRecord
          /\ tx'[w].events = Append(tx[w].events, event)
    BY <1>5 DEF ChainInv, TypeOK, WriteEvent, TxRecord, HeadRecord, EventRecord
  <2>3. Newest(rows) \in Nat /\ Newest(rows) <= clock
    BY NewestIsNat DEF ChainInv, TypeOK, StampInv
  <2>4. Rising(tx'[w].events, Newest(rows), clock + 1)
    BY <2>1, <2>2, <2>3, AppendRises DEF StampInv
  <2> QED
    BY <2>1, <2>3, <2>4 DEF StampInv
<1>6. ASSUME NEW w \in Writers, WriteAnother(w) PROVE StampInv'
  <2>1. \A v \in Writers : tx'[v].events = tx[v].events
    BY <1>6 DEF ChainInv, WriteAnother, TypeOK, TxRecord
  <2> QED
    BY <1>6, <2>1, NoEventKeeps DEF WriteAnother
<1>7. ASSUME NEW w \in Writers, Commit(w) PROVE StampInv'
  <2>1. locker = w /\ locker' = None /\ rows' = rows \o tx[w].events /\ clock' = clock
    BY <1>7 DEF ChainInv, Commit, Waiting
  <2>2. rows \in Seq(EventRecord) /\ tx[w].events \in Seq(EventRecord) /\ clock \in Nat
    BY DEF ChainInv, TypeOK, TxRecord
  <2>3. Rising(rows', 0, Newest(rows')) /\ Newest(rows') <= clock
    BY <2>1, <2>2, ConcatRises DEF StampInv
  <2> QED
    BY <2>1, <2>3 DEF StampInv
<1>8. ASSUME NEW w \in Writers, Rollback(w) PROVE StampInv'
  <2>1. \A v \in Writers : locker' = v => locker = v /\ tx'[v].events = tx[v].events
    BY <1>8 DEF ChainInv, Rollback, TypeOK, TxRecord
  <2> QED
    BY <1>8, <2>1, NoEventKeeps DEF Rollback
<1>9. ~SetClockBack
  BY DEF SetClockBack
<1>10. ASSUME UNCHANGED vars PROVE StampInv'
  BY <1>10, NoEventKeeps DEF vars
<1> QED
  BY <1>1, <1>2, <1>3, <1>4, <1>5, <1>6, <1>7, <1>8, <1>9, <1>10 DEF Next, Write

\* In rows that are linked and whose stamps rise, the loop carries the id of the row before.
LEMMA RisingVerifies ==
    ASSUME ChainInv, StampInv
    PROVE  VerifyChain
<1>1. /\ rows \in Seq(EventRecord)
      /\ \A i \in 1..Len(rows) : rows[i].created_at \in Nat
      /\ \A i, j \in 1..Len(rows) : i < j => rows[i].created_at < rows[j].created_at
  BY StampsAreNat DEF ChainInv, TypeOK, StampInv, Rising
<1>2. \A i, j \in 1..Len(rows) : Before(rows[j], rows[i]) <=> j < i
  <2> SUFFICES ASSUME NEW i \in 1..Len(rows), NEW j \in 1..Len(rows)
               PROVE  Before(rows[j], rows[i]) <=> j < i
    OBVIOUS
  <2>1. rows[i] \in EventRecord
    BY <1>1
  <2>2. rows[i].id \in Nat
    BY <2>1, IdAssumption DEF EventRecord
  <2>3. CASE i = j
    BY <1>1, <2>2, <2>3 DEF Before
  <2>4. CASE i < j
    BY <1>1, <2>4 DEF Before
  <2>5. CASE j < i
    BY <1>1, <2>5 DEF Before
  <2> QED
    BY <2>3, <2>4, <2>5
<1> SUFFICES ASSUME NEW i \in 1..Len(rows) PROVE rows[i].previous = Carried(rows[i])
  BY DEF VerifyChain
<1>3. Earlier(rows[i]) = {rows[j] : j \in 1..(i - 1)}
  <2>1. \A f \in Earlier(rows[i]) : \E j \in 1..(i - 1) : f = rows[j]
    BY <1>1, <1>2 DEF Earlier
  <2>2. \A j \in 1..(i - 1) : rows[j] \in Earlier(rows[i])
    <3> TAKE j \in 1..(i - 1)
    <3>1. j \in 1..Len(rows) /\ j < i
      BY <1>1
    <3> QED
      BY <1>2, <3>1 DEF Earlier
  <2> QED
    BY <2>1, <2>2
<1>4. CASE i = 1
  <2>1. Earlier(rows[i]) = {}
    BY <1>3, <1>4
  <2> QED
    BY <1>4, <2>1 DEF Carried, ChainInv, Linked
<1>5. CASE i # 1
  <2> DEFINE Last(f) ==
               f \in Earlier(rows[i]) /\ \A g \in Earlier(rows[i]) : g = f \/ Before(g, f)
             p == i - 1
  <2>1. p \in 1..(i - 1) /\ p \in 1..Len(rows) /\ Earlier(rows[i]) # {}
    BY <1>1, <1>3, <1>5
  <2>2. Last(rows[p])
    <3> SUFFICES ASSUME NEW j \in 1..(i - 1)
                 PROVE  rows[j] = rows[p] \/ Before(rows[j], rows[p])
      BY <1>3, <2>1
    <3>1. j \in 1..Len(rows) /\ (j = p \/ j < p)
      BY <1>1
    <3> QED
      BY <1>2, <2>1, <3>1
  <2>3. ASSUME NEW f, Last(f) PROVE f = rows[p]
    <3>1. PICK j \in 1..(i - 1) : f = rows[j]
      BY <1>3, <2>3
    <3>2. rows[p] = f \/ Before(rows[p], f)
      BY <1>3, <2>1, <2>3
    <3>3. j \in 1..Len(rows) /\ ~(p < j)
      BY <1>1
    <3> QED
      BY <1>2, <2>1, <3>1, <3>2, <3>3
  <2> HIDE DEF p
  <2>4. Carried(rows[i]) = (CHOOSE f \in Earlier(rows[i]) :
                              \A g \in Earlier(rows[i]) : g = f \/ Before(g, f)).id
    BY <2>1 DEF Carried
  <2>5. (CHOOSE f \in Earlier(rows[i]) :
           \A g \in Earlier(rows[i]) : g = f \/ Before(g, f)) = rows[p]
    BY <2>2, <2>3
  <2>6. rows[i].previous = rows[p].id
    BY <1>5 DEF ChainInv, Linked, p
  <2> QED
    BY <2>4, <2>5, <2>6
<1> QED
  BY <1>4, <1>5

\* While the clock was not set back, verify_chain accepts whatever concurrent calls of
\* write_audit have left behind.
THEOREM VerifiesUnlessSetBackHolds == Spec => []VerifiesUnlessSetBack
<1>1. Init => setBack \/ StampInv
  BY NobodyAssumption DEF Init, StampInv, Rising, Newest
<1>2. ChainInv /\ (setBack \/ StampInv) /\ [Next]_vars => (setBack \/ StampInv)'
  <2>1. ASSUME setBack, [Next]_vars PROVE setBack'
    BY <2>1 DEF Next, Write, Flush, GetHead, InsertHead, BumpVersion, WriteEvent,
                WriteAnother, Commit, Rollback, SetClockBack, vars
  <2> QED
    BY <2>1, StampsKept
<1>3. ChainInv /\ (setBack \/ StampInv) => VerifiesUnlessSetBack
  BY RisingVerifies DEF VerifiesUnlessSetBack
<1> QED
  BY <1>1, <1>2, <1>3, ChainInductive, PTL DEF Spec

\* The variables keep their types; the write lock belongs to a transaction that may write.
THEOREM ChainTypeCorrect == Spec => []TypeOK
<1>1. ChainInv => TypeOK
  BY DEF ChainInv
<1> QED
  BY <1>1, ChainInductive, PTL

-----------------------------------------------------------------------------
(***************************************************************************)
(* The serial log.  The rows and what the holder of the lock will add to   *)
(* them have ids of their own.                                             *)
(***************************************************************************)
Distinct(s) == \A i, j \in 1..Len(s) : i < j => s[i].id # s[j].id

FreshInv ==
    /\ Distinct(rows)
    /\ \A w \in Writers : locker = w => Distinct(rows \o tx[w].events)
    /\ \A w \in Writers : tx[w].pc = "written" => tx[w].events # <<>>

LEMMA ConcatAppend ==
    ASSUME NEW r \in Seq(EventRecord), NEW s \in Seq(EventRecord), NEW e \in EventRecord
    PROVE  r \o Append(s, e) = Append(r \o s, e)
  OBVIOUS

LEMMA AppendDistinct ==
    ASSUME NEW s \in Seq(EventRecord), NEW e \in EventRecord, Distinct(s),
           \A i \in 1..Len(s) : s[i].id # e.id
    PROVE  Distinct(Append(s, e))
<1>1. /\ Len(Append(s, e)) = Len(s) + 1 /\ Len(s) \in Nat /\ Append(s, e)[Len(s) + 1] = e
      /\ \A i \in 1..Len(s) : Append(s, e)[i] = s[i]
  OBVIOUS
<1>2. ASSUME NEW i \in 1..Len(Append(s, e)), NEW j \in 1..Len(Append(s, e)), i < j
      PROVE  Append(s, e)[i].id # Append(s, e)[j].id
  <2>1. i \in 1..Len(s) /\ (j \in 1..Len(s) \/ j = Len(s) + 1)
    BY <1>1, <1>2
  <2> QED
    BY <1>1, <1>2, <2>1 DEF Distinct
<1> QED
  BY <1>2 DEF Distinct

\* Steps that write no event and leave the rows alone.
LEMMA NoEventKeepsFresh ==
    ASSUME ChainInv, FreshInv, rows' = rows,
           \A v \in Writers : locker' = v =>
               \/ tx'[v].events = <<>>
               \/ locker = v /\ tx'[v].events = tx[v].events,
           \A v \in Writers : tx'[v].pc = "written" => tx[v].pc = "written" /\ tx'[v].events = tx[v].events
    PROVE  FreshInv'
<1>1. ASSUME NEW v \in Writers, locker' = v PROVE Distinct(rows \o tx'[v].events)
  <2>1. CASE tx'[v].events = <<>>
    <3>1. rows \o <<>> = rows
      BY DEF ChainInv, TypeOK
    <3> QED
      BY <2>1, <3>1 DEF FreshInv
  <2>2. CASE locker = v /\ tx'[v].events = tx[v].events
    BY <2>2 DEF FreshInv
  <2> QED
    BY <1>1, <2>1, <2>2
<1> QED
  BY <1>1 DEF FreshInv

LEMMA FreshKept == ChainInv /\ FreshInv /\ [Next]_vars => FreshInv'
<1> SUFFICES ASSUME ChainInv, FreshInv, [Next]_vars PROVE FreshInv'
  OBVIOUS
<1> USE NobodyAssumption
<1>0. tx \in [Writers -> TxRecord] /\ \A v \in Writers : tx[v] \in TxRecord /\ tx[v].events \in Seq(EventRecord)
  BY DEF ChainInv, TypeOK, TxRecord
<1>1. ASSUME NEW w \in Writers, Flush(w) PROVE FreshInv'
  <2>1. /\ tx'[w].events = <<>> /\ tx'[w].pc = "flushed" /\ locker' = w /\ rows' = rows
        /\ \A v \in Writers \ {w} : tx'[v] = tx[v]
    BY <1>1 DEF ChainInv, Flush, Waiting, TypeOK, TxRecord
  <2> QED
    BY <2>1, NoEventKeepsFresh
<1>2. ASSUME NEW w \in Writers, GetHead(w) PROVE FreshInv'
  <2>1. /\ rows' = rows /\ locker' = locker
        /\ \A v \in Writers : tx'[v].events = tx[v].events /\ (tx'[v].pc = "written" => tx[v].pc = "written")
    BY <1>0, <1>2 DEF GetHead, TxRecord
  <2> QED
    BY <2>1, NoEventKeepsFresh
<1>3. ASSUME NEW w \in Writers, InsertHead(w) PROVE FreshInv'
  <2>1. /\ tx'[w].events = <<>> /\ tx'[w].pc = "found" /\ locker' = w /\ rows' = rows
        /\ \A v \in Writers \ {w} : tx'[v] = tx[v]
    BY <1>3 DEF ChainInv, InsertHead, Waiting, Holding, TypeOK, TxRecord
  <2> QED
    BY <2>1, NoEventKeepsFresh
<1>4. ASSUME NEW w \in Writers, BumpVersion(w) PROVE FreshInv'
  <2>1. /\ tx'[w].events = tx[w].events /\ tx'[w].pc = "updated" /\ locker' = w /\ rows' = rows
        /\ \A v \in Writers \ {w} : tx'[v] = tx[v]
    BY <1>0, <1>4 DEF BumpVersion, TxRecord
  <2>2. locker = w \/ tx[w].events = <<>>
    BY <1>4 DEF ChainInv, BumpVersion, Waiting
  <2> QED
    BY <2>1, <2>2, NoEventKeepsFresh
<1>5. ASSUME NEW w \in Writers, NEW id \in Ids, WriteEvent(w, id) PROVE FreshInv'
  <2> DEFINE event == [id |-> id, created_at |-> clock, previous |-> tx[w].head.hash]
             es == tx[w].events
  <2>1. /\ locker = w /\ locker' = w /\ rows' = rows /\ rows \in Seq(EventRecord)
        /\ es \in Seq(EventRecord) /\ event \in EventRecord /\ event.id = id
    BY <1>0, <1>5 DEF ChainInv, TypeOK, WriteEvent, Waiting, TxRecord, HeadRecord, EventRecord
  <2>2. /\ tx'[w].events = Append(es, event) /\ tx'[w].pc = "written"
        /\ \A v \in Writers \ {w} : tx'[v] = tx[v]
    BY <1>0, <1>5 DEF WriteEvent, TxRecord
  <2>3. /\ \A i \in 1..Len(rows) : rows[i].id # id
        /\ \A i \in 1..Len(es) : es[i].id # id
    BY <1>5 DEF WriteEvent, Unused
  <2> HIDE DEF event, es
  <2>4. /\ rows \o es \in Seq(EventRecord) /\ rows \o Append(es, event) = Append(rows \o es, event)
        /\ \A i \in 1..Len(rows \o es) : (rows \o es)[i].id # id
        /\ Append(es, event) # <<>>
    <3>1. \A i \in 1..Len(rows \o es) :
            \/ i \in 1..Len(rows) /\ (rows \o es)[i] = rows[i]
            \/ i - Len(rows) \in 1..Len(es) /\ (rows \o es)[i] = es[i - Len(rows)]
      BY <2>1
    <3>2. \A i \in 1..Len(rows \o es) : (rows \o es)[i].id # id
      BY <2>3, <3>1
    <3>3. rows \o es \in Seq(EventRecord)
      BY <2>1
    <3>5. Append(es, event) # <<>>
      BY <2>1, AppendIs
    <3>4. rows \o Append(es, event) = Append(rows \o es, event)
      BY <2>1, ConcatAppend
    <3> QED
      BY <3>2, <3>3, <3>4, <3>5
  <2>5. Distinct(rows \o es)
    BY <2>1 DEF FreshInv, es
  <2>6. Distinct(Append(rows \o es, event))
    BY <2>1, <2>4, <2>5, AppendDistinct
  <2> QED
    BY <2>1, <2>2, <2>4, <2>6 DEF FreshInv
<1>6. ASSUME NEW w \in Writers, WriteAnother(w) PROVE FreshInv'
  <2>1. /\ rows' = rows /\ locker' = locker
        /\ \A v \in Writers : tx'[v].events = tx[v].events /\ (tx'[v].pc = "written" => tx[v].pc = "written")
    BY <1>0, <1>6 DEF WriteAnother, TxRecord
  <2> QED
    BY <2>1, NoEventKeepsFresh
<1>7. ASSUME NEW w \in Writers, Commit(w) PROVE FreshInv'
  <2>1. locker = w /\ locker' = None /\ rows' = rows \o tx[w].events
    BY <1>7 DEF ChainInv, Commit, Waiting
  <2>2. \A v \in Writers : tx'[v].events = tx[v].events /\ (tx'[v].pc = "written" => tx[v].pc = "written")
    BY <1>0, <1>7 DEF Commit, TxRecord
  <2>3. Distinct(rows \o tx[w].events)
    BY <2>1 DEF FreshInv
  <2> QED
    BY <2>1, <2>2, <2>3 DEF FreshInv
<1>8. ASSUME NEW w \in Writers, Rollback(w) PROVE FreshInv'
  <2>1. /\ rows' = rows /\ \A v \in Writers : locker' = v => locker = v
        /\ \A v \in Writers : tx'[v].events = tx[v].events /\ (tx'[v].pc = "written" => tx[v].pc = "written")
    BY <1>0, <1>8 DEF Rollback, TxRecord
  <2> QED
    BY <2>1, NoEventKeepsFresh
<1>9. ASSUME SetClockBack \/ UNCHANGED vars PROVE FreshInv'
  <2>1. UNCHANGED <<rows, locker, tx>>
    BY <1>9 DEF SetClockBack, vars
  <2> QED
    BY <2>1, NoEventKeepsFresh
<1> QED
  BY <1>1, <1>2, <1>3, <1>4, <1>5, <1>6, <1>7, <1>8, <1>9 DEF Next, Write

\* A commit appends the batch; no other step touches the log or ends a transaction well.
LEMMA StepIsSerial ==
    ASSUME ChainInv, FreshInv, ChainInv', FreshInv', [Next]_vars
    PROVE  [Serial!Next]_<<rows, {w \in Writers : tx[w].pc = "done"}>>
<1> DEFINE done == {w \in Writers : tx[w].pc = "done"}
<1>0. tx \in [Writers -> TxRecord] /\ \A v \in Writers : tx[v] \in TxRecord
  BY DEF ChainInv, TypeOK
<1>1. ASSUME NEW w \in Writers, Commit(w) PROVE Serial!AppendBatch(w)
  <2>1. /\ tx[w].pc = "written" /\ tx'[w].pc = "done" /\ rows' = rows \o tx[w].events
        /\ \A v \in Writers \ {w} : tx'[v] = tx[v]
    BY <1>0, <1>1 DEF Commit, TxRecord
  <2>2. w \notin done /\ done' = done \cup {w}
    BY <2>1
  <2>3. rows \in Seq(EventRecord) /\ tx[w].events \in Seq(EventRecord) /\ tx[w].events # <<>>
    BY <1>0, <2>1 DEF ChainInv, TypeOK, TxRecord, FreshInv
  <2>4. /\ Len(rows) < Len(rows') /\ Len(rows) \in Nat /\ Len(rows') \in Nat
        /\ \A i \in 1..Len(rows) : rows'[i] = rows[i]
    BY <2>1, <2>3
  <2>5. \A i \in Len(rows) + 1..Len(rows') :
          /\ rows'[i].previous = IF i = 1 THEN None ELSE rows'[i - 1].id
          /\ \A j \in 1..i - 1 : rows'[j].id # rows'[i].id
    <3> TAKE i \in Len(rows) + 1..Len(rows')
    <3>1. i \in 1..Len(rows') /\ \A j \in 1..i - 1 : j \in 1..Len(rows') /\ j < i
      BY <2>4
    <3>2. rows'[i].previous = IF i = 1 THEN None ELSE rows'[i - 1].id
      BY <3>1 DEF ChainInv, Linked
    <3>3. \A j \in 1..i - 1 : rows'[j].id # rows'[i].id
      BY <3>1 DEF FreshInv, Distinct
    <3> QED
      BY <3>2, <3>3
  <2> QED
    BY <2>2, <2>4, <2>5 DEF Serial!AppendBatch
<1>2. ASSUME NEW w \in Writers,
             \/ Flush(w) \/ GetHead(w) \/ InsertHead(w) \/ BumpVersion(w)
             \/ (\E id \in Ids : WriteEvent(w, id)) \/ WriteAnother(w) \/ Rollback(w)
      PROVE  UNCHANGED <<rows, done>>
  <2>1. CASE Flush(w) \/ GetHead(w) \/ InsertHead(w)
    <3>1. /\ rows' = rows /\ \A v \in Writers \ {w} : tx'[v] = tx[v]
          /\ tx[w].pc # "done" /\ tx'[w].pc # "done"
      BY <1>0, <2>1 DEF Flush, GetHead, InsertHead, TxRecord
    <3> QED
      BY <3>1
  <2>2. CASE BumpVersion(w)
    <3>1. /\ rows' = rows /\ \A v \in Writers \ {w} : tx'[v] = tx[v]
          /\ tx[w].pc # "done" /\ tx'[w].pc # "done"
      BY <1>0, <2>2 DEF BumpVersion, TxRecord
    <3> QED
      BY <3>1
  <2>3. ASSUME NEW id \in Ids, WriteEvent(w, id) PROVE UNCHANGED <<rows, done>>
    <3>1. /\ rows' = rows /\ \A v \in Writers \ {w} : tx'[v] = tx[v]
          /\ tx[w].pc # "done" /\ tx'[w].pc # "done"
      BY <1>0, <2>3 DEF WriteEvent, TxRecord
    <3> QED
      BY <3>1
  <2>4. CASE WriteAnother(w) \/ Rollback(w)
    <3>1. /\ rows' = rows /\ \A v \in Writers \ {w} : tx'[v] = tx[v]
          /\ tx[w].pc # "done" /\ tx'[w].pc # "done"
      BY <1>0, <2>4 DEF WriteAnother, Rollback, TxRecord, Active
    <3> QED
      BY <3>1
  <2> QED
    BY <1>2, <2>1, <2>2, <2>3, <2>4
<1>3. ASSUME SetClockBack \/ UNCHANGED vars PROVE UNCHANGED <<rows, done>>
  BY <1>3 DEF SetClockBack, vars
<1> QED
  BY <1>1, <1>2, <1>3 DEF Next, Write, Serial!Next

\* The transactions, statement by statement, implement the serial log: batches are appended
\* whole, chained and under new ids, each at one commit, and the past is never changed.
THEOREM SerialImplemented == Spec => SerialSpec
<1>1. Init => FreshInv
  BY NobodyAssumption DEF Init, FreshInv, Distinct
<1>2. Init => Serial!Init
  BY DEF Init, Serial!Init
<1> QED
  BY <1>1, <1>2, FreshKept, StepIsSerial, ChainInductive, PTL DEF Spec, SerialSpec, Serial!Spec

-----------------------------------------------------------------------------
(* Drift.                                                                  *)

\* A path has at most one baseline.
PathsUnique == \A x, y \in baselines : x.path = y.path => x = y

\* Every answer was given from a baseline that is still there.
AnswersFounded ==
    \A a \in answers : \E x \in baselines :
        x.path = a.path /\ a.changed = Changed(x, a.content)

DriftInv == PathsUnique /\ AnswersFounded

\* A created baseline has a path of its own.
LEMMA CreateKeepsPathsUnique ==
    ASSUME NEW b \in BaselineCreates, PathsUnique, CreateBaseline(b)
    PROVE  PathsUnique' /\ baselines \subseteq baselines'
<1>1. PICK p \in path[b], content \in Content :
        Unique(p) /\ baselines' = baselines \cup {[path |-> p, redacted |-> Redacted(content), by |-> b]}
  BY DEF CreateBaseline
<1> DEFINE new == [path |-> p, redacted |-> Redacted(content), by |-> b]
<1>2. new.path = p
  OBVIOUS
<1>3. \A x \in baselines : x.path # p
  BY <1>1 DEF Unique
<1> HIDE DEF new
<1>4. baselines' = baselines \cup {new}
  BY <1>1 DEF new
<1> QED
  BY <1>2, <1>3, <1>4 DEF PathsUnique

\* An answer is the comparison with a baseline there is.
LEMMA CheckKeepsAnswersFounded ==
    ASSUME NEW d \in DriftChecks, AnswersFounded, CheckDrift(d)
    PROVE  AnswersFounded' /\ baselines' = baselines
<1>1. PICK p \in Paths, content \in Content :
        /\ IF \E x \in baselines : x.path = p
             THEN \E x \in baselines :
                    /\ x.path = p
                    /\ answers' = answers \cup
                         {[path |-> p, content |-> content, changed |-> Changed(x, content)]}
             ELSE UNCHANGED answers
        /\ baselines' = baselines
  BY DEF CheckDrift, main
<1>2. CASE \E x \in baselines : x.path = p
  <2>1. PICK x \in baselines :
          /\ x.path = p
          /\ answers' = answers \cup {[path |-> p, content |-> content, changed |-> Changed(x, content)]}
    BY <1>1, <1>2
  <2> DEFINE new == [path |-> p, content |-> content, changed |-> Changed(x, content)]
  <2>2. new.path = x.path /\ new.changed = Changed(x, new.content)
    BY <2>1
  <2> HIDE DEF new
  <2>3. answers' = answers \cup {new}
    BY <2>1 DEF new
  <2> QED
    BY <1>1, <2>2, <2>3 DEF AnswersFounded, Changed
<1>3. CASE ~ \E x \in baselines : x.path = p
  BY <1>1, <1>3 DEF AnswersFounded, Changed
<1> QED
  BY <1>2, <1>3

\* Answers stay founded when baselines are only added.
LEMMA AddingKeepsAnswersFounded ==
    ASSUME AnswersFounded, baselines \subseteq baselines', answers' = answers
    PROVE  AnswersFounded'
  BY DEF AnswersFounded, Changed

LEMMA DriftInductive ==
    ASSUME DriftInv, [RecordsNext]_recordsVars
    PROVE  DriftInv'
<1> USE DEF DriftInv
<1>1. CASE \E b \in BaselineCreates : CreateBaseline(b)
  <2>1. PICK b \in BaselineCreates : CreateBaseline(b)
    BY <1>1
  <2>2. answers' = answers
    BY <2>1 DEF CreateBaseline
  <2> QED
    BY <2>1, <2>2, CreateKeepsPathsUnique, AddingKeepsAnswersFounded
<1>2. CASE \E d \in DriftChecks : CheckDrift(d)
  <2>1. PICK d \in DriftChecks : CheckDrift(d)
    BY <1>2
  <2> QED
    BY <2>1, CheckKeepsAnswersFounded DEF PathsUnique
<1>3. CASE UNCHANGED <<baselines, answers>>
  BY <1>3 DEF PathsUnique, AnswersFounded, Changed
<1>4. CASE \E s \in SettingsUpdates : ReadFirst(s) \/ ReadSecond(s) \/ CommitSettings(s)
  BY <1>3, <1>4 DEF ReadFirst, ReadSecond, CommitSettings, main
<1>5. CASE \E b \in BaselineCreates : CheckPath(b)
  BY <1>3, <1>5 DEF CheckPath, main
<1>6. CASE \/ \E a \in Adds : Add(a)
           \/ \E r \in Reviews : Review(r)
           \/ \E j \in Adds \cup Reviews : RecordKnowledge(j)
  BY <1>3, <1>6 DEF Add, Review, RecordKnowledge, main
<1>7. CASE \E j \in Requests : Fail(j)
  BY <1>3, <1>7 DEF Fail
<1>8. CASE UNCHANGED recordsVars
  BY <1>3, <1>8 DEF recordsVars, main
<1> QED
  BY <1>1, <1>2, <1>4, <1>5, <1>6, <1>7, <1>8 DEF RecordsNext

\* Whatever a drift check answered, it would answer now (router.py:1114-1127).
THEOREM DriftAnswersHold == RecordsSpec => []DriftAnswersStand
<1>1. RecordsInit => DriftInv
  BY DEF RecordsInit, DriftInv, PathsUnique, AnswersFounded
<1>2. DriftInv /\ [RecordsNext]_recordsVars => DriftInv'
  BY DriftInductive
<1>3. DriftInv => DriftAnswersStand
  BY DEF DriftInv, PathsUnique, AnswersFounded, DriftAnswersStand
<1> QED
  BY <1>1, <1>2, <1>3, PTL DEF RecordsSpec

-----------------------------------------------------------------------------
(* Settings.                                                               *)

\* The places of a request, and where one who has been recorded is.
PcOK ==
    /\ pc \in [Requests -> {"idle", "first", "both", "free", "applied", "ended", "dead"}]
    /\ \A s \in SettingsUpdates : s \in audited => pc[s] = "ended"

\* The rows, and what the updates read of them: a key has at most one row.
RowsOK ==
    /\ settings \in [Keys -> SUBSET Row]
    /\ read \in [SettingsUpdates -> [Keys -> SUBSET Row]]
    /\ body \in [SettingsUpdates -> [Keys -> Values]]
    /\ \A k \in Keys : \A x, y \in settings[k] : x = y
    /\ \A s \in SettingsUpdates, k \in Keys : \A x, y \in read[s][k] : x = y

\* An update beside which no other one committed read what is still there.
ReadsCurrent ==
    \A s \in SettingsUpdates : s \notin disturbed =>
        /\ pc[s] \in {"first", "both"} => read[s][First] = settings[First]
        /\ pc[s] = "both" => read[s][Second] = settings[Second]

SettingsInv == PcOK /\ RowsOK /\ ReadsCurrent

\* What an update writes of a key is one row at most.
LEMMA WrittenIsRow ==
    ASSUME RowsOK, NEW s \in SettingsUpdates, NEW k \in Keys
    PROVE  Written(s, k) \in SUBSET Row /\ \A x, y \in Written(s, k) : x = y
<1>1. body[s][k] \in Values /\ settings[k] \in SUBSET Row /\ read[s][k] \in SUBSET Row
  BY DEF RowsOK
<1>2. CASE read[s][k] = {}
  BY <1>1, <1>2 DEF Written, Row
<1>3. CASE read[s][k] # {}
  <2>1. \A w \in Written(s, k) : \E old \in read[s][k], now \in settings[k] :
          w = [value |-> IF body[s][k] = old.value THEN now.value ELSE body[s][k],
               version |-> old.version + 1]
    BY <1>3 DEF Written
  <2>2. \A x, y \in read[s][k] : x = y
    BY DEF RowsOK
  <2>3. \A x, y \in settings[k] : x = y
    BY DEF RowsOK
  <2>4. \A x, y \in Written(s, k) : x = y
    BY <2>1, <2>2, <2>3
  <2>5. \A w \in Written(s, k) : w \in Row
    BY <1>1, <2>1 DEF Row
  <2> QED
    BY <2>4, <2>5
<1> QED
  BY <1>2, <1>3

\* An undisturbed update writes its own values, one version on.
LEMMA WrittenIsBody ==
    ASSUME RowsOK, NEW s \in SettingsUpdates, NEW k \in Keys,
           Insertable(s, k), read[s][k] = settings[k]
    PROVE  \E row \in Written(s, k) :
              /\ row.value = body[s][k]
              /\ \A old \in settings[k] : row.version = old.version + 1
<1>1. CASE read[s][k] = {}
  BY <1>1 DEF Written
<1>2. CASE read[s][k] # {}
  <2>1. PICK old \in read[s][k] : TRUE
    BY <1>2
  <2>2. \A x \in settings[k] : x = old
    BY <2>1 DEF RowsOK
  <2> DEFINE row == [value |-> IF body[s][k] = old.value THEN old.value ELSE body[s][k],
                     version |-> old.version + 1]
  <2>3. row \in Written(s, k)
    BY <1>2, <2>1 DEF Written
  <2>4. row.value = body[s][k] /\ row.version = old.version + 1
    OBVIOUS
  <2> QED
    BY <2>2, <2>3, <2>4
<1> QED
  BY <1>1, <1>2

\* Keys in a form the provers like.
LEMMA KeysAre == First \in Keys /\ Second \in Keys /\ First # Second /\ \A k \in Keys : k \in {First, Second}
  BY DEF Keys, First, Second

LEMMA ReadFirstKeeps ==
    ASSUME SettingsInv, NEW s \in SettingsUpdates, ReadFirst(s)
    PROVE  SettingsInv'
<1> USE DEF SettingsInv
<1>1. s \in Requests
  BY DEF Requests
<1>2. /\ pc[s] = "idle" /\ pc' = [pc EXCEPT ![s] = "first"]
      /\ read' = [read EXCEPT ![s][First] = settings[First]]
      /\ UNCHANGED <<settings, audited, body, disturbed>>
  BY DEF ReadFirst, Move, main
<1>3. PcOK'
  BY <1>1, <1>2 DEF PcOK
<1>4. RowsOK'
  BY <1>2, KeysAre DEF RowsOK
<1>5. ReadsCurrent'
  <2> SUFFICES ASSUME NEW t \in SettingsUpdates, t \notin disturbed
               PROVE  /\ pc'[t] \in {"first", "both"} => read'[t][First] = settings[First]
                      /\ pc'[t] = "both" => read'[t][Second] = settings[Second]
    BY <1>2 DEF ReadsCurrent
  <2>1. CASE t = s
    <3>1. pc'[t] = "first"
      BY <1>1, <1>2, <2>1 DEF PcOK
    <3>2. read'[t][First] = settings[First]
      BY <1>2, <2>1, KeysAre DEF RowsOK
    <3> QED
      BY <3>1, <3>2
  <2>2. CASE t # s
    <3>1. pc'[t] = pc[t] /\ read'[t] = read[t]
      BY <1>2, <2>2 DEF PcOK, RowsOK, Requests
    <3> QED
      BY <3>1 DEF ReadsCurrent
  <2> QED
    BY <2>1, <2>2
<1> QED
  BY <1>3, <1>4, <1>5

LEMMA ReadSecondKeeps ==
    ASSUME SettingsInv, NEW s \in SettingsUpdates, ReadSecond(s)
    PROVE  SettingsInv'
<1> USE DEF SettingsInv
<1>1. s \in Requests
  BY DEF Requests
<1>2. PICK to \in {"ended", "both"} :
        /\ pc[s] = "first" /\ pc' = [pc EXCEPT ![s] = to]
        /\ read' = [read EXCEPT ![s][Second] = settings[Second]]
        /\ UNCHANGED <<settings, audited, body, disturbed>>
  BY DEF ReadSecond, Move
<1>3. PcOK'
  BY <1>1, <1>2 DEF PcOK
<1>4. RowsOK'
  BY <1>2, KeysAre DEF RowsOK
<1>5. ReadsCurrent'
  <2> SUFFICES ASSUME NEW t \in SettingsUpdates, t \notin disturbed
               PROVE  /\ pc'[t] \in {"first", "both"} => read'[t][First] = settings[First]
                      /\ pc'[t] = "both" => read'[t][Second] = settings[Second]
    BY <1>2 DEF ReadsCurrent
  <2>1. CASE t = s
    <3>1. read[t][First] = settings[First]
      BY <1>2, <2>1 DEF ReadsCurrent
    <3>2. read'[t][First] = read[t][First] /\ read'[t][Second] = settings[Second]
      BY <1>2, <2>1, KeysAre DEF RowsOK
    <3> QED
      BY <3>1, <3>2
  <2>2. CASE t # s
    <3>1. pc'[t] = pc[t] /\ read'[t] = read[t]
      BY <1>2, <2>2 DEF PcOK, RowsOK, Requests
    <3> QED
      BY <3>1 DEF ReadsCurrent
  <2> QED
    BY <2>1, <2>2
<1> QED
  BY <1>3, <1>4, <1>5

LEMMA CommitSettingsKeeps ==
    ASSUME SettingsInv, NEW s \in SettingsUpdates, CommitSettings(s)
    PROVE  SettingsInv'
<1> USE DEF SettingsInv
<1>1. s \in Requests
  BY DEF Requests
<1>2. /\ pc[s] = "both" /\ pc' = [pc EXCEPT ![s] = "ended"]
      /\ audited' = audited \cup {s}
      /\ settings' = [k \in Keys |-> Written(s, k)]
      /\ disturbed' = disturbed \cup {t \in SettingsUpdates \ {s} : pc[t] \in {"first", "both"}}
      /\ UNCHANGED <<read, body>>
  BY DEF CommitSettings, Move, Record
<1>3. PcOK'
  BY <1>1, <1>2 DEF PcOK, Requests
<1>4. RowsOK'
  <2>1. \A k \in Keys : settings'[k] \in SUBSET Row /\ \A x, y \in settings'[k] : x = y
    BY <1>2, WrittenIsRow
  <2>2. settings' \in [Keys -> SUBSET Row]
    BY <1>2, WrittenIsRow
  <2> QED
    BY <1>2, <2>1, <2>2 DEF RowsOK
<1>5. ReadsCurrent'
  <2> SUFFICES ASSUME NEW t \in SettingsUpdates, t \notin disturbed'
               PROVE  pc'[t] \notin {"first", "both"}
    BY DEF ReadsCurrent
  <2>1. CASE t = s
    BY <1>1, <1>2, <2>1 DEF PcOK
  <2>2. CASE t # s
    BY <1>2, <2>2 DEF PcOK, Requests
  <2> QED
    BY <2>1, <2>2
<1> QED
  BY <1>3, <1>4, <1>5

\* A request of another kind, or one that breaks off, leaves settings and reads alone.
LEMMA OthersKeepSettings ==
    ASSUME SettingsInv, NEW j \in Requests,
           NEW to \in {"free", "applied", "ended", "dead"},
           pc' = [pc EXCEPT ![j] = to],
           audited' = audited \/ (audited' = audited \cup {j} /\ to = "ended"),
           j \in audited => to = "ended" \/ j \notin SettingsUpdates,
           UNCHANGED <<settings, read, body, disturbed>>
    PROVE  SettingsInv'
<1> USE DEF SettingsInv
<1>1. PcOK'
  BY DEF PcOK, Requests
<1>2. RowsOK'
  BY DEF RowsOK
<1>3. ReadsCurrent'
  <2> SUFFICES ASSUME NEW t \in SettingsUpdates, t \notin disturbed, pc'[t] \in {"first", "both"}
               PROVE  /\ read[t][First] = settings[First]
                      /\ pc'[t] = "both" => read[t][Second] = settings[Second]
    BY DEF ReadsCurrent
  <2>1. t # j /\ pc'[t] = pc[t]
    BY DEF PcOK, Requests
  <2> QED
    BY <2>1 DEF ReadsCurrent
<1> QED
  BY <1>1, <1>2, <1>3

\* A recorded update has ended, so no step moves it on.
LEMMA SettingsInductive ==
    ASSUME SettingsInv, [RecordsNext]_recordsVars
    PROVE  SettingsInv'
<1>1. CASE \E s \in SettingsUpdates : ReadFirst(s) \/ ReadSecond(s) \/ CommitSettings(s)
  BY <1>1, ReadFirstKeeps, ReadSecondKeeps, CommitSettingsKeeps
<1>2. ASSUME NEW b \in BaselineCreates, CheckPath(b)
      PROVE  SettingsInv'
  <2>1. PICK to \in {"free", "ended"} :
          pc[b] = "idle" /\ pc' = [pc EXCEPT ![b] = to]
            /\ UNCHANGED <<audited, settings, read, body, disturbed>>
    BY <1>2 DEF CheckPath, Move, main
  <2>2. b \in Requests /\ (b \in audited => b \notin SettingsUpdates)
    BY <2>1 DEF SettingsInv, PcOK, Requests
  <2> QED
    BY <2>1, <2>2, OthersKeepSettings
<1>3. ASSUME NEW b \in BaselineCreates, CreateBaseline(b)
      PROVE  SettingsInv'
  <2>1. pc' = [pc EXCEPT ![b] = "ended"] /\ audited' = audited \cup {b}
          /\ UNCHANGED <<settings, read, body, disturbed>>
    BY <1>3 DEF CreateBaseline, Move, Record
  <2>2. b \in Requests
    BY DEF Requests
  <2> QED
    BY <2>1, <2>2, OthersKeepSettings
<1>4. ASSUME NEW d \in DriftChecks, CheckDrift(d)
      PROVE  SettingsInv'
  <2>1. pc' = [pc EXCEPT ![d] = "ended"] /\ UNCHANGED <<audited, settings, read, body, disturbed>>
    BY <1>4 DEF CheckDrift, Move, main
  <2>2. d \in Requests
    BY DEF Requests
  <2> QED
    BY <2>1, <2>2, OthersKeepSettings
<1>5. ASSUME NEW a \in Adds, Add(a)
      PROVE  SettingsInv'
  <2>1. pc[a] = "idle" /\ pc' = [pc EXCEPT ![a] = "applied"]
          /\ UNCHANGED <<audited, settings, read, body, disturbed>>
    BY <1>5 DEF Add, Move, main
  <2>2. a \in Requests /\ (a \in audited => a \notin SettingsUpdates)
    BY <2>1 DEF SettingsInv, PcOK, Requests
  <2> QED
    BY <2>1, <2>2, OthersKeepSettings
<1>6. ASSUME NEW r \in Reviews, Review(r)
      PROVE  SettingsInv'
  <2>1. PICK to \in {"applied", "ended"} :
          pc[r] = "idle" /\ pc' = [pc EXCEPT ![r] = to]
            /\ UNCHANGED <<audited, settings, read, body, disturbed>>
    BY <1>6 DEF Review, Move, main
  <2>2. r \in Requests /\ (r \in audited => r \notin SettingsUpdates)
    BY <2>1 DEF SettingsInv, PcOK, Requests
  <2> QED
    BY <2>1, <2>2, OthersKeepSettings
<1>7. ASSUME NEW j \in Adds \cup Reviews, RecordKnowledge(j)
      PROVE  SettingsInv'
  <2>1. pc' = [pc EXCEPT ![j] = "ended"] /\ audited' = audited \cup {j}
          /\ UNCHANGED <<settings, read, body, disturbed>>
    BY <1>7 DEF RecordKnowledge, Move, Record
  <2>2. j \in Requests
    BY DEF Requests
  <2> QED
    BY <2>1, <2>2, OthersKeepSettings
<1>8. ASSUME NEW j \in Requests, Fail(j)
      PROVE  SettingsInv'
  <2>1. pc[j] # "ended" /\ pc' = [pc EXCEPT ![j] = "dead"]
          /\ UNCHANGED <<audited, settings, read, body, disturbed>>
    BY <1>8 DEF Fail
  <2>2. j \in audited => j \notin SettingsUpdates
    BY <2>1 DEF SettingsInv, PcOK
  <2> QED
    BY <2>1, <2>2, OthersKeepSettings
<1>9. CASE UNCHANGED recordsVars
  BY <1>9 DEF recordsVars, main, SettingsInv, PcOK, RowsOK, ReadsCurrent
<1> QED
  BY <1>1, <1>2, <1>3, <1>4, <1>5, <1>6, <1>7, <1>8, <1>9 DEF RecordsNext

\* The step that records an update beside which no other one committed.
LEMMA RecordingIsWhole ==
    ASSUME SettingsInv, [RecordsNext]_recordsVars, NEW s \in SettingsUpdates,
           s \in audited' \ audited, s \notin disturbed
    PROVE  \A k \in Keys : \E row \in settings'[k] :
              /\ row.value = body[s][k]
              /\ \A old \in settings[k] : row.version = old.version + 1
<1>1. CommitSettings(s)
  <2>1. ASSUME NEW t \in SettingsUpdates, ReadFirst(t) \/ ReadSecond(t)
        PROVE  audited' = audited
    BY <2>1 DEF ReadFirst, ReadSecond, main
  <2>2. ASSUME NEW t \in SettingsUpdates, CommitSettings(t)
        PROVE  t = s
    BY <2>2 DEF CommitSettings, Record
  <2>3. ASSUME NEW b \in BaselineCreates, CheckPath(b)
        PROVE  audited' = audited
    BY <2>3 DEF CheckPath, main
  <2>4. ASSUME NEW b \in BaselineCreates, CreateBaseline(b)
        PROVE  FALSE
    BY <2>4, RequestAssumption DEF CreateBaseline, Record
  <2>5. ASSUME NEW j \in DriftChecks \cup Adds \cup Reviews, CheckDrift(j) \/ Add(j) \/ Review(j)
        PROVE  audited' = audited
    BY <2>5 DEF CheckDrift, Add, Review, main
  <2>6. ASSUME NEW j \in Adds \cup Reviews, RecordKnowledge(j)
        PROVE  FALSE
    BY <2>6, RequestAssumption DEF RecordKnowledge, Record
  <2>7. ASSUME NEW j \in Requests, Fail(j)
        PROVE  audited' = audited
    BY <2>7 DEF Fail
  <2>8. UNCHANGED recordsVars => audited' = audited
    BY DEF recordsVars, main
  <2> QED
    BY <2>1, <2>2, <2>3, <2>4, <2>5, <2>6, <2>7, <2>8 DEF RecordsNext
<1>2. /\ pc[s] = "both" /\ settings' = [k \in Keys |-> Written(s, k)]
      /\ \A k \in Keys : Insertable(s, k)
  BY <1>1 DEF CommitSettings, Move
<1>3. \A k \in Keys : read[s][k] = settings[k]
  BY <1>2, KeysAre DEF SettingsInv, ReadsCurrent
<1> QED
  BY <1>2, <1>3, WrittenIsBody DEF SettingsInv

\* An update of the settings beside which no other one committed leaves exactly its
\* own values, both of them, each one version on (router.py:1276-1284).
THEOREM UndisturbedIsWhole == RecordsSpec => UndisturbedUpdateIsWhole
<1>1. RecordsInit => SettingsInv
  BY DEF RecordsInit, SettingsInv, PcOK, RowsOK, ReadsCurrent
<1>2. SettingsInv /\ [RecordsNext]_recordsVars => SettingsInv'
  BY SettingsInductive
<1>3. SettingsInv /\ [RecordsNext]_recordsVars =>
        [\A s \in SettingsUpdates :
           s \in audited' \ audited /\ s \notin disturbed =>
              \A k \in Keys : \E row \in settings'[k] :
                  /\ row.value = body[s][k]
                  /\ \A old \in settings[k] : row.version = old.version + 1]_recordsVars
  BY RecordingIsWhole
<1> QED
  BY <1>1, <1>2, <1>3, PTL DEF RecordsSpec, UndisturbedUpdateIsWhole

-----------------------------------------------------------------------------
(* Knowledge.  The two databases of a request are told apart by where it   *)
(* is: "applied" after the knowledge base committed, "ended" after the     *)
(* audit event did.                                                        *)

KnowledgeRequests == Adds \cup Reviews

Decides(x, id, status) == x.id = id /\ x.review_status = status

KnowledgeInv ==
    /\ pc \in [Requests -> {"idle", "first", "both", "free", "applied", "ended", "dead"}]
    /\ documents \subseteq [id : Documents, by : Adds, review_status : ReviewStatuses]
    /\ \A j \in KnowledgeRequests :
         j \in audited \/ pc[j] = "applied" => \E x \in decided : x.by = j
    /\ \A x \in decided :
         x.by \in KnowledgeRequests /\ (x.by \in audited \/ pc[x.by] \in {"applied", "dead"})
    /\ \A y \in documents : y.review_status = "APPROVED" =>
         \E x \in decided : Decides(x, y.id, "APPROVED")

\* Requests of another kind leave the knowledge base and its events alone, and so does
\* one that reads or fails.
LEMMA OthersKeepKnowledge ==
    ASSUME KnowledgeInv, UNCHANGED knowledge, NEW j \in Requests,
           NEW to \in {"first", "both", "free", "ended", "dead"},
           pc' = [pc EXCEPT ![j] = to],
           audited' \in {audited, audited \cup {j}},
           j \in KnowledgeRequests => \/ pc[j] = "applied" /\ to = "ended" /\ j \in audited'
                                      \/ pc[j] # "idle" /\ to = "dead" /\ audited' = audited
    PROVE  KnowledgeInv'
<1>1. \A i \in Requests : pc'[i] = IF i = j THEN to ELSE pc[i]
  BY DEF KnowledgeInv
<1>2. \A i \in KnowledgeRequests : i \in Requests
  BY DEF KnowledgeRequests, Requests
<1>3. documents' = documents /\ decided' = decided
  BY DEF knowledge
<1>4. pc' \in [Requests -> {"idle", "first", "both", "free", "applied", "ended", "dead"}]
  BY DEF KnowledgeInv
<1>5. ASSUME NEW i \in KnowledgeRequests, i \in audited' \/ pc'[i] = "applied"
      PROVE  \E x \in decided' : x.by = i
  BY <1>1, <1>2, <1>3, <1>5 DEF KnowledgeInv
<1>6. ASSUME NEW x \in decided'
      PROVE  x.by \in KnowledgeRequests /\ (x.by \in audited' \/ pc'[x.by] \in {"applied", "dead"})
  <2>1. x.by \in KnowledgeRequests /\ (x.by \in audited \/ pc[x.by] \in {"applied", "dead"})
    BY <1>3, <1>6 DEF KnowledgeInv
  <2> QED
    BY <1>1, <1>2, <2>1
<1> QED
  BY <1>3, <1>4, <1>5, <1>6 DEF KnowledgeInv, Decides

LEMMA AddKeepsKnowledge ==
    ASSUME KnowledgeInv, NEW a \in Adds, Add(a)
    PROVE  KnowledgeInv'
<1>1. PICK d \in Documents, status \in ReviewStatuses :
        /\ Move(a, "idle", "applied")
        /\ documents' = documents \cup {[id |-> d, by |-> a, review_status |-> status]}
        /\ decided' = decided \cup {[by |-> a, id |-> d, review_status |-> status]}
        /\ audited' = audited
  BY DEF Add, main
<1> DEFINE new == [by |-> a, id |-> d, review_status |-> status]
           doc == [id |-> d, by |-> a, review_status |-> status]
<1>2. /\ new.by = a /\ new.id = d /\ new.review_status = status
      /\ doc.id = d /\ doc.review_status = status
      /\ doc \in [id : Documents, by : Adds, review_status : ReviewStatuses]
  OBVIOUS
<1> HIDE DEF new, doc
<1>3. documents' = documents \cup {doc} /\ decided' = decided \cup {new}
  BY <1>1 DEF new, doc
<1>4. a \in Requests /\ a \in KnowledgeRequests /\ \A i \in KnowledgeRequests : i \in Requests
  BY DEF KnowledgeRequests, Requests
<1>5. \A i \in Requests : pc'[i] = IF i = a THEN "applied" ELSE pc[i]
  BY <1>1 DEF Move, KnowledgeInv
<1>6. pc' \in [Requests -> {"idle", "first", "both", "free", "applied", "ended", "dead"}]
  BY <1>1 DEF Move, KnowledgeInv
<1>7. documents' \subseteq [id : Documents, by : Adds, review_status : ReviewStatuses]
  BY <1>2, <1>3 DEF KnowledgeInv
<1>8. ASSUME NEW i \in KnowledgeRequests, i \in audited' \/ pc'[i] = "applied"
      PROVE  \E x \in decided' : x.by = i
  BY <1>1, <1>2, <1>3, <1>4, <1>5, <1>8 DEF KnowledgeInv
<1>9. ASSUME NEW x \in decided'
      PROVE  x.by \in KnowledgeRequests /\ (x.by \in audited' \/ pc'[x.by] \in {"applied", "dead"})
  BY <1>1, <1>2, <1>3, <1>4, <1>5, <1>9 DEF KnowledgeInv
<1>10. ASSUME NEW y \in documents', y.review_status = "APPROVED"
       PROVE  \E x \in decided' : Decides(x, y.id, "APPROVED")
  BY <1>2, <1>3, <1>10 DEF KnowledgeInv, Decides
<1> QED
  BY <1>6, <1>7, <1>8, <1>9, <1>10 DEF KnowledgeInv

\* A review gives every row of its document its own status; the other rows keep theirs.
LEMMA ReviewedIs ==
    ASSUME KnowledgeInv, NEW d \in Documents, NEW status \in ReviewStatuses, NEW y \in Reviewed(d, status)
    PROVE  /\ y \in [id : Documents, by : Adds, review_status : ReviewStatuses]
           /\ \E z \in documents : /\ z.id = y.id
                                   /\ \/ z = y /\ y.id # d
                                      \/ y.id = d /\ y.review_status = status
<1>1. PICK z \in documents : y = IF z.id = d THEN [z EXCEPT !.review_status = status] ELSE z
  BY DEF Reviewed
<1>2. z \in [id : Documents, by : Adds, review_status : ReviewStatuses]
  BY DEF KnowledgeInv
<1> QED
  BY <1>1, <1>2

LEMMA ReviewKeepsKnowledge ==
    ASSUME KnowledgeInv, NEW r \in Reviews, Review(r)
    PROVE  KnowledgeInv'
<1>1. PICK d \in Documents, status \in ReviewStatuses :
        /\ Move(r, "idle", IF \E x \in documents : x.id = d THEN "applied" ELSE "ended")
        /\ documents' = Reviewed(d, status)
        /\ decided' = IF \E x \in documents : x.id = d
                      THEN decided \cup {[by |-> r, id |-> d, review_status |-> status]} ELSE decided
        /\ audited' = audited
  BY DEF Review, main
<1> DEFINE found == \E x \in documents : x.id = d
           new == [by |-> r, id |-> d, review_status |-> status]
<1>2. new.by = r /\ new.id = d /\ new.review_status = status
  OBVIOUS
<1> HIDE DEF new, found
<1>3. decided' = IF found THEN decided \cup {new} ELSE decided
  BY <1>1 DEF new, found
<1>4. r \in Requests /\ r \in KnowledgeRequests /\ \A i \in KnowledgeRequests : i \in Requests
  BY DEF KnowledgeRequests, Requests
<1>5. /\ pc[r] = "idle"
      /\ \A i \in Requests : pc'[i] = IF i = r THEN (IF found THEN "applied" ELSE "ended") ELSE pc[i]
  BY <1>1 DEF Move, KnowledgeInv, found
<1>6. pc' \in [Requests -> {"idle", "first", "both", "free", "applied", "ended", "dead"}]
  BY <1>1 DEF Move, KnowledgeInv
<1>7. documents' \subseteq [id : Documents, by : Adds, review_status : ReviewStatuses]
  BY <1>1, ReviewedIs
<1>8. ASSUME NEW i \in KnowledgeRequests, i \in audited' \/ pc'[i] = "applied"
      PROVE  \E x \in decided' : x.by = i
  BY <1>1, <1>2, <1>3, <1>4, <1>5, <1>8 DEF KnowledgeInv
<1>9. ASSUME NEW x \in decided'
      PROVE  x.by \in KnowledgeRequests /\ (x.by \in audited' \/ pc'[x.by] \in {"applied", "dead"})
  BY <1>1, <1>2, <1>3, <1>4, <1>5, <1>9 DEF KnowledgeInv
<1>10. ASSUME NEW y \in documents', y.review_status = "APPROVED"
       PROVE  \E x \in decided' : Decides(x, y.id, "APPROVED")
  <2>1. PICK z \in documents : /\ z.id = y.id
                               /\ \/ z = y /\ y.id # d
                                  \/ y.id = d /\ y.review_status = status
    BY <1>1, <1>10, ReviewedIs
  <2>2. CASE z = y
    BY <1>3, <1>10, <2>2 DEF KnowledgeInv
  <2>3. CASE y.id = d /\ y.review_status = status
    BY <1>2, <1>3, <1>10, <2>1, <2>3 DEF found, Decides
  <2> QED
    BY <2>1, <2>2, <2>3
<1> QED
  BY <1>6, <1>7, <1>8, <1>9, <1>10 DEF KnowledgeInv

LEMMA KnowledgeInductive ==
    ASSUME KnowledgeInv, [RecordsNext]_recordsVars
    PROVE  KnowledgeInv'
<1> USE DEF main, Move, Record
<1>1. CASE \E s \in SettingsUpdates : ReadFirst(s) \/ ReadSecond(s) \/ CommitSettings(s)
  <2>1. PICK s \in SettingsUpdates : ReadFirst(s) \/ ReadSecond(s) \/ CommitSettings(s)
    BY <1>1
  <2>2. s \in Requests /\ s \notin KnowledgeRequests
    BY RequestAssumption DEF Requests, KnowledgeRequests
  <2> QED
    BY <2>1, <2>2, OthersKeepKnowledge DEF ReadFirst, ReadSecond, CommitSettings
<1>2. CASE \E b \in BaselineCreates : CheckPath(b) \/ CreateBaseline(b)
  <2>1. PICK b \in BaselineCreates : CheckPath(b) \/ CreateBaseline(b)
    BY <1>2
  <2>2. b \in Requests /\ b \notin KnowledgeRequests
    BY RequestAssumption DEF Requests, KnowledgeRequests
  <2> QED
    BY <2>1, <2>2, OthersKeepKnowledge DEF CheckPath, CreateBaseline
<1>3. CASE \E d \in DriftChecks : CheckDrift(d)
  <2>1. PICK d \in DriftChecks : CheckDrift(d)
    BY <1>3
  <2>2. d \in Requests /\ d \notin KnowledgeRequests
    BY RequestAssumption DEF Requests, KnowledgeRequests
  <2> QED
    BY <2>1, <2>2, OthersKeepKnowledge DEF CheckDrift
<1>4. CASE (\E a \in Adds : Add(a)) \/ \E r \in Reviews : Review(r)
  BY <1>4, AddKeepsKnowledge, ReviewKeepsKnowledge
<1>5. CASE \E j \in Adds \cup Reviews : RecordKnowledge(j)
  <2>1. PICK j \in Adds \cup Reviews : RecordKnowledge(j)
    BY <1>5
  <2>2. j \in Requests
    BY DEF Requests
  <2> QED
    BY <2>1, <2>2, OthersKeepKnowledge DEF RecordKnowledge
<1>6. CASE \E j \in Requests : Fail(j)
  BY <1>6, OthersKeepKnowledge DEF Fail
<1>7. CASE UNCHANGED recordsVars
  BY <1>7 DEF recordsVars, knowledge, KnowledgeInv, Decides
<1> QED
  BY <1>1, <1>2, <1>3, <1>4, <1>5, <1>6, <1>7 DEF RecordsNext

\* The audit chain tells of no change of the knowledge base that was not made, a change it does
\* not tell of belongs to a request between its two commits, and what the agent may quote was
\* approved by a change (router.py:913-919, 944-954).
THEOREM KnowledgeAuditHolds == RecordsSpec => []KnowledgeAuditIsTrue
<1>1. RecordsInit => KnowledgeInv
  BY DEF RecordsInit, KnowledgeInv, KnowledgeRequests, Requests
<1>2. KnowledgeInv /\ [RecordsNext]_recordsVars => KnowledgeInv'
  BY KnowledgeInductive
<1>3. KnowledgeInv => KnowledgeAuditIsTrue
  <2> SUFFICES ASSUME KnowledgeInv PROVE KnowledgeAuditIsTrue
    OBVIOUS
  <2>1. \A j \in audited \cap (Adds \cup Reviews) : \E x \in decided : x.by = j
    BY DEF KnowledgeInv, KnowledgeRequests
  <2>2. \A x \in decided : x.by \in audited \/ pc[x.by] \in {"applied", "dead"}
    BY DEF KnowledgeInv
  <2>3. ASSUME NEW d \in Approved
        PROVE  [id |-> d, review_status |-> "APPROVED"] \in
                  {[id |-> x.id, review_status |-> x.review_status] : x \in decided}
    <3>1. PICK y \in documents : y.id = d /\ y.review_status = "APPROVED"
      BY DEF Approved
    <3>2. PICK x \in decided : x.id = d /\ x.review_status = "APPROVED"
      BY <3>1 DEF KnowledgeInv, Decides
    <3> QED
      BY <3>2
  <2> QED
    BY <2>1, <2>2, <2>3 DEF KnowledgeAuditIsTrue
<1> QED
  BY <1>1, <1>2, <1>3, PTL DEF RecordsSpec

=============================================================================

------------------------------ MODULE Records ------------------------------
(***************************************************************************)
(* The records administrators keep: the settings, the configuration        *)
(* baselines (main database) and the knowledge base (a database of its     *)
(* own), with the requests of api/router.py that read and write them, the  *)
(* drift check (core/config_drift.py) and knowledge/service.py.            *)
(*                                                                         *)
(* A SELECT before a request's first INSERT or UPDATE runs by itself and   *)
(* may be stale when the request writes; from its first write to its commit *)
(* a request holds SQLite's write lock.  A request may end at any point    *)
(* before its commit: killed, or with an exception such as "database is    *)
(* locked".                                                                *)
(***************************************************************************)
EXTENDS Integers

CONSTANTS
    SettingsUpdates, BaselineCreates, DriftChecks, Adds, Reviews,   \* requests, by kind
    Paths,          \* path_ref of baselines
    Documents,      \* document_id of the knowledge base
    Values,         \* values of a setting, lines of a file
    Nobody          \* no lock holder

Requests == SettingsUpdates \cup BaselineCreates \cup DriftChecks \cup Adds \cup Reviews

ASSUME RequestAssumption ==
    /\ SettingsUpdates \cap (BaselineCreates \cup DriftChecks \cup Adds \cup Reviews) = {}
    /\ BaselineCreates \cap (DriftChecks \cup Adds \cup Reviews) = {}
    /\ DriftChecks \cap (Adds \cup Reviews) = {}
    /\ Adds \cap Reviews = {}
    /\ Nobody \notin Requests

\* SettingsUpdate, in the order its fields are written.
First == "snapshot_interval_seconds"
Second == "retention_days"
Keys == {First, Second}

Row == [value : Values, version : Nat \ {0}]

\* A file: its ordinary lines, and its lines with a password or a token.
Content == [plain : Values, secret : Values]

ReviewStatuses == {"PENDING", "APPROVED", "REJECTED"}

VARIABLES
    autoflush,      \* does reading the second setting write the first one
    settings,       \* [Keys -> SUBSET Row], empty when the key has no row
    baselines,      \* rows of config_baselines: [path, redacted, by]
    documents,      \* rows of knowledge_fts: [id, by, review_status]; an id may have several
    lock,           \* holder of the main database's write lock, or Nobody
    pc,             \* [Requests -> where the request is]
    read,           \* [SettingsUpdates -> [Keys -> SUBSET Row]], as the request saw them
    body,           \* [SettingsUpdates -> [Keys -> Values]]
    path,           \* [BaselineCreates -> SUBSET Paths], the path found free
    audited,        \* requests recorded by an audit event
    answers,        \* history: [path, content, changed] of the drift checks
    disturbed,      \* history: updates during which another one committed
    decided         \* history: what knowledge requests wrote: [by, id, review_status]

main == <<settings, baselines, lock, audited>>
knowledge == <<documents, decided>>
recordsVars == <<autoflush, main, knowledge, pc, read, body, path, answers, disturbed>>

RecordsInit ==
    /\ autoflush \in BOOLEAN
    /\ settings = [k \in Keys |-> {}]
    /\ baselines = {} /\ documents = {}
    /\ lock = Nobody
    /\ pc = [j \in Requests |-> "idle"]
    /\ read = [s \in SettingsUpdates |-> [k \in Keys |-> {}]]
    /\ body \in [SettingsUpdates -> [Keys -> Values]]
    /\ path = [b \in BaselineCreates |-> {}]
    /\ audited = {} /\ answers = {} /\ disturbed = {} /\ decided = {}

Move(j, from, to) == pc[j] = from /\ pc' = [pc EXCEPT ![j] = to]

\* db.commit() of a request's rows together with its audit event.
Record(j) ==
    /\ lock \in {Nobody, j}
    /\ lock' = Nobody
    /\ audited' = audited \cup {j}

-----------------------------------------------------------------------------
(* update_settings *)

ReadFirst(s) ==
    /\ Move(s, "idle", "first")
    /\ read' = [read EXCEPT ![s][First] = settings[First]]
    /\ UNCHANGED <<autoflush, main, knowledge, body, path, answers, disturbed>>

\* A key found absent is inserted, which fails when it has a row by now.
Insertable(s, k) == read[s][k] = {} => settings[k] = {}

\* With autoflush the first row is written now, and the lock kept.
ReadSecond(s) ==
    /\ Move(s, "first", IF autoflush /\ ~Insertable(s, First) THEN "ended" ELSE "both")
    /\ read' = [read EXCEPT ![s][Second] = settings[Second]]
    /\ IF autoflush
         THEN lock = Nobody /\ lock' = IF Insertable(s, First) THEN s ELSE Nobody
         ELSE UNCHANGED lock
    /\ UNCHANGED <<autoflush, settings, baselines, audited, knowledge, body, path, answers, disturbed>>

\* The session writes a column when it differs from what was read.
Written(s, k) ==
    IF read[s][k] = {} THEN {[value |-> body[s][k], version |-> 1]}
    ELSE {[value |-> IF body[s][k] = old.value THEN now.value ELSE body[s][k],
           version |-> old.version + 1] : old \in read[s][k], now \in settings[k]}

\* Mutant: only a key that has no row yet is taken from the body.
CommitSettings_Keep(s) ==
    /\ Move(s, "both", "ended")
    /\ Record(s)
    /\ settings' = [k \in Keys |-> IF settings[k] = {} THEN Written(s, k) ELSE settings[k]]
    /\ disturbed' = disturbed \cup {t \in SettingsUpdates \ {s} : pc[t] \in {"first", "both"}}
    /\ UNCHANGED <<autoflush, baselines, knowledge, read, body, path, answers>>

CommitSettings(s) ==
    /\ Move(s, "both", "ended")
    /\ \A k \in Keys : Insertable(s, k)
    /\ Record(s)
    /\ settings' = [k \in Keys |-> Written(s, k)]
    /\ disturbed' = disturbed \cup {t \in SettingsUpdates \ {s} : pc[t] \in {"first", "both"}}
    /\ UNCHANGED <<autoflush, baselines, knowledge, read, body, path, answers>>

-----------------------------------------------------------------------------
(* create_config_baseline, check_config_drift *)

\* "baseline already exists", or on.
CheckPath(b) == \E p \in Paths :
    /\ Move(b, "idle", IF \E x \in baselines : x.path = p THEN "ended" ELSE "free")
    /\ path' = [path EXCEPT ![b] = {p}]
    /\ UNCHANGED <<autoflush, main, knowledge, read, body, answers, disturbed>>

\* redact_line on every line
Redacted(content) == content.plain

\* Mutant: path_ref is not unique.
Unique_Not(p) == p \in Paths

\* The UNIQUE constraint of ConfigBaseline.path_ref.
Unique(p) == ~ \E x \in baselines : x.path = p

CreateBaseline(b) == \E p \in path[b], content \in Content :
    /\ Move(b, "free", "ended")
    /\ Unique(p)
    /\ Record(b)
    /\ baselines' = baselines \cup {[path |-> p, redacted |-> Redacted(content), by |-> b]}
    /\ UNCHANGED <<autoflush, settings, knowledge, read, body, path, answers, disturbed>>

\* detect_drift
Changed(baseline, content) == baseline.redacted # Redacted(content)

\* A path without a baseline is answered NOT_FOUND.
CheckDrift(d) == \E p \in Paths, content \in Content :
    /\ Move(d, "idle", "ended")
    /\ IF \E x \in baselines : x.path = p
         THEN \E x \in baselines :
                /\ x.path = p
                /\ answers' = answers \cup {[path |-> p, content |-> content, changed |-> Changed(x, content)]}
         ELSE UNCHANGED answers
    /\ UNCHANGED <<autoflush, main, knowledge, read, body, path, disturbed>>

-----------------------------------------------------------------------------
(* add_knowledge, review_knowledge: the knowledge base commits first, the   *)
(* audit event follows in the main database.                               *)

Add(a) == \E d \in Documents, status \in ReviewStatuses :
    /\ Move(a, "idle", "applied")
    /\ documents' = documents \cup {[id |-> d, by |-> a, review_status |-> status]}
    /\ decided' = decided \cup {[by |-> a, id |-> d, review_status |-> status]}
    /\ UNCHANGED <<autoflush, main, read, body, path, answers, disturbed>>

Reviewed(d, status) == {IF x.id = d THEN [x EXCEPT !.review_status = status] ELSE x : x \in documents}

\* Mutant: the number of rows the update changed is not looked at.
Review_Unseen(r) == \E d \in Documents, status \in ReviewStatuses \ {"PENDING"} :
    /\ Move(r, "idle", "applied")
    /\ documents' = Reviewed(d, status)
    /\ decided' = IF \E x \in documents : x.id = d
                  THEN decided \cup {[by |-> r, id |-> d, review_status |-> status]} ELSE decided
    /\ UNCHANGED <<autoflush, main, read, body, path, answers, disturbed>>

\* Every row of the document, or "document not found".
Review(r) == \E d \in Documents, status \in ReviewStatuses \ {"PENDING"} :
    /\ Move(r, "idle", IF \E x \in documents : x.id = d THEN "applied" ELSE "ended")
    /\ documents' = Reviewed(d, status)
    /\ decided' = IF \E x \in documents : x.id = d
                  THEN decided \cup {[by |-> r, id |-> d, review_status |-> status]} ELSE decided
    /\ UNCHANGED <<autoflush, main, read, body, path, answers, disturbed>>

RecordKnowledge(j) ==
    /\ Move(j, "applied", "ended")
    /\ Record(j)
    /\ UNCHANGED <<autoflush, settings, baselines, knowledge, read, body, path, answers, disturbed>>

\* search_approved: what the agent may quote.
Approved == {x.id : x \in {y \in documents : y.review_status = "APPROVED"}}

-----------------------------------------------------------------------------
\* An exception, a constraint or the end of the process: the session rolls back.
Fail(j) ==
    /\ pc[j] \notin {"idle", "ended", "dead"}
    /\ pc' = [pc EXCEPT ![j] = "dead"]
    /\ lock' = IF lock = j THEN Nobody ELSE lock
    /\ UNCHANGED <<autoflush, settings, baselines, audited, knowledge, read, body, path, answers, disturbed>>

RecordsNext ==
    \/ \E s \in SettingsUpdates : ReadFirst(s) \/ ReadSecond(s) \/ CommitSettings(s)
    \/ \E b \in BaselineCreates : CheckPath(b) \/ CreateBaseline(b)
    \/ \E d \in DriftChecks : CheckDrift(d)
    \/ \E a \in Adds : Add(a)
    \/ \E r \in Reviews : Review(r)
    \/ \E j \in Adds \cup Reviews : RecordKnowledge(j)
    \/ \E j \in Requests : Fail(j)

RecordsSpec == RecordsInit /\ [][RecordsNext]_recordsVars

-----------------------------------------------------------------------------
(* Properties                                                              *)

\* An update of the settings beside which no other one committed leaves exactly
\* its own values, both of them and each one version on, although it
\* writes row by row and only the columns it believes changed
\* (router.py:1276-1284).  Beside another one it may leave a mixture.
UndisturbedUpdateIsWhole ==
    [][\A s \in SettingsUpdates :
         s \in audited' \ audited /\ s \notin disturbed =>
            \A k \in Keys : \E row \in settings'[k] :
                /\ row.value = body[s][k]
                /\ \A old \in settings[k] : row.version = old.version + 1]_recordsVars

\* Whatever a drift check answered, it would answer now: a path has one
\* baseline, although two requests may both find the path free
\* (router.py:1114-1127, models.py:256), and a baseline is never changed.
DriftAnswersStand ==
    \A a \in answers : \A x \in baselines : x.path = a.path => a.changed = Changed(x, a.content)

\* An audit event of the knowledge base tells of a change that was made, and a
\* change without an event belongs to a request still at work or broken off
\* between its two databases (router.py:913-919, 944-954).  What the agent may
\* quote was approved by one of those changes.
KnowledgeAuditIsTrue ==
    /\ \A j \in audited \cap (Adds \cup Reviews) : \E x \in decided : x.by = j
    /\ \A x \in decided : x.by \in audited \/ pc[x.by] \in {"applied", "dead"}
    /\ \A d \in Approved : [id |-> d, review_status |-> "APPROVED"] \in
                              {[id |-> x.id, review_status |-> x.review_status] : x \in decided}

=============================================================================

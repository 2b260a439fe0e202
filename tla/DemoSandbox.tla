---------------------------- MODULE DemoSandbox ----------------------------
(***************************************************************************)
(* Executions in DEMO mode: DemoControlledExecutor                         *)
(* (executor/controlled.py), the process-wide DemoExecutionService that    *)
(* owns it (executor/demo_service.py), and execution_run and reset_demo    *)
(* (api/router.py) around them.                                            *)
(*                                                                         *)
(* A reset makes a new sandbox with a new executor: new candidates, no     *)
(* changes, and an ApprovalTokenManager that remembers no token.  A run    *)
(* keeps the executor it took.  Handlers run in a thread pool and nothing  *)
(* locks a sandbox; only the commit is one step.                           *)
(*                                                                         *)
(* One file of the sandbox and its one process stand for all; a content is *)
(* named by the run that wrote it.                                         *)
(***************************************************************************)
EXTENDS Integers, FiniteSets, Sequences

CONSTANTS
    Runs,           \* requests: POST /executions/run; a run that acts names its change
    Tokens,         \* approvals, by their token
    MaxResets,      \* bound: calls of POST /demo/reset after the first
    Original,       \* the content reset_demo writes
    Absent          \* no file, no change

ASSUME DemoAssumption ==
    /\ Original \notin Runs /\ Absent \notin Runs /\ Original # Absent
    /\ MaxResets \in Nat

Boxes == 1..(MaxResets + 1)
Tools == {"safe_log_cleanup", "config_safe_update", "service_restart", "terminate_process",
          "rollback_change"}

Files == Runs \cup {Original, Absent}

\* Progress of a run; "undo" to "unlinked" is rollback().
RunPlaces == {"idle", "selected", "unseen", "consumed", "copied", "written", "undo", "unlinked",
           "acted", "rejected", "error", "ended"}

TokenRecord == [status : {"none", "APPROVED", "CONSUMED"}, tool : Tools, box : Boxes,
                change : Runs \cup {Absent}, blank : BOOLEAN]

RunRecord == [pc : RunPlaces, token : SUBSET Tokens, box : Boxes,
              undo : Runs \cup {Absent}, fault : BOOLEAN]

VARIABLES
    box,            \* sandbox of demo_execution_service.executor
    file, temp,     \* by sandbox: the file, and what replaces it
    process,        \* sandboxes whose process 4242 is there
    backup,         \* change -> the file in .backups
    changes,        \* by sandbox: _changes
    consumed,       \* by sandbox: nonces the token manager remembers
    token,          \* the rows of approvals
    rows,           \* the rows of executions
    run,
    acts,           \* history: sandbox, token and run that acted
    raced,          \* history: sandboxes and tokens two runs looked up at once
    stack,          \* history: by sandbox, the changes of the file in effect, unless astray
    astray          \* history: sandboxes where handlers overlapped, or an earlier change was undone

demoVars == <<box, file, temp, process, backup, changes, consumed, token, rows, run, acts, raced, stack, astray>>
sandbox == <<file, temp, process, backup, changes, consumed>>
history == <<acts, raced, stack, astray>>

DemoInit ==
    /\ box = 1
    /\ file = [b \in Boxes |-> IF b = 1 THEN Original ELSE Absent]
    /\ temp = [b \in Boxes |-> Absent]
    /\ process = {1}
    /\ backup = [r \in Runs |-> Absent]
    /\ changes = [b \in Boxes |-> {}] /\ consumed = [b \in Boxes |-> {}]
    /\ token = [t \in Tokens |-> [status |-> "none", tool |-> "service_restart", box |-> 1,
                                  change |-> Absent, blank |-> FALSE]]
    /\ rows = {}
    /\ run = [r \in Runs |-> [pc |-> "idle", token |-> {}, box |-> 1, undo |-> Absent,
                              fault |-> FALSE]]
    /\ acts = {} /\ raced = {} /\ astray = {}
    /\ stack = [b \in Boxes |-> <<>>]

Proceed(r, from, to) == run[r].pc = from /\ run' = [run EXCEPT ![r].pc = to]

\* DemoExecutionService.reset
Reset ==
    /\ box <= MaxResets
    /\ box' = box + 1
    /\ file' = [file EXCEPT ![box + 1] = Original]
    /\ process' = process \cup {box + 1}
    /\ UNCHANGED <<temp, backup, changes, consumed, token, rows, run, history>>

\* An approval for the sandbox of the moment was requested, decided and claimed.
Approve(t) == \E tool \in Tools, change \in Runs \cup {Absent}, blank \in BOOLEAN :
    /\ token[t].status = "none"
    /\ tool = "rollback_change" <=> change # Absent
    /\ change # Absent => \E x \in rows : x.run = change /\ x.status # "FAILED"
    /\ blank => tool = "config_safe_update"
    /\ token' = [token EXCEPT ![t] = [status |-> "APPROVED", tool |-> tool, box |-> box,
                                      change |-> change, blank |-> blank]]
    /\ UNCHANGED <<box, sandbox, rows, run, history>>

-----------------------------------------------------------------------------
(* execution_run up to the handler *)

\* _validate_arguments: the candidate, the process or the change is one of this executor.
Valid(t, b) ==
    /\ token[t].tool \in {"safe_log_cleanup", "config_safe_update"} => token[t].box = b
    /\ token[t].tool = "terminate_process" => b \in process

\* The row is read; the executor of the moment validates.
Select(r) == \E t \in Tokens, fault \in BOOLEAN :
    /\ token[t].status = "APPROVED"
    /\ run[r].pc = "idle"
    /\ run' = [run EXCEPT ![r] = [pc |-> IF Valid(t, box) THEN "selected" ELSE "rejected",
                                  token |-> {t}, box |-> box, undo |-> Absent, fault |-> fault]]
    /\ UNCHANGED <<box, sandbox, token, rows, history>>

\* Mutant: a token manager for each request.
CheckNonce_Fresh(r) ==
    /\ Proceed(r, "selected", "unseen")
    /\ UNCHANGED <<box, sandbox, token, rows, history>>

\* consume: the nonce is looked up ...
CheckNonce(r) == \E t \in run[r].token :
    /\ Proceed(r, "selected", IF t \in consumed[run[r].box] THEN "rejected" ELSE "unseen")
    /\ raced' = IF \E q \in Runs : run[q].pc = "unseen" /\ run[q].box = run[r].box
                                   /\ t \in run[q].token
                THEN raced \cup {[box |-> run[r].box, token |-> t]} ELSE raced
    /\ UNCHANGED <<box, sandbox, token, rows, acts, stack, astray>>

\* A handler is at work.
Handling(r) == run[r].pc \in {"consumed", "copied", "written", "undo", "unlinked"}

\* ... and added, by another statement.
AddNonce(r) == \E t \in run[r].token :
    /\ Proceed(r, "unseen", "consumed")
    /\ consumed' = [consumed EXCEPT ![run[r].box] = @ \cup {t}]
    /\ astray' = IF \E q \in Runs : Handling(q) /\ run[q].box = run[r].box
                 THEN astray \cup {run[r].box} ELSE astray
    /\ UNCHANGED <<box, file, temp, process, backup, changes, token, rows, acts, raced, stack>>

-----------------------------------------------------------------------------
(* The handlers *)

The(r) == CHOOSE t \in Tokens : t \in run[r].token
Uses(r, tool) == \E t \in run[r].token : token[t].tool = tool

\* _record, after which a fault rolls the change back.
Acted(r) ==
    /\ changes' = [changes EXCEPT ![run[r].box] = @ \cup {r}]
    /\ acts' = acts \cup {[box |-> run[r].box, token |-> The(r), run |-> r]}
    /\ run' = [run EXCEPT ![r].pc = IF run[r].fault THEN "undo" ELSE "acted",
                          ![r].undo = IF run[r].fault THEN r ELSE Absent]
    /\ stack' = IF Uses(r, "safe_log_cleanup") \/ Uses(r, "config_safe_update")
                THEN [stack EXCEPT ![run[r].box] = <<r>> \o @] ELSE stack

Errs(r) ==
    /\ run' = [run EXCEPT ![r].pc = "error"]
    /\ UNCHANGED <<changes, acts, stack>>

RestartService(r) ==
    /\ run[r].pc = "consumed" /\ Uses(r, "service_restart")
    /\ Acted(r)
    /\ UNCHANGED <<box, file, temp, process, backup, consumed, token, rows, raced, astray>>

\* _processes.pop: KeyError if another run was faster.
TerminateProcess(r) ==
    /\ run[r].pc = "consumed" /\ Uses(r, "terminate_process")
    /\ process' = process \ {run[r].box}
    /\ IF run[r].box \in process THEN Acted(r) ELSE Errs(r)
    /\ UNCHANGED <<box, file, temp, backup, consumed, token, rows, raced, astray>>

\* shutil.move into the backups: FileNotFoundError if it is there already.
CleanLog(r) ==
    LET b == run[r].box IN
    /\ run[r].pc = "consumed" /\ Uses(r, "safe_log_cleanup")
    /\ IF file[b] # Absent
       THEN /\ backup' = [backup EXCEPT ![r] = file[b]]
            /\ file' = [file EXCEPT ![b] = Absent]
            /\ Acted(r)
       ELSE Errs(r) /\ UNCHANGED <<file, backup>>
    /\ UNCHANGED <<box, temp, process, consumed, token, rows, raced, astray>>

CopyConfig(r) ==
    LET b == run[r].box IN
    /\ Uses(r, "config_safe_update")
    /\ Proceed(r, "consumed", IF file[b] # Absent THEN "copied" ELSE "error")
    /\ backup' = [backup EXCEPT ![r] = file[b]]
    /\ UNCHANGED <<box, file, temp, process, changes, consumed, token, rows, history>>

\* All updates of a file write the same temporary file.
WriteConfig(r) ==
    /\ Proceed(r, "copied", "written")
    /\ temp' = [temp EXCEPT ![run[r].box] = r]
    /\ UNCHANGED <<box, file, process, backup, changes, consumed, token, rows, history>>

\* Its own content is looked at; what replaces the file is the temporary file.
ReplaceConfig(r) ==
    LET b == run[r].box IN
    /\ run[r].pc = "written"
    /\ temp' = [temp EXCEPT ![b] = Absent]
    /\ \/ /\ token[The(r)].blank
          /\ run' = [run EXCEPT ![r].pc = "rejected"]
          /\ UNCHANGED <<file, changes, acts, stack>>
       \/ /\ ~token[The(r)].blank /\ temp[b] = Absent
          /\ Errs(r) /\ UNCHANGED file
       \/ /\ ~token[The(r)].blank /\ temp[b] # Absent
          /\ file' = [file EXCEPT ![b] = temp[b]]
          /\ Acted(r)
    /\ UNCHANGED <<box, process, backup, consumed, token, rows, raced, astray>>

\* _rollback_change: CHANGE_NOT_FOUND, or on to rollback().
FindChange(r) ==
    LET c == token[The(r)].change IN
    /\ run[r].pc = "consumed" /\ Uses(r, "rollback_change")
    /\ run' = [run EXCEPT ![r].pc = IF c \in changes[run[r].box] THEN "undo" ELSE "rejected",
                          ![r].undo = c]
    /\ UNCHANGED <<box, sandbox, token, rows, history>>

\* Mutant: the target is cleared although there is nothing to move back.
ClearTarget_Always(r) ==
    /\ Proceed(r, "undo", IF backup[run[r].undo] = Absent THEN "acted" ELSE "unlinked")
    /\ file' = [file EXCEPT ![run[r].box] = Absent]
    /\ UNCHANGED <<box, temp, process, backup, changes, consumed, token, rows, history>>

\* rollback(): without a backup nothing is done, else the target is cleared ...
ClearTarget(r) ==
    LET c == run[r].undo IN
    /\ Proceed(r, "undo", IF backup[c] = Absent THEN "acted" ELSE "unlinked")
    /\ file' = IF backup[c] = Absent THEN file ELSE [file EXCEPT ![run[r].box] = Absent]
    /\ UNCHANGED <<box, temp, process, backup, changes, consumed, token, rows, history>>

\* ... and the backup moved there, over what came meanwhile; FileNotFoundError if it is gone.
MoveBack(r) ==
    LET c == run[r].undo
        b == run[r].box IN
    /\ Proceed(r, "unlinked", IF backup[c] = Absent THEN "error" ELSE "acted")
    /\ IF backup[c] = Absent THEN UNCHANGED <<file, backup, stack, astray>>
       ELSE /\ file' = [file EXCEPT ![b] = backup[c]]
            /\ backup' = [backup EXCEPT ![c] = Absent]
            /\ IF Head(stack[b]) = c
               THEN stack' = [stack EXCEPT ![b] = Tail(@)] /\ UNCHANGED astray
               ELSE astray' = astray \cup {b} /\ UNCHANGED stack
    /\ UNCHANGED <<box, temp, process, changes, consumed, token, rows, acts, raced>>

-----------------------------------------------------------------------------
(* The end of execution_run *)

\* One commit: the approval and its one execution row.  The second row of an approval violates
\* UNIQUE, and the whole transaction is undone.  A rollback that succeeds adds no row.
Commit(r, t, status) ==
    IF \E x \in rows : x.token = t THEN UNCHANGED <<token, rows>>
    ELSE /\ token' = [token EXCEPT ![t].status = "CONSUMED"]
         /\ rows' = rows \cup {[token |-> t, run |-> r, status |-> status]}

Succeed(r) == \E t \in run[r].token :
    /\ Proceed(r, "acted", "ended")
    /\ IF token[t].tool = "rollback_change"
       THEN token' = [token EXCEPT ![t].status = "CONSUMED"] /\ UNCHANGED rows
       ELSE Commit(r, t, IF run[r].fault THEN "ROLLED_BACK" ELSE "SUCCEEDED")
    /\ UNCHANGED <<box, sandbox, history>>

Reject(r) == \E t \in run[r].token :
    /\ Proceed(r, "rejected", "ended")
    /\ Commit(r, t, "FAILED")
    /\ UNCHANGED <<box, sandbox, history>>

\* Any other exception: the session is rolled back, the approval stays as it was.
Crash(r) ==
    /\ Proceed(r, "error", "ended")
    /\ UNCHANGED <<box, sandbox, token, rows, history>>

DemoNext ==
    \/ Reset
    \/ \E t \in Tokens : Approve(t)
    \/ \E r \in Runs :
        \/ Select(r) \/ CheckNonce(r) \/ AddNonce(r)
        \/ RestartService(r) \/ TerminateProcess(r) \/ CleanLog(r)
        \/ CopyConfig(r) \/ WriteConfig(r) \/ ReplaceConfig(r)
        \/ FindChange(r) \/ ClearTarget(r) \/ MoveBack(r)
        \/ Succeed(r) \/ Reject(r) \/ Crash(r)

DemoSpec == DemoInit /\ [][DemoNext]_demoVars

-----------------------------------------------------------------------------
\* A token changes a sandbox at most once, also when the transaction that would have marked it
\* consumed was undone and the token is presented again, and also when a reset comes between;
\* unless two runs looked the nonce up before either had added it (approval.py:70-82,
\* controlled.py:66-73, demo_service.py:21).
TokenActsOncePerSandbox == \A a, b \in acts :
    a.box = b.box /\ a.token = b.token /\ a.run # b.run
        => [box |-> a.box, token |-> a.token] \in raced

\* As long as handlers do not overlap and the latest change is undone first, the changes of a
\* sandbox's file are a stack: the file is what the latest change in effect made of it, and what
\* the sandbox began with when all are undone; also after faults, rejected updates, runs whose
\* transaction was undone, and a change rolled back twice (controlled.py:83-103, 105-137).
ChangesStack == \A b \in 1..box \ astray :
    (\A r \in Runs : run[r].box = b => ~Handling(r)) =>
        IF stack[b] = <<>> THEN file[b] = Original
        ELSE file[b] = IF Uses(Head(stack[b]), "safe_log_cleanup") THEN Absent ELSE Head(stack[b])

=============================================================================

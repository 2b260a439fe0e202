----------------------------- MODULE SerialLog -----------------------------
(***************************************************************************)
(* What the audit trail promises, whoever writes to it: transactions one   *)
(* after another, each of which appends all its events in one step, chains *)
(* them to the end and is gone.  What was appended never changes.          *)
(***************************************************************************)
EXTENDS Naturals, Sequences

CONSTANTS Writers, None
VARIABLES log, done

Init == log = <<>> /\ done = {}

\* The batch is what log' has beyond log: not empty, chained, under new ids.
AppendBatch(w) ==
    /\ w \notin done /\ done' = done \cup {w}
    /\ Len(log) < Len(log') /\ \A i \in 1..Len(log) : log'[i] = log[i]
    /\ \A i \in Len(log) + 1..Len(log') :
         /\ log'[i].previous = IF i = 1 THEN None ELSE log'[i - 1].id
         /\ \A j \in 1..i - 1 : log'[j].id # log'[i].id

Next == \E w \in Writers : AppendBatch(w)

Spec == Init /\ [][Next]_<<log, done>>

=============================================================================

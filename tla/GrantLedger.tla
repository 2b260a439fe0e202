----------------------------- MODULE GrantLedger -----------------------------
(***************************************************************************)
(* What the one-time approval of the execution broker comes down to: an    *)
(* account of grants.  An approve decision earns one, starting the         *)
(* privileged helper spends one, and nothing is spent that was not earned. *)
(* A crash, a lost answer or a repeated request never gives one back.      *)
(***************************************************************************)
EXTENDS Naturals

CONSTANT Accounts
VARIABLES earned, spent

Init ==
    /\ earned = [a \in Accounts |-> 0]
    /\ spent = [a \in Accounts |-> 0]

Earn(a) ==
    /\ earned' = [earned EXCEPT ![a] = @ + 1]
    /\ UNCHANGED spent

Spend(a) ==
    /\ spent[a] < earned[a]
    /\ spent' = [spent EXCEPT ![a] = @ + 1]
    /\ UNCHANGED earned

Next == \E a \in Accounts : Earn(a) \/ Spend(a)

Spec == Init /\ [][Next]_<<earned, spent>>

=============================================================================

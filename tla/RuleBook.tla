------------------------------ MODULE RuleBook ------------------------------
(***************************************************************************)
(* What the HTTP lane promises the client of a create, whatever number of  *)
(* servers and stores is behind it.  A rule is kept for ever once it is    *)
(* kept.  "created" comes with the rule and its event, in one step.  A     *)
(* refusal means that there is no rule and never will be.  A client that   *)
(* learns neither may have a rule, now or later, but nobody is told of it. *)
(***************************************************************************)
CONSTANT Requests

VARIABLES
    kept,       \* requests whose rule is stored
    told,       \* requests whose rule was announced to the sockets
    outcome     \* what each client knows

vars == <<kept, told, outcome>>

Init ==
    /\ kept = {}
    /\ told = {}
    /\ outcome = [h \in Requests |-> "open"]

(* Also for a client that has given up. *)
Keep(h) ==
    /\ outcome[h] \in {"open", "unknown"}
    /\ kept' = kept \cup {h}
    /\ UNCHANGED <<told, outcome>>

Confirm(h) ==
    /\ outcome[h] = "open"
    /\ kept' = kept \cup {h}
    /\ told' = told \cup {h}
    /\ outcome' = [outcome EXCEPT ![h] = "created"]

Refuse(h) ==
    /\ outcome[h] = "open"
    /\ h \notin kept
    /\ outcome' = [outcome EXCEPT ![h] = "refused"]
    /\ UNCHANGED <<kept, told>>

(* An error of the store, a dropped connection, or an answer that is about *)
(* other rules.                                                            *)
GiveUp(h) ==
    /\ outcome[h] = "open"
    /\ outcome' = [outcome EXCEPT ![h] = "unknown"]
    /\ UNCHANGED <<kept, told>>

Next == \E h \in Requests : Keep(h) \/ Confirm(h) \/ Refuse(h) \/ GiveUp(h)

Spec == Init /\ [][Next]_vars
=============================================================================

---------------------------- MODULE RequestReply ----------------------------
(***************************************************************************)
(* What the durable JetStream lane promises the web server.  A requester   *)
(* asks under a correlation id.  A correlation id gets at most one answer, *)
(* for somebody who asked under it, and the answer never changes.  Only an *)
(* answer that was given is published, and every answer is.                *)
(***************************************************************************)
CONSTANTS Correlations, Owners, Unanswered

VARIABLES
    asked,      \* pairs of a correlation id and the owner that asked under it
    answer,     \* the owner that each correlation id was answered for
    published   \* correlation ids whose answer the web server can read

vars == <<asked, answer, published>>

Init ==
    /\ asked = {}
    /\ answer = [c \in Correlations |-> Unanswered]
    /\ published = {}

Ask(c, o) ==
    /\ asked' = asked \cup {<<c, o>>}
    /\ UNCHANGED <<answer, published>>

Answer(c, o) ==
    /\ <<c, o>> \in asked
    /\ answer[c] = Unanswered
    /\ answer' = [answer EXCEPT ![c] = o]
    /\ UNCHANGED <<asked, published>>

Publish(c) ==
    /\ answer[c] # Unanswered
    /\ published' = published \cup {c}
    /\ UNCHANGED <<asked, answer>>

Next ==
    \E c \in Correlations :
        \/ Publish(c)
        \/ \E o \in Owners : Ask(c, o) \/ Answer(c, o)

Spec == Init /\ [][Next]_vars

FairSpec == Spec /\ \A c \in Correlations : WF_vars(Publish(c))
=============================================================================

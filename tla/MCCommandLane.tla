--------------------------- MODULE MCCommandLane ---------------------------
(***************************************************************************)
(* Instances of CommandLane for TLC.                                       *)
(***************************************************************************)
EXTENDS CommandLane, TLC

(* A well-formed command, signed by the web server. *)
Signed(event, correlation, dedupe, subject, deadline) ==
    LET c == [oversized |-> FALSE, parses |-> TRUE, dedupe_bounded |-> TRUE,
              envelope_bounded |-> TRUE, event_id |-> event,
              correlation_id |-> correlation, operation_id |-> correlation,
              dedupe_key |-> dedupe, product_tenant |-> "eal", op_tenant |-> "eal",
              actor_subject |-> subject, deadline |-> deadline]
    IN  c @@ [signature |-> [key |-> CommandKey, bytes |-> command_signing_bytes(c)]]

Request == Signed("e1", "c1", "d1", "alice", 1)

MCCommand == [
    request  |-> Request,
    \* the correlation id again, for other work
    reused   |-> Signed("e3", "c1", "d3", "bob", 2),
    other    |-> Signed("e4", "c4", "d4", "bob", 2),
    \* a signature made for another subject
    resigned |-> [Signed("e5", "c5", "d5", "bob", 2) EXCEPT !.actor_subject = "alice"]]

(* The processes run the same code and share no identity with the data. *)
ServerSymmetry == Permutations(Servers)
=============================================================================

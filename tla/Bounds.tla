------------------------------- MODULE Bounds -------------------------------
(***************************************************************************)
(* The bounds that src/src/model.rs puts on an alert rule and              *)
(* src/src/transport.rs on a command, and the CHECK constraints of         *)
(* src/migrations/0001_four_mode_transport.sql on the rows made from them. *)
(*                                                                         *)
(* A text is known by its length in UTF-8 bytes and in characters, by the  *)
(* white space at its ends, which trim() removes, and by whether it has a  *)
(* control character.  Rust counts bytes, PostgreSQL characters.           *)
(***************************************************************************)
EXTENDS Integers, Sequences

MAX_ALERT_NAME_BYTES == 160
MAX_QUERY_BYTES == 8 * 1024
MAX_MODEL_BYTES == 128
MAX_LIST_ITEMS == 32
MAX_LIST_ITEM_BYTES == 256

(* A character takes one to four bytes. *)
Spans(bytes, chars) == chars <= bytes /\ bytes <= 4 * chars

Text ==
    {t \in [bytes : Nat, chars : Nat, pad_bytes : Nat, pad_chars : Nat,
            control : BOOLEAN] :
        /\ t.pad_chars <= t.chars
        /\ Spans(t.pad_bytes, t.pad_chars)
        /\ Spans(t.bytes - t.pad_bytes, t.chars - t.pad_chars)}

trim(t) ==
    [bytes |-> t.bytes - t.pad_bytes, chars |-> t.chars - t.pad_chars,
     pad_bytes |-> 0, pad_chars |-> 0, control |-> t.control]

(* Mutant: white space counts as text. *)
ValidateUntrimmed(t, max) ==
    /\ t.chars > 0
    /\ t.bytes <= max
    /\ ~t.control

validate_text(t, max) ==
    /\ trim(t).chars > 0
    /\ t.bytes <= max
    /\ ~t.control

validate_list(texts) ==
    /\ Len(texts) <= MAX_LIST_ITEMS
    /\ \A i \in DOMAIN texts : validate_text(texts[i], MAX_LIST_ITEM_BYTES)

normalize_list(texts) == [i \in DOMAIN texts |-> trim(texts[i])]

(* CreateAlertRule, without the fields that nothing bounds. *)
Inputs ==
    [name : Text, query_text : Text, embedding_model : Text,
     threshold_in_range : BOOLEAN, source_filters : Seq(Text),
     delivery_channels : Seq(Text)]

(* CreateAlertRule::validate.  threshold_in_range: finite and in 0.0..=1.0.*)
validate(input) ==
    /\ validate_text(input.name, MAX_ALERT_NAME_BYTES)
    /\ validate_text(input.query_text, MAX_QUERY_BYTES)
    /\ validate_text(input.embedding_model, MAX_MODEL_BYTES)
    /\ input.threshold_in_range
    /\ validate_list(input.source_filters)
    /\ validate_list(input.delivery_channels)

into_rule(input) ==
    [input EXCEPT !.name = trim(@), !.query_text = trim(@),
                  !.embedding_model = trim(@),
                  !.source_filters = normalize_list(@),
                  !.delivery_channels = normalize_list(@)]

(* length(query_text) BETWEEN 1 AND 8192. *)
MaxQueryChars == 8192

(* The CHECKs of eal_alert_rules; tenant is the length of the tenant. *)
RuleRowAccepted(tenant, rule) ==
    /\ tenant \in 1..64
    /\ rule.name.chars \in 1..160
    /\ rule.query_text.chars \in 1..MaxQueryChars
    /\ rule.embedding_model.chars \in 1..128
    /\ rule.threshold_in_range

-----------------------------------------------------------------------------
(* Identifiers are ASCII: [len |-> its length, in |-> the smallest of the  *)
(* alphabets "tenant" (lower case, digits, inner _ and -), "key" (capitals *)
(* and :), "identifier" (. and /) and "any" that it is written in].        *)

bounded_tenant(t) == t.len \in 1..64 /\ t.in = "tenant"

bounded_dedupe_key(t) == t.len \in 1..128 /\ t.in \in {"tenant", "key"}

bounded_identifier(t) == t.len \in 1..128 /\ t.in \in {"tenant", "key", "identifier"}

(* format!("reply:{}", dedupe_key). *)
ReplyKeyLength(key) == 6 + key.len

(* The CHECKs on the rows that process_command writes for a command. *)
CommandRowsAccepted(tenant, key) ==
    /\ tenant.len \in 1..64            \* inbox and status
    /\ key.len \in 1..128              \* inbox
    /\ ReplyKeyLength(key) \in 1..134  \* outbox
=============================================================================

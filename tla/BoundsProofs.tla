---------------------------- MODULE BoundsProofs ----------------------------
(***************************************************************************)
(* What the bounds of Rust mean for the CHECKs of PostgreSQL, for texts of *)
(* every length.                                                           *)
(***************************************************************************)
EXTENDS Bounds, TLAPS

(* trim() leaves a text with nothing more to trim, and none longer. *)
LEMMA TrimText ==
    ASSUME NEW t \in Text
    PROVE  /\ trim(t) \in Text
           /\ trim(t).chars = t.chars - t.pad_chars
           /\ trim(t).bytes \in 0..t.bytes
           /\ trim(t).chars \in 0..trim(t).bytes
           /\ trim(t).control = t.control
           /\ trim(trim(t)) = trim(t)
<1>. DEFINE u == trim(t)
<1>1. /\ t \in [bytes : Nat, chars : Nat, pad_bytes : Nat, pad_chars : Nat,
                control : BOOLEAN]
      /\ t.pad_chars <= t.chars
      /\ t.pad_chars <= t.pad_bytes
      /\ t.chars - t.pad_chars <= t.bytes - t.pad_bytes
      /\ t.bytes - t.pad_bytes <= 4 * (t.chars - t.pad_chars)
  BY DEF Text, Spans
<1>2. u = [bytes |-> t.bytes - t.pad_bytes, chars |-> t.chars - t.pad_chars,
           pad_bytes |-> 0, pad_chars |-> 0, control |-> t.control]
  BY <1>1 DEF trim
<1>3. t.bytes - t.pad_bytes \in 0..t.bytes /\ t.chars - t.pad_chars \in Nat
  BY <1>1
<1>4. u \in [bytes : Nat, chars : Nat, pad_bytes : Nat, pad_chars : Nat,
             control : BOOLEAN]
  BY <1>1, <1>2, <1>3
<1>5. u.bytes - 0 = u.bytes /\ u.chars - 0 = u.chars
  BY <1>4
<1>6. u \in Text
  BY <1>1, <1>2, <1>3, <1>4, <1>5 DEF Text, Spans
<1>7. trim(u) = u
  BY <1>2, <1>4, <1>5 DEF trim
<1>. QED
  BY <1>1, <1>2, <1>3, <1>6, <1>7

(* A text that validate_text accepts has, once trimmed, between one and    *)
(* max characters, and validate_text accepts it again.                     *)
LEMMA ValidText ==
    ASSUME NEW t \in Text, NEW max \in Nat, validate_text(t, max)
    PROVE  /\ trim(t).chars \in 1..max
           /\ validate_text(trim(t), max)
<1>. DEFINE u == trim(t)
<1>1. /\ u \in Text /\ u.chars \in 0..u.bytes /\ u.bytes \in 0..t.bytes
      /\ u.control = t.control /\ trim(u) = u
  BY TrimText
<1>2. t.bytes \in Nat
  BY DEF Text
<1>3. u.chars > 0 /\ t.bytes <= max /\ ~t.control
  BY DEF validate_text
<1>. HIDE DEF u
<1>4. u.chars \in 1..max /\ u.bytes <= max
  BY <1>1, <1>2, <1>3
<1>5. validate_text(u, max)
  BY <1>1, <1>3, <1>4 DEF validate_text
<1>. QED
  BY <1>4, <1>5 DEF u

(* A list that validate_list accepts is accepted again after               *)
(* normalize_list.                                                         *)
LEMMA ValidList ==
    ASSUME NEW texts \in Seq(Text), validate_list(texts)
    PROVE  /\ normalize_list(texts) \in Seq(Text)
           /\ validate_list(normalize_list(texts))
<1>. DEFINE list == normalize_list(texts)
<1>1. /\ DOMAIN texts = 1..Len(texts) /\ Len(texts) \in Nat
      /\ \A i \in DOMAIN texts : texts[i] \in Text
  OBVIOUS
<1>2. /\ DOMAIN list = DOMAIN texts
      /\ \A i \in DOMAIN texts : list[i] = trim(texts[i])
  BY DEF normalize_list
<1>3. list \in [1..Len(texts) -> Text]
  BY <1>1, TrimText DEF normalize_list
<1>4. list \in Seq(Text) /\ Len(list) = Len(texts)
  BY <1>1, <1>3
<1>5. \A i \in DOMAIN list : validate_text(list[i], MAX_LIST_ITEM_BYTES)
  BY <1>1, <1>2, ValidText DEF validate_list, MAX_LIST_ITEM_BYTES
<1>. QED
  BY <1>4, <1>5 DEF validate_list

(* Every rule that create_alert stores satisfies the CHECKs of             *)
(* eal_alert_rules, however its texts are padded and encoded: Rust counts  *)
(* the bytes before trim(), PostgreSQL the characters after it.            *)
THEOREM ValidRuleAccepted ==
    ASSUME NEW input \in Inputs, NEW tenant \in 1..64, validate(input)
    PROVE  RuleRowAccepted(tenant, into_rule(input))
<1>1. /\ input.name \in Text /\ input.query_text \in Text
      /\ input.embedding_model \in Text
  BY DEF Inputs
<1>2. /\ trim(input.name).chars \in 1..160
      /\ trim(input.query_text).chars \in 1..MaxQueryChars
      /\ trim(input.embedding_model).chars \in 1..128
  <2>1. trim(input.name).chars \in 1..160
    BY <1>1, ValidText, Zenon DEF validate, MAX_ALERT_NAME_BYTES
  <2>2. trim(input.query_text).chars \in 1..MaxQueryChars
    <3>1. MAX_QUERY_BYTES = MaxQueryChars /\ MAX_QUERY_BYTES \in Nat
      BY DEF MAX_QUERY_BYTES, MaxQueryChars
    <3>. QED
      BY <1>1, <3>1, ValidText DEF validate
  <2>3. trim(input.embedding_model).chars \in 1..128
    BY <1>1, ValidText, Zenon DEF validate, MAX_MODEL_BYTES
  <2>. QED
    BY <2>1, <2>2, <2>3
<1>3. /\ into_rule(input).name = trim(input.name)
      /\ into_rule(input).query_text = trim(input.query_text)
      /\ into_rule(input).embedding_model = trim(input.embedding_model)
      /\ into_rule(input).threshold_in_range = input.threshold_in_range
  BY DEF into_rule, Inputs
<1>4. into_rule(input).threshold_in_range
  BY <1>3 DEF validate
<1>5. /\ into_rule(input).name.chars \in 1..160
      /\ into_rule(input).query_text.chars \in 1..MaxQueryChars
      /\ into_rule(input).embedding_model.chars \in 1..128
  BY <1>2, <1>3
<1>. QED
  BY <1>4, <1>5, Zenon DEF RuleRowAccepted

(* A stored rule is valid input: a client may send back what it has read.  *)
THEOREM StoredRuleValidates ==
    ASSUME NEW input \in Inputs, validate(input)
    PROVE  validate(into_rule(input))
<1>1. /\ input.name \in Text /\ input.query_text \in Text
      /\ input.embedding_model \in Text
      /\ input.source_filters \in Seq(Text) /\ input.delivery_channels \in Seq(Text)
  BY DEF Inputs
<1>2. /\ into_rule(input).name = trim(input.name)
      /\ into_rule(input).query_text = trim(input.query_text)
      /\ into_rule(input).embedding_model = trim(input.embedding_model)
      /\ into_rule(input).threshold_in_range = input.threshold_in_range
      /\ into_rule(input).source_filters = normalize_list(input.source_filters)
      /\ into_rule(input).delivery_channels = normalize_list(input.delivery_channels)
  BY DEF into_rule, Inputs
<1>3. /\ validate_text(trim(input.name), MAX_ALERT_NAME_BYTES)
      /\ validate_text(trim(input.query_text), MAX_QUERY_BYTES)
      /\ validate_text(trim(input.embedding_model), MAX_MODEL_BYTES)
  BY <1>1, ValidText DEF validate, MAX_ALERT_NAME_BYTES, MAX_QUERY_BYTES, MAX_MODEL_BYTES
<1>4. /\ validate_list(normalize_list(input.source_filters))
      /\ validate_list(normalize_list(input.delivery_channels))
  BY <1>1, ValidList DEF validate
<1>. QED
  BY <1>2, <1>3, <1>4 DEF validate

(* The rows of a command that run_jetstream accepts satisfy the CHECKs of  *)
(* inbox, outbox and status, the longest dedupe key included, and its      *)
(* tenant could have been configured.                                      *)
THEOREM BoundedCommandAccepted ==
    ASSUME NEW tenant, NEW key, key.len \in Nat,
           bounded_tenant(tenant), bounded_dedupe_key(key)
    PROVE  CommandRowsAccepted(tenant, key) /\ bounded_identifier(tenant)
BY DEF bounded_tenant, bounded_dedupe_key, bounded_identifier, CommandRowsAccepted,
       ReplyKeyLength
=============================================================================

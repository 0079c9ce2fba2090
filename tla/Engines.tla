------------------------------ MODULE Engines -------------------------------
(***************************************************************************)
(* The pure engines of the pipeline, in the order process_document calls   *)
(* them: JSON Schema validation, flattening and JSONPath extraction,       *)
(* transformation, validation and the classification of what was refused.  *)
(* No engine keeps state, so each function is an operator.                 *)
(*                                                                         *)
(* A JSON value is a record with a kind.  Of a text the engines only tell  *)
(* apart its word, the numbers float() reads in it and the keywords of the *)
(* error heuristic that occur in it.  A JSONPath is the sequence of its    *)
(* steps, member names and "*" for [*], the only steps the metadata uses.  *)
(* An exception is the value Raised, which every later engine hands on.    *)
(* Numbers are the integers; JSON's fractions are left out, on which the   *)
(* library's [*] would raise.                                              *)
(***************************************************************************)
EXTENDS Integers, SequencesExt

CONSTANTS
  Floats,   \* the integers that fit a float: beyond them Python raises
  Instants  \* the seconds that datetime.fromtimestamp takes, years 1 to 9999

ASSUME EnginesAssumption == Instants \subseteq Floats /\ Floats \subseteq Int

Null   == [kind |-> "null"]
Raised == [kind |-> "raised"]

Number(n)     == [kind |-> "number", n |-> n]
Word(w)       == [kind |-> "text", word |-> w, reads |-> {}, mentions |-> {}]
Object(f)     == [kind |-> "object", fields |-> f]
Array(s)      == [kind |-> "array", items |-> s]

Kinds == {"null", "number", "text", "object", "array"}

\* A set of JSON values that holds, with a value, its members or elements.
HoldsParts(values) ==
  \A v \in values :
    /\ v.kind \in Kinds
    /\ v.kind = "object" => \A member \in DOMAIN v.fields : v.fields[member] \in values
    /\ v.kind = "array"  => v.items \in Seq(values)

\* record[column] = value: added, or put in place of what was there.
Assigned(record, column, value) ==
  [c \in DOMAIN record \cup {column} |-> IF c = column THEN value ELSE record[c]]

-----------------------------------------------------------------------------
(* jsonpath_extractor                                                      *)

\* Python's truth value of a JSON value.
IsFalsy(value) ==
  \/ value.kind = "null"
  \/ value.kind = "number" /\ value.n = 0
  \/ value.kind = "text"   /\ value.word = ""
  \/ value.kind = "array"  /\ value.items = <<>>
  \/ value.kind = "object" /\ DOMAIN value.fields = {}

\* The library takes what is no array, unless it is empty, for an array of
\* that one value.
AsArray(value) ==
  IF value.kind = "array" THEN value.items
  ELSE IF IsFalsy(value) THEN <<>> ELSE <<value>>

ChildrenAt(value, step) ==
  IF step = "*" THEN AsArray(value)
  ELSE IF value.kind = "object" /\ step \in DOMAIN value.fields
       THEN <<value.fields[step]>>
       ELSE <<>>

extract_all(payload, path) ==
  FoldLeft(LAMBDA found, step :
             FlattenSeq([i \in DOMAIN found |-> ChildrenAt(found[i], step)]),
           <<payload>>, path)

extract_value(payload, path) ==
  LET matches == extract_all(payload, path)
  IN IF matches = <<>> THEN Null ELSE matches[1]

\* A flattened row: the whole document and one element per flatten_config,
\* in execution order (the aliases of one definition are distinct).
\* Mutant: a row without elements is dropped.
ExplodeDropping(rows, config) ==
  FlattenSeq([r \in DOMAIN rows |->
    LET elements == extract_all(rows[r].root, config.path)
    IN [e \in DOMAIN elements |->
          [rows[r] EXCEPT !.children = Append(@, elements[e])]]])

\* Every array path is evaluated on the root, and a parent without elements
\* keeps its row with a null child.
Explode(rows, config) ==
  FlattenSeq([r \in DOMAIN rows |->
    LET found    == extract_all(rows[r].root, config.path)
        elements == IF found = <<>> THEN <<Null>> ELSE found
    IN [e \in DOMAIN elements |->
          [rows[r] EXCEPT !.children = Append(@, elements[e])]]])

flatten_records(payload, configs) ==
  FoldLeft(Explode, <<[root |-> payload, children |-> <<>>]>>, configs)

\* What json_path.split("[*].", 1)[-1] keeps: the steps after the first [*]
\* that a member name follows, or the whole path.
RelativePath(path) ==
  LET cuts == {i \in 1..Len(path) - 1 : path[i] = "*" /\ path[i + 1] # "*"}
  IN IF cuts = {} THEN path
     ELSE SubSeq(path, (CHOOSE i \in cuts : \A j \in cuts : i <= j) + 1, Len(path))

\* Mutant: the path is expanded from the root again, whatever the row.
ResolveFromRoot(row, path) == extract_value(row.root, path)

\* A path through [*] is resolved in the child of the first alias.
Resolve(row, path) ==
  IF Contains(path, "*") /\ row.children # <<>>
  THEN IF IsFalsy(row.children[1]) THEN Null
       ELSE extract_value(row.children[1], RelativePath(path))
  ELSE extract_value(row.root, path)

apply_mappings(row, mappings) ==
  FoldLeft(LAMBDA record, m : Assigned(record, m.column, Resolve(row, m.path)),
           <<>>, mappings)

-----------------------------------------------------------------------------
(* schema_validator                                                        *)

\* json_schema requires members of a kind; Draft7Validator is a library.
Conforms(payload, json_schema) ==
  \A r \in json_schema.required :
    LET matches == extract_all(payload, r.path)
    IN matches # <<>> /\ matches[1].kind = r.kind

detect_schema_drift(payload, json_schema) ==
  IF payload.kind = "object" THEN DOMAIN payload.fields \ json_schema.properties ELSE {}

-----------------------------------------------------------------------------
(* transformation_engine                                                   *)

\* The numbers of an instance are multiples of 5, so that \div is exact; the
\* division of an integer raises where its result is no float.
celsius_to_fahrenheit(value) ==
  IF value.kind = "null" THEN Null
  ELSE IF value.kind = "number" /\ (value.n * 9) \div 5 + 32 \in Floats
    THEN Number((value.n * 9) \div 5 + 32)
  ELSE Raised

\* A text keeps its word (the instances' words are in upper case); of any
\* other value the rendering is a word of its own.
normalize_string(value) ==
  CASE value.kind = "null"   -> Null
    [] value.kind = "text"   -> value
    [] value.kind = "number" -> [Word(ToString(value.n)) EXCEPT !.reads = {value.n}]
    [] OTHER                 -> Word(value.kind)

\* The numbers float() makes of a value: none where it raises.
Float(value) ==
  Floats \cap (CASE value.kind = "number" -> {value.n}
                 [] value.kind = "text"   -> value.reads
                 [] OTHER                 -> {})

\* No number, or one that is no instant, such as epoch milliseconds: raised.
epoch_to_iso8601(value) ==
  IF value = Null THEN Null
  ELSE IF Float(value) \cap Instants = {} THEN Raised
  ELSE Word("instant " \o ToString(CHOOSE n \in Float(value) \cap Instants : TRUE))

apply_transformation(value, rule) ==
  CASE value = Raised                     -> Raised
    [] rule = "CELSIUS_TO_FAHRENHEIT"     -> celsius_to_fahrenheit(value)
    [] rule = "NORMALIZE_STRING"          -> normalize_string(value)
    [] rule = "EPOCH_TO_ISO8601"          -> epoch_to_iso8601(value)
    [] OTHER                              -> value

\* Once per mapping, in order: a column that two mappings name is
\* transformed twice.
apply_transformations(record, mappings) ==
  FoldLeft(LAMBDA rec, m :
             [rec EXCEPT ![m.column] = apply_transformation(@, m.rule)],
           record, mappings)

Raises(record) == \E column \in DOMAIN record : record[column] = Raised

-----------------------------------------------------------------------------
(* validation_engine                                                       *)

\* record.get(column) for the first mapping of the path, None without one.
ValueUnder(record, path, mappings) ==
  LET m == SelectInSeq(mappings, LAMBDA mapping : mapping.path = path)
  IN IF m = 0 THEN Null ELSE record[mappings[m].column]

\* A malformed expression and a missing value pass.
check_range(value, expression) ==
  \/ expression.form # "range"
  \/ value = Null
  \/ \E n \in Float(value) : expression.low <= n /\ n <= expression.high

\* float() of an integer too large for it raises an OverflowError, which the
\* check does not catch.
RangeRaises(value, rule) ==
  /\ rule.type = "RANGE"
  /\ rule.expression.form = "range"
  /\ value.kind = "number" /\ value.n \notin Floats

check_enum(value, expression) ==
  \/ expression.form # "enum"
  \/ value.kind = "text" /\ value.word \in expression.allowed

Passes(value, rule) ==
  CASE rule.type = "NOT_NULL" -> ~(value = Null \/ (value.kind = "text" /\ value.word = ""))
    [] rule.type = "RANGE"    -> check_range(value, rule.expression)
    [] rule.type = "ENUM"     -> check_enum(value, rule.expression)
    [] OTHER                  -> TRUE

\* Mutant: a warning rejects the record too.
ErrorsOfAnySeverity(record, rules, mappings) ==
  {r \in rules : ~Passes(ValueUnder(record, r.path, mappings), r)}

\* validate_record raises on a rule of any severity.
ValidationRaises(record, rules, mappings) ==
  \E r \in rules : RangeRaises(ValueUnder(record, r.path, mappings), r)

\* The rules behind ValidationResult.errors; the query gives the rules in
\* no order, so they are a set.
Errors(record, rules, mappings) ==
  {r \in rules : /\ r.severity = "ERROR"
                 /\ ~Passes(ValueUnder(record, r.path, mappings), r)}

-----------------------------------------------------------------------------
(* error_classification_agent                                              *)

KeywordCategory ==
  << <<"schema", "SCHEMA">>, <<"required", "SCHEMA">>,
     <<"range", "VALIDATION">>, <<"enum", "VALIDATION">>, <<"not_null", "VALIDATION">>,
     <<"transform", "TRANSFORMATION">>, <<"lookup", "LOOKUP">>,
     <<"constraint", "LOAD">>, <<"duplicate key", "LOAD">>, <<"connection", "LOAD">> >>

\* A message quotes the path, the column, the value and the expression of
\* its rule, never the rule's type.
MessageMentions(record, rule, mappings) ==
  LET value == ValueUnder(record, rule.path, mappings)
  IN rule.mentions \cup (IF value.kind = "text" THEN value.mentions ELSE {})

\* Mutant: the last keyword that occurs decides.
classify_by_last(mentions) ==
  LET hits == {i \in DOMAIN KeywordCategory : KeywordCategory[i][1] \in mentions}
  IN IF hits = {} THEN "UNKNOWN"
     ELSE KeywordCategory[CHOOSE i \in hits : \A j \in hits : j <= i][2]

\* The first keyword of the map, in the map's order, that occurs anywhere in
\* the joined messages.
classify_heuristic(mentions) ==
  LET hit == SelectInSeq(KeywordCategory, LAMBDA entry : entry[1] \in mentions)
  IN IF hit = 0 THEN "UNKNOWN" ELSE KeywordCategory[hit][2]

=============================================================================

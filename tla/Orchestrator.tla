---------------------------- MODULE Orchestrator ----------------------------
(***************************************************************************)
(* One process of the pipeline from PipelineOrchestrator.__init__ through  *)
(* its calls of process_document: the definition is read statement by      *)
(* statement while people maintain it (MetadataRepository), the engines    *)
(* compute a document's records (Engines), and the lookups go through the  *)
(* process's cache while the reference tables change (LookupEngine).       *)
(*                                                                         *)
(* What a record is and whether it is valid is computed here; BatchRun     *)
(* takes the result as the fates of a document's rows and models what      *)
(* run_batch does with them.                                               *)
(***************************************************************************)
EXTENDS Engines, LookupEngine, MetadataRepository

CONSTANTS
  Values,       \* the JSON values that occur, with their parts
  Documents,    \* those of them that may arrive as payloads
  MaxDocuments  \* bound: how many of them one process takes

\* A lookup reads a table that is there, and its TTL is at least one tick: a
\* TTL of zero, which turns the cache off, is left out.  What json.loads and
\* the driver return are JSON values.
ASSUME OrchestratorAssumption ==
  /\ HoldsParts(Values) /\ Null \in Values
  /\ Documents \subseteq Values
  /\ MaxDocuments \in Nat
  /\ \A t \in Tables : \A v \in DOMAIN Contents[t] : \A key \in DOMAIN Contents[t][v] :
       Contents[t][v][key].kind \in Kinds
  /\ IsFiniteSet(LookupConfigs)
  /\ \A lookup \in LookupConfigs : /\ lookup.name \in Tables
                                  /\ lookup.ttl \in Nat \ {0}
                                  /\ lookup.source # lookup.target

VARIABLES
  stage,     \* where process_document stands
  taken,     \* documents taken so far
  payload,   \* the current document
  records,   \* its records, enriched so far
  position,  \* the record and the lookup that are next
  outcome,   \* what process_document returned
  \* history, read by no action
  lastLookup \* the latest lookup: its record, its target and when it began

documentVars == <<stage, taken, payload, records, position, outcome, lastLookup>>
vars         == <<metadataVars, lookupVars, documentVars>>

Stages   == {"between", "lookup", "query", "stopped"}
NoResult == [status |-> "NONE", drift |-> FALSE, valid |-> {}, hints |-> <<>>]
NoLookup == [row |-> 0, lookup |-> 0, at |-> 0]

DocumentInit ==
  /\ stage      = "between"
  /\ taken      = 0
  /\ payload    = Null
  /\ records    = <<>>
  /\ position   = <<1, 1>>
  /\ outcome    = NoResult
  /\ lastLookup = NoLookup

Init == MetadataInit /\ LookupInit /\ DocumentInit

-----------------------------------------------------------------------------
(* process_document, steps 1 to 3                                          *)

Flattened(document) == flatten_records(document, definition.flatten_configs)

Transformed(document) ==
  LET rows == Flattened(document)
  IN [r \in DOMAIN rows |->
        apply_transformations(apply_mappings(rows[r], definition.mappings),
                              definition.mappings)]

Take(document) ==
  /\ reading = "ready"
  /\ stage = "between"
  /\ taken < MaxDocuments
  /\ taken'      = taken + 1
  /\ payload'    = document
  /\ position'   = <<1, 1>>
  /\ lastLookup' = NoLookup
  /\ UNCHANGED <<metadataVars, lookupVars>>

RejectDocument(document) ==
  /\ Take(document)
  /\ ~Conforms(document, definition.json_schema)
  /\ records' = <<>>
  /\ outcome' = [NoResult EXCEPT !.status = "SCHEMA_INVALID"]
  /\ UNCHANGED stage

\* The drift agent is run for a valid document with undeclared members.
Drifts(document) == detect_schema_drift(document, definition.json_schema) # {}

ExtractDocument(document) ==
  /\ Take(document)
  /\ Conforms(document, definition.json_schema)
  /\ records' = Transformed(document)
  /\ IF \E r \in DOMAIN records' : Raises(records'[r])
     THEN stage' = "stopped" /\ outcome' = [NoResult EXCEPT !.status = "RAISED"]
     ELSE stage' = "lookup"  /\ outcome' = [NoResult EXCEPT !.drift = Drifts(document)]

-----------------------------------------------------------------------------
(* Step 4: apply_lookups, record by record and lookup by lookup            *)

Looking    == definition.lookups # <<>> /\ position[1] \in DOMAIN records
TheRecord  == records[position[1]]
TheLookup  == definition.lookups[position[2]]

\* Mutant: the position runs one past the last lookup.
NextPositionPastLast ==
  IF position[2] <= Len(definition.lookups) THEN <<position[1], position[2] + 1>>
  ELSE <<position[1] + 1, 1>>

NextPosition ==
  IF position[2] < Len(definition.lookups) THEN <<position[1], position[2] + 1>>
  ELSE <<position[1] + 1, 1>>

\* The source column is not in the record: the lookup is passed over.
SkipLookup ==
  /\ stage = "lookup" /\ Looking
  /\ TheLookup.source \notin DOMAIN TheRecord
  /\ position' = NextPosition
  /\ UNCHANGED <<metadataVars, lookupVars, stage, taken, payload, records, outcome, lastLookup>>

\* table.get(key): a missing key gives None, an unhashable one raises.
Found(version) ==
  LET key   == TheRecord[TheLookup.source]
      table == Contents[TheLookup.name][version]
  IN IF key.kind \in {"object", "array"} THEN Raised
     ELSE IF key \in DOMAIN table THEN table[key]
     ELSE Null

Enrich(version) ==
  LET value == Found(version)
  IN IF value = Raised
     THEN /\ stage'   = "stopped"
          /\ outcome' = [NoResult EXCEPT !.status = "RAISED"]
          /\ UNCHANGED <<records, position>>
     ELSE /\ stage'    = "lookup"
          /\ records'  = [records EXCEPT ![position[1]] = Assigned(@, TheLookup.target, value)]
          /\ position' = NextPosition
          /\ UNCHANGED outcome

Begun == [row |-> position[1], lookup |-> position[2], at |-> clock]

UseCached ==
  /\ stage = "lookup" /\ Looking
  /\ TheLookup.source \in DOMAIN TheRecord
  /\ HitCache(TheLookup)
  /\ Enrich(cache[TheLookup.name].version)
  /\ lastLookup' = Begun
  /\ UNCHANGED <<metadataVars, taken, payload>>

BeginQuery ==
  /\ stage = "lookup" /\ Looking
  /\ TheLookup.source \in DOMAIN TheRecord
  /\ MissCache(TheLookup)
  /\ stage' = "query"
  /\ lastLookup' = Begun
  /\ UNCHANGED <<metadataVars, taken, payload, records, position, outcome>>

RunQuery ==
  /\ stage = "query"
  /\ QueryTable(TheLookup)
  /\ UNCHANGED <<metadataVars, documentVars>>

EndQuery ==
  /\ stage = "query"
  /\ StoreTable(TheLookup)
  /\ Enrich(answer)
  /\ UNCHANGED <<metadataVars, taken, payload, lastLookup>>

-----------------------------------------------------------------------------
(* Step 5: the validation engine, and what process_document returns        *)

ErrorsOf(r) == Errors(records[r], definition.validation_rules, definition.mappings)

\* What the classification agent's heuristic makes of the joined messages.
HintFor(r, rules) ==
  classify_heuristic(UNION {MessageMentions(records[r], rule, definition.mappings) : rule \in rules})

Validate ==
  /\ stage = "lookup" /\ ~Looking
  /\ UNCHANGED <<metadataVars, lookupVars, taken, payload, records, position, lastLookup>>

\* Some record's validation raises, and with it process_document.
Unjudgeable ==
  \E r \in DOMAIN records :
    ValidationRaises(records[r], definition.validation_rules, definition.mappings)

\* The invalid records are returned with their issues; run_batch joins the
\* messages and classifies them.
ValidateDocument ==
  /\ Validate /\ ~Unjudgeable
  /\ LET invalid == {r \in DOMAIN records : ErrorsOf(r) # {}}
     IN outcome' = [status |-> IF invalid = {} THEN "OK" ELSE "PARTIAL",
                    drift  |-> outcome.drift,
                    valid  |-> DOMAIN records \ invalid,
                    hints  |-> [r \in invalid |-> HintFor(r, ErrorsOf(r))]]
  /\ stage' = "between"

FailValidation ==
  /\ Validate /\ Unjudgeable
  /\ stage' = "stopped"
  /\ outcome' = [NoResult EXCEPT !.status = "RAISED"]

Process ==
  \/ \E document \in Documents : RejectDocument(document) \/ ExtractDocument(document)
  \/ SkipLookup
  \/ UseCached
  \/ BeginQuery
  \/ RunQuery
  \/ EndQuery
  \/ ValidateDocument
  \/ FailValidation

\* Nobody looks at the clock or the tables before the definition is read.
TableChanges == Tick \/ \E t \in Tables : UpdateTable(t)

Next ==
  \/ (Maintain \/ ReadDefinition) /\ UNCHANGED <<lookupVars, documentVars>>
  \/ TableChanges /\ reading = "ready" /\ UNCHANGED <<metadataVars, documentVars>>
  \/ Process

Spec == Init /\ [][Next]_vars

-----------------------------------------------------------------------------
(* What the process promises about each document                           *)

Returned == stage = "between" /\ outcome.status \in {"OK", "PARTIAL"}
Invalid  == DOMAIN outcome.hints

\* The variables keep to the values the code can give them.
TypeOK ==
  /\ MetadataTypeOK
  /\ LookupTypeOK
  /\ stage \in Stages
  /\ taken \in 0..MaxDocuments
  /\ Looking => position[2] \in DOMAIN definition.lookups
  /\ outcome.status \in {"NONE", "SCHEMA_INVALID", "OK", "PARTIAL", "RAISED"}
  /\ outcome.valid \cup Invalid \subseteq DOMAIN records
  /\ \A r \in DOMAIN records : \A column \in DOMAIN records[r] :
       records[r][column].kind \in Kinds \cup (IF stage = "stopped" THEN {"raised"} ELSE {})

\* The value that a path names in the i-th element of the array it runs
\* through: found by walking the document, without flattening it.  A value
\* that stands where an array is due is that array's only element.
ValueAt(document, path, i) ==
  LET reached[k \in 0..Len(path)] ==
        IF k = 0 THEN document
        ELSE LET from == reached[k - 1]
             IN IF path[k] = "*" /\ i \in DOMAIN AsArray(from) THEN AsArray(from)[i]
                ELSE IF path[k] # "*" /\ from.kind = "object" /\ path[k] \in DOMAIN from.fields
                  THEN from.fields[path[k]]
                ELSE Null
  IN reached[Len(path)]

Elements(document, path) == Len(extract_all(document, path))

Steps(path, step) == Cardinality({k \in DOMAIN path : path[k] = step})

\* Definitions with at most one array, whose path ends with its [*]; every
\* path through a [*] goes below an element of that array, no column is
\* written twice and every rule is about a mapped path.
SingleGrain ==
  /\ Len(definition.flatten_configs) <= 1
  /\ \A c \in ToSet(definition.flatten_configs) : c.path # <<>> /\ c.path[Len(c.path)] = "*"
  /\ \A m \in ToSet(definition.mappings) :
       Contains(m.path, "*") => \E c \in ToSet(definition.flatten_configs) :
         IsStrictPrefix(c.path, m.path) /\ Steps(m.path, "*") = 1
  /\ \A i, j \in DOMAIN definition.mappings :
       definition.mappings[i].column = definition.mappings[j].column => i = j
  /\ \A m \in ToSet(definition.mappings), l \in ToSet(definition.lookups) :
       m.column # l.target
  /\ \A r \in definition.validation_rules : \E m \in ToSet(definition.mappings) :
       m.path = r.path

Expected(document, m, i) == apply_transformation(ValueAt(document, m.path, i), m.rule)

\* Each element of the exploded array becomes one record, which holds under
\* every mapped column the value the document has at the mapping's path in
\* that very element, converted once: values of neighbouring elements never
\* mix, also when an element lacks a field, is null, the array is empty, or a
\* single object stands in its place.
RecordsFollowDocument ==
  Returned /\ SingleGrain =>
    /\ Len(records) =
         IF definition.flatten_configs = <<>> THEN 1
         ELSE LET n == Elements(payload, definition.flatten_configs[1].path)
              IN IF n = 0 THEN 1 ELSE n
    /\ \A i \in DOMAIN records : \A m \in ToSet(definition.mappings) :
         records[i][m.column] = Expected(payload, m, i)

\* The first mapping of a path, whose column the rules of the path are about.
FirstMappings(path) ==
  {k \in DOMAIN definition.mappings :
     /\ definition.mappings[k].path = path
     /\ \A j \in 1..k - 1 : definition.mappings[j].path # path}

\* A record is refused exactly when the document breaks, in that element, a
\* rule of severity ERROR: a warning, a malformed or an unimplemented rule
\* never refuses data, and no record is both refused and delivered.
RefusedForAnError ==
  Returned /\ SingleGrain =>
    /\ outcome.valid \cup Invalid = DOMAIN records
    /\ outcome.valid \cap Invalid = {}
    /\ \A i \in DOMAIN records :
         i \in Invalid <=>
           \E rule \in definition.validation_rules : \E k \in FirstMappings(rule.path) :
             /\ rule.severity = "ERROR"
             /\ ~Passes(Expected(payload, definition.mappings[k], i), rule)

\* Every document that is not rejected as a whole yields a record, also one
\* whose arrays are empty: BatchRun's documents have at least one row.
NeverWithoutRecord == Returned => outcome.valid \cup Invalid # {}

\* A looked-up value is what the reference table held less than the
\* lookup's TTL before the lookup, or later: a cached table is never used
\* for longer after somebody has replaced it, however long a query takes.
LookupWithinTTL ==
  lastLookup.row > 0 /\ stage # "query" =>
    LET lookup == definition.lookups[lastLookup.lookup]
        record == records[lastLookup.row]
        key    == record[lookup.source]
    IN stage # "stopped" =>
         \E v \in VersionsAfter(lookup.name, lastLookup.at - lookup.ttl) :
           record[lookup.target] =
             IF key \in DOMAIN Contents[lookup.name][v] THEN Contents[lookup.name][v][key] ELSE Null

\* One message that the heuristic takes for a schema or validation failure
\* keeps the record out of the healing queue, whatever else the record is
\* refused for and in whatever order the rules were read.
DataErrorNotRetried ==
  Returned => \A i \in Invalid :
    (\E rule \in ErrorsOf(i) : HintFor(i, {rule}) \in {"SCHEMA", "VALIDATION"})
      => outcome.hints[i] \notin {"TRANSFORMATION", "LOOKUP", "LOAD"}

-----------------------------------------------------------------------------
(* What the documentation says of flattening, and the code does not do     *)

\* jsonpath_extractor.py: a nested document is exploded into one flat record
\* per leaf grain (Lot -> Wafers -> Measurements/SPC/Defects).
OneRecordPerLeaf ==
  Returned /\ definition.flatten_configs # <<>> =>
    LET leaves == Elements(payload, definition.flatten_configs[Len(definition.flatten_configs)].path)
    IN leaves > 0 => Len(records) = leaves

=============================================================================

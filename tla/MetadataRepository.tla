------------------------- MODULE MetadataRepository -------------------------
(***************************************************************************)
(* What PipelineOrchestrator.__init__ reads: MetadataRepository.           *)
(* get_pipeline_by_name, one statement after the other, and then           *)
(* get_json_schema_document on a connection of its own.  Every statement   *)
(* sees what is committed when it runs (READ COMMITTED), so people may     *)
(* publish, populate and retire schema versions between any two of them.   *)
(*                                                                         *)
(* The rows that hang on a schema_id are versioned with it; lookup_config  *)
(* belongs to no pipeline and no version, and the query for it has no      *)
(* ORDER BY: its rows arrive in any order.  Two statements are left out:   *)
(* nobody uses the fields, and of load_config BatchRun models what counts. *)
(*                                                                         *)
(* People register a schema first and insert its rows afterwards, one      *)
(* table after the other, and the column's default makes the version       *)
(* ACTIVE at once: a process may start on a version that is half there.    *)
(***************************************************************************)
EXTENDS Naturals, Sequences, FiniteSets, SequencesExt

CONSTANTS
  Schemas,        \* schema_id -> the rows that hang on it
  EffectiveDate,  \* schema_id -> effective_date
  Published,      \* the versions that are ACTIVE from the start, with all their rows
  LookupConfigs   \* the rows of lookup_config

ASSUME MetadataAssumption ==
  /\ EffectiveDate \in [DOMAIN Schemas -> Nat]
  /\ Published \subseteq DOMAIN Schemas
  /\ \A v \in DOMAIN Schemas :
       /\ Schemas[v].mappings \in Seq([path : Seq(STRING), column : STRING, rule : STRING])
       /\ Schemas[v].flatten_configs \in Seq([path : Seq(STRING)])

VARIABLES
  \* the tables
  activeFlag,    \* pipeline_master.active_flag
  status,        \* json_schema_registry.status
  populated,     \* schema_id -> the tables that its rows are inserted in
  \* the reader
  reading,       \* the statement to run next
  definition,    \* pipeline_def and json_schema, as far as read
  \* history, read by no action
  whole          \* all rows of the version in hand were there when it was chosen

metadataTables == <<activeFlag, status, populated>>
metadataVars   == <<metadataTables, reading, definition, whole>>

Versions   == DOMAIN Schemas
RowTables  == {"mappings", "flatten_configs", "validation_rules"}
Statements == {"pipeline", "schema", "mappings", "flatten_configs",
               "validation_rules", "lookups", "json_schema"}
Read       == {"ready", "failed"}

NoSchema  == [required |-> {}, properties |-> {}]
Unread    == [schema_id |-> 0, mappings |-> <<>>, flatten_configs |-> <<>>,
              validation_rules |-> {}, lookups |-> <<>>, json_schema |-> NoSchema]

MetadataInit ==
  /\ activeFlag   \in BOOLEAN
  /\ status       = [v \in Versions |-> IF v \in Published THEN "ACTIVE" ELSE "ABSENT"]
  /\ populated    = [v \in Versions |-> IF v \in Published THEN RowTables ELSE {}]
  /\ reading      = "pipeline"
  /\ definition   = Unread
  /\ whole        = FALSE

-----------------------------------------------------------------------------
(* The people who maintain the metadata.  Nothing reads it once the        *)
(* definition is complete, so their edits are followed until then.         *)

Editing == reading \in Statements /\ UNCHANGED <<activeFlag, reading, definition, whole>>

\* The column's default is ACTIVE; DRAFT is the careful choice.
Register(v) ==
  /\ Editing
  /\ status[v] = "ABSENT"
  /\ \E initial \in {"ACTIVE", "DRAFT"} : status' = [status EXCEPT ![v] = initial]
  /\ UNCHANGED populated

\* The rows of one table in one INSERT, as the worked example does.
Populate(v, part) ==
  /\ Editing
  /\ status[v] # "ABSENT" /\ part \notin populated[v]
  /\ populated' = [populated EXCEPT ![v] = @ \cup {part}]
  /\ UNCHANGED status

Activate(v) ==
  /\ Editing
  /\ status[v] \in {"DRAFT", "DEPRECATED"}
  /\ status' = [status EXCEPT ![v] = "ACTIVE"]
  /\ UNCHANGED populated

Deprecate(v) ==
  /\ Editing
  /\ status[v] = "ACTIVE"
  /\ status' = [status EXCEPT ![v] = "DEPRECATED"]
  /\ UNCHANGED populated

Maintain ==
  \E v \in Versions :
    \/ Register(v)
    \/ \E part \in RowTables : Populate(v, part)
    \/ Activate(v)
    \/ Deprecate(v)

-----------------------------------------------------------------------------
(* get_pipeline_by_name and get_json_schema_document                       *)

Run(statement, next) ==
  /\ reading = statement
  /\ reading' = next
  /\ UNCHANGED metadataTables

\* The two LookupErrors of get_pipeline_by_name.
ReadPipeline ==
  /\ Run("pipeline", IF activeFlag THEN "schema" ELSE "failed")
  /\ UNCHANGED <<definition, whole>>

ActiveVersions == {v \in Versions : status[v] = "ACTIVE"}

\* ORDER BY effective_date DESC LIMIT 1: any of the versions of the last date.
LatestActive ==
  {v \in ActiveVersions : \A w \in ActiveVersions : EffectiveDate[w] <= EffectiveDate[v]}

ReadSchema ==
  \/ /\ ActiveVersions = {}
     /\ Run("schema", "failed")
     /\ UNCHANGED <<definition, whole>>
  \/ \E v \in LatestActive :
       /\ Run("schema", "mappings")
       /\ definition' = [definition EXCEPT !.schema_id = v]
       /\ whole' = (populated[v] = RowTables)

VersionInHand == Schemas[definition.schema_id]
RulesInUse    == {r \in VersionInHand.validation_rules : r.active}

\* The rows of a table that the version read above has so far.
Rows(part, rows, none) == IF part \in populated[definition.schema_id] THEN rows ELSE none

ReadMappings ==
  /\ Run("mappings", "flatten_configs")
  /\ definition' = [definition EXCEPT
                      !.mappings = Rows("mappings", VersionInHand.mappings, <<>>)]
  /\ UNCHANGED whole

ReadFlattenConfigs ==
  /\ Run("flatten_configs", "validation_rules")
  /\ definition' = [definition EXCEPT
                      !.flatten_configs =
                        Rows("flatten_configs", VersionInHand.flatten_configs, <<>>)]
  /\ UNCHANGED whole

ReadRules ==
  /\ Run("validation_rules", "lookups")
  /\ definition' = [definition EXCEPT
                      !.validation_rules = Rows("validation_rules", RulesInUse, {})]
  /\ UNCHANGED whole

ReadLookups ==
  /\ Run("lookups", "json_schema")
  /\ UNCHANGED whole
  /\ \E rows \in SetToSeqs(LookupConfigs) :
       definition' = [definition EXCEPT !.lookups = rows]

\* Mutant: the document of the version that is active now, not of schema_id.
DocumentInForce ==
  IF LatestActive = {} THEN NoSchema
  ELSE Schemas[CHOOSE v \in LatestActive : TRUE].json_schema

SchemaDocument == VersionInHand.json_schema

\* The row of a schema_id is never deleted, so it is found again.
ReadSchemaDocument ==
  /\ Run("json_schema", "ready")
  /\ definition' = [definition EXCEPT !.json_schema = SchemaDocument]
  /\ UNCHANGED whole

ReadDefinition ==
  \/ ReadPipeline
  \/ ReadSchema
  \/ ReadMappings
  \/ ReadFlattenConfigs
  \/ ReadRules
  \/ ReadLookups
  \/ ReadSchemaDocument

MetadataTypeOK ==
  /\ activeFlag \in BOOLEAN
  /\ status \in [Versions -> {"ABSENT", "DRAFT", "ACTIVE", "DEPRECATED"}]
  /\ populated \in [Versions -> SUBSET RowTables]
  /\ whole \in BOOLEAN
  /\ reading \in Statements \cup Read
  /\ definition.schema_id \in Versions \cup {0}

\* What the process runs with is never a mixture of versions, whatever was
\* published or retired between the statements of __init__: the schema it
\* validates documents with is the one whose rows it reads, and a version
\* that had all its rows when it was chosen is read completely.  Of a version
\* that people are still inserting, each table is read as a whole or not at
\* all, and what is missing is not made up from another version.
DefinitionOfOneVersion ==
  reading = "ready" =>
    LET IsRead(read, rows, none) == read = rows \/ (~whole /\ read = none)
    IN /\ definition.json_schema = VersionInHand.json_schema
       /\ IsRead(definition.mappings, VersionInHand.mappings, <<>>)
       /\ IsRead(definition.flatten_configs, VersionInHand.flatten_configs, <<>>)
       /\ IsRead(definition.validation_rules, RulesInUse, {})

=============================================================================

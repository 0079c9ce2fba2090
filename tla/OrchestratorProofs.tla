------------------------- MODULE OrchestratorProofs -------------------------
(***************************************************************************)
(* Proofs about Orchestrator, for all metadata, documents and reference    *)
(* tables: the definition is one version, and the TTL bounds what a lookup *)
(* can miss.                                                               *)
(***************************************************************************)
EXTENDS Orchestrator, EnginesProofs, FiniteSetTheorems, TLAPS

-----------------------------------------------------------------------------
(* The definition is read from one version                                 *)

\* What is already read when a statement is next.
AfterSchema   == {"mappings", "flatten_configs", "validation_rules", "lookups",
                  "json_schema", "ready"}
AfterMappings == AfterSchema \ {"mappings"}
AfterArrays   == AfterMappings \ {"flatten_configs"}
AfterRules    == AfterArrays \ {"validation_rules"}
AfterLookups  == {"json_schema", "ready"}

\* A version that was whole when it was chosen stays so: nobody deletes rows.
SchemaRead ==
  reading \in AfterSchema => /\ definition.schema_id \in Versions
                             /\ whole => RowTables \subseteq populated[definition.schema_id]

IsRead(read, rows, none) == read = rows \/ (~whole /\ read = none)

PartsRead ==
  /\ reading \in AfterMappings => IsRead(definition.mappings, VersionInHand.mappings, <<>>)
  /\ reading \in AfterArrays   =>
       IsRead(definition.flatten_configs, VersionInHand.flatten_configs, <<>>)
  /\ reading \in AfterRules    => IsRead(definition.validation_rules, RulesInUse, {})
  /\ reading = "ready"         => definition.json_schema = VersionInHand.json_schema

DefinitionInv ==
  /\ DOMAIN definition = DOMAIN Unread
  /\ DOMAIN status = Versions /\ DOMAIN populated = Versions
  /\ SchemaRead
  /\ PartsRead
  /\ reading \in AfterLookups => definition.lookups \in SetToSeqs(LookupConfigs)

\* Before the first statement nothing is read.
LEMMA DefinitionInit == Init => DefinitionInv
  BY DEF Init, MetadataInit, DefinitionInv, SchemaRead, PartsRead, AfterSchema,
         AfterMappings, AfterArrays, AfterRules, AfterLookups

\* The people's edits never take rows away from a version.
LEMMA MaintainKeeps ==
  ASSUME DefinitionInv, Maintain
  PROVE  DefinitionInv'
  <1>1. PICK v \in Versions : \/ Register(v) \/ Activate(v) \/ Deprecate(v)
                             \/ \E part \in RowTables : Populate(v, part)
    BY DEF Maintain
  <1>2. /\ UNCHANGED <<reading, definition, whole>>
        /\ DOMAIN status' = Versions /\ DOMAIN populated' = Versions
        /\ \A w \in Versions : populated[w] \subseteq populated'[w]
    BY <1>1 DEF Register, Populate, Activate, Deprecate, Editing, DefinitionInv
  <1>3. SchemaRead'
    BY <1>2 DEF DefinitionInv, SchemaRead, Versions
  <1>. QED  BY <1>2, <1>3 DEF DefinitionInv, PartsRead, IsRead, VersionInHand, RulesInUse, Versions

\* A statement finds the rows of its table, or none where the version was not
\* whole when it was chosen.
LEMMA RowsRead ==
  ASSUME SchemaRead, reading \in AfterSchema, NEW part \in RowTables, NEW rows, NEW none
  PROVE  IsRead(Rows(part, rows, none), rows, none)
  BY DEF SchemaRead, IsRead, Rows

\* Each statement reads its part of the version in hand.
LEMMA ReadKeeps ==
  ASSUME DefinitionInv, ReadDefinition
  PROVE  DefinitionInv'
  <1>. USE DEF DefinitionInv, Run, metadataTables, AfterSchema, AfterMappings, AfterArrays,
               AfterRules, AfterLookups
  <1>1. ASSUME UNCHANGED <<populated, whole>>, definition'.schema_id = definition.schema_id,
               reading \in AfterSchema
        PROVE  SchemaRead' /\ VersionInHand' = VersionInHand /\ RulesInUse' = RulesInUse
    BY <1>1 DEF SchemaRead, VersionInHand, RulesInUse, Versions
  <1>2. CASE ReadPipeline
    BY <1>2 DEF ReadPipeline, SchemaRead, PartsRead, Versions
  <1>3. CASE ReadSchema
    <2>1. CASE reading' = "failed"
      BY <1>3, <2>1 DEF ReadSchema, SchemaRead, PartsRead, Versions
    <2>2. CASE reading' # "failed"
      <3>1. PICK v \in LatestActive : /\ Run("schema", "mappings")
                                      /\ definition' = [definition EXCEPT !.schema_id = v]
                                      /\ whole' = (populated[v] = RowTables)
        BY <1>3, <2>2 DEF ReadSchema
      <3>2. v \in Versions /\ definition'.schema_id = v
        BY <3>1 DEF LatestActive, ActiveVersions, Unread
      <3>3. SchemaRead'
        BY <3>1, <3>2 DEF SchemaRead, Versions
      <3>. QED  BY <3>1, <3>3 DEF PartsRead, Versions
    <2>. QED  BY <2>1, <2>2
  <1>4. CASE ReadMappings
    <2>1. definition'.schema_id = definition.schema_id
      BY <1>4 DEF ReadMappings, Unread
    <2>2. IsRead(definition'.mappings, VersionInHand.mappings, <<>>)
      <3>1. definition'.mappings = Rows("mappings", VersionInHand.mappings, <<>>)
        BY <1>4 DEF ReadMappings, Unread
      <3>. QED  BY <1>4, <3>1, RowsRead DEF ReadMappings, RowTables
    <2>. QED  BY <1>1, <1>4, <2>1, <2>2 DEF ReadMappings, PartsRead, IsRead, Versions
  <1>5. CASE ReadFlattenConfigs
    <2>1. /\ definition'.schema_id = definition.schema_id
          /\ definition'.mappings = definition.mappings
      BY <1>5 DEF ReadFlattenConfigs, Unread
    <2>2. IsRead(definition'.flatten_configs, VersionInHand.flatten_configs, <<>>)
      <3>1. definition'.flatten_configs = Rows("flatten_configs", VersionInHand.flatten_configs, <<>>)
        BY <1>5 DEF ReadFlattenConfigs, Unread
      <3>. QED  BY <1>5, <3>1, RowsRead DEF ReadFlattenConfigs, RowTables
    <2>. QED  BY <1>1, <1>5, <2>1, <2>2 DEF ReadFlattenConfigs, PartsRead, IsRead, Versions
  <1>6. CASE ReadRules
    <2>1. /\ definition'.schema_id = definition.schema_id
          /\ definition'.mappings = definition.mappings
          /\ definition'.flatten_configs = definition.flatten_configs
      BY <1>6 DEF ReadRules, Unread
    <2>2. IsRead(definition'.validation_rules, RulesInUse, {})
      <3>1. definition'.validation_rules = Rows("validation_rules", RulesInUse, {})
        BY <1>6 DEF ReadRules, Unread
      <3>. QED  BY <1>6, <3>1, RowsRead DEF ReadRules, RowTables
    <2>. QED  BY <1>1, <1>6, <2>1, <2>2 DEF ReadRules, PartsRead, IsRead, Versions
  <1>7. CASE ReadLookups
    <2>1. PICK rows \in SetToSeqs(LookupConfigs) :
            definition' = [definition EXCEPT !.lookups = rows]
      BY <1>7 DEF ReadLookups
    <2>2. /\ definition'.lookups = rows
          /\ definition'.schema_id = definition.schema_id
          /\ definition'.mappings = definition.mappings
          /\ definition'.flatten_configs = definition.flatten_configs
          /\ definition'.validation_rules = definition.validation_rules
      BY <2>1 DEF Unread
    <2>. QED  BY <1>1, <1>7, <2>1, <2>2 DEF ReadLookups, PartsRead, IsRead, Versions
  <1>8. CASE ReadSchemaDocument
    <2>1. /\ definition'.lookups = definition.lookups
          /\ definition'.schema_id = definition.schema_id
          /\ definition'.mappings = definition.mappings
          /\ definition'.flatten_configs = definition.flatten_configs
          /\ definition'.validation_rules = definition.validation_rules
          /\ definition'.json_schema = VersionInHand.json_schema
      BY <1>8 DEF ReadSchemaDocument, SchemaDocument, Unread
    <2>. QED  BY <1>1, <1>8, <2>1 DEF ReadSchemaDocument, PartsRead, IsRead, Versions
  <1>. QED  BY <1>2, <1>3, <1>4, <1>5, <1>6, <1>7, <1>8 DEF ReadDefinition

\* Processing documents leaves the definition and the metadata alone.
LEMMA ProcessFrame == Process => UNCHANGED metadataVars
  BY DEF Process, RejectDocument, ExtractDocument, Take, SkipLookup, UseCached, BeginQuery,
         RunQuery, EndQuery, Validate, ValidateDocument, FailValidation

\* The whole process keeps the invariant of its definition.
LEMMA DefinitionStep == DefinitionInv /\ [Next]_vars => DefinitionInv'
  <1>1. DefinitionInv /\ UNCHANGED metadataVars => DefinitionInv'
    BY DEF DefinitionInv, SchemaRead, PartsRead, IsRead, VersionInHand, RulesInUse, Versions,
           metadataVars, metadataTables
  <1>. QED  BY <1>1, MaintainKeeps, ReadKeeps, ProcessFrame DEF Next, vars

\* The definition a process runs with is never a mixture of versions, and is
\* complete where the version was whole when it was chosen: however people
\* register, fill, publish and retire versions meanwhile.
THEOREM OneVersion == Spec => []DefinitionOfOneVersion
  <1>1. DefinitionInv => DefinitionOfOneVersion
    BY DEF DefinitionInv, PartsRead, IsRead, DefinitionOfOneVersion, AfterSchema,
           AfterMappings, AfterArrays, AfterRules
  <1>. QED  BY <1>1, DefinitionInit, DefinitionStep, PTL DEF Spec

-----------------------------------------------------------------------------
(* Lookups within the TTL                                                  *)

\* Version v of a table was its content at the moment `at` or later.
Seen(t, v, at) == at \in Nat /\ at <= clock /\ v \in VersionsAfter(t, at - 1)

TablesTyped ==
  /\ clock \in Nat
  /\ since \in [Tables -> Seq(Nat)]
  /\ DOMAIN cache = Tables

\* An entry of the cache holds what the table had at its stamp or later.
CacheSeen == \A t \in Tables : cache[t] # NoEntry => Seen(t, cache[t].version, cache[t].stamp)

\* The lookup under way is one of the definition's.
Placed ==
  stage \in {"lookup", "query"} /\ Looking => position[2] \in DOMAIN definition.lookups

\* A query's answer was the table's content when the lookup began or later.
QueryState ==
  /\ stage # "query" => answer = 0
  /\ stage = "query" => /\ Looking
                        /\ TheLookup.source \in DOMAIN TheRecord
                        /\ lastLookup = [row |-> position[1], lookup |-> position[2], at |-> asked]
                        /\ asked \in Nat /\ asked <= clock
                        /\ answer # 0 => Seen(TheLookup.name, answer, asked)

LastPlaced ==
  lastLookup.row > 0 => /\ lastLookup.lookup \in DOMAIN definition.lookups
                        /\ lastLookup.at \in Nat
                        /\ lastLookup.at <= clock

Idle == reading # "ready" => stage = "between" /\ lastLookup = NoLookup

LookupInv ==
  /\ TablesTyped
  /\ CacheSeen
  /\ Placed
  /\ QueryState
  /\ LastPlaced
  /\ Idle
  /\ LookupWithinTTL

\* What a lookup finds for a key in a version of its table.
Answer(lookup, key, v) ==
  IF key \in DOMAIN Contents[lookup.name][v] THEN Contents[lookup.name][v][key] ELSE Null

\* The definition's lookups are rows of lookup_config.
LEMMA LookupsTyped ==
  ASSUME DefinitionInv, reading = "ready", NEW i \in DOMAIN definition.lookups
  PROVE  /\ definition.lookups[i] \in LookupConfigs
         /\ definition.lookups[i].name \in Tables
         /\ definition.lookups[i].ttl \in Nat \ {0}
         /\ definition.lookups[i].source # definition.lookups[i].target
  <1>1. definition.lookups \in SetToSeqs(LookupConfigs)
    BY DEF DefinitionInv, AfterLookups
  <1>2. definition.lookups[i] \in LookupConfigs
    BY <1>1 DEF SetToSeqs
  <1>. QED  BY <1>2, OrchestratorAssumption

\* Where the first lookup stands, and where the next one does.
LEMMA PositionTyped ==
  ASSUME DefinitionInv, reading = "ready", definition.lookups # <<>>
  PROVE  /\ 1 \in DOMAIN definition.lookups
         /\ position[2] \in DOMAIN definition.lookups => NextPosition[2] \in DOMAIN definition.lookups
  <1>. DEFINE n == Cardinality(LookupConfigs)
              s == definition.lookups
  <1>1. s \in [1..n -> LookupConfigs]
    BY DEF DefinitionInv, AfterLookups, SetToSeqs
  <1>2. n \in Nat
    BY OrchestratorAssumption, FS_CardinalityType
  <1>. HIDE DEF n
  <1>3. s \in Seq(LookupConfigs) /\ Len(s) = n /\ DOMAIN s = 1..n
    BY <1>1, <1>2
  <1>4. n # 0
    BY <1>3
  <1>. QED  BY <1>2, <1>3, <1>4 DEF NextPosition

\* A smaller horizon keeps no more versions than a larger one.
LEMMA VersionsWider ==
  ASSUME TablesTyped, NEW t \in Tables, NEW a \in Int, NEW b \in Int, b <= a
  PROVE  VersionsAfter(t, a) \subseteq VersionsAfter(t, b)
  <1>. SUFFICES ASSUME NEW v \in DOMAIN since[t], v # Len(since[t]), since[t][v + 1] > a
                PROVE  since[t][v + 1] > b
    BY DEF VersionsAfter
  <1>1. since[t] \in Seq(Nat)
    BY DEF TablesTyped
  <1>2. since[t][v + 1] \in Nat
    BY <1>1
  <1>. QED  BY <1>2

\* A version that was current after a past moment remains one that was.
LEMMA VersionsStay ==
  ASSUME TablesTyped, NEW t \in Tables, NEW from \in Int, from < clock, TableChanges
  PROVE  VersionsAfter(t, from) \subseteq VersionsAfter(t, from)'
  <1>1. CASE Tick
    BY <1>1 DEF Tick, VersionsAfter
  <1>2. ASSUME NEW u \in Tables, UpdateTable(u)
        PROVE  VersionsAfter(t, from) \subseteq VersionsAfter(t, from)'
    <2>1. CASE u # t
      <3>1. since'[t] = since[t]
        BY <1>2, <2>1 DEF UpdateTable, TablesTyped
      <3>. QED  BY <3>1 DEF VersionsAfter
    <2>2. CASE u = t
      <3>1. since[t] \in Seq(Nat) /\ clock \in Nat
        BY DEF TablesTyped
      <3>2. since'[t] = Append(since[t], clock)
        BY <1>2, <2>2 DEF UpdateTable, TablesTyped
      <3>3. /\ Len(since'[t]) = Len(since[t]) + 1
            /\ DOMAIN since'[t] = 1..(Len(since[t]) + 1)
            /\ since'[t][Len(since[t]) + 1] = clock
            /\ \A i \in 1..Len(since[t]) : since'[t][i] = since[t][i]
        BY <3>1, <3>2
      <3>4. \A v \in DOMAIN since[t] :
              v = Len(since[t]) \/ since[t][v + 1] > from => since'[t][v + 1] > from
        <4>. DEFINE n == Len(since[t])
        <4>1. DOMAIN since[t] = 1..n /\ n \in Nat
          BY <3>1
        <4>2. SUFFICES ASSUME NEW v \in 1..n, v # n, since[t][v + 1] > from
                       PROVE  since'[t][v + 1] > from
          BY <3>1, <3>3, <4>1
        <4>3. v + 1 \in 1..n
          BY <4>1, <4>2
        <4>. QED  BY <3>3, <4>2, <4>3
      <3>. QED  BY <3>1, <3>3, <3>4 DEF VersionsAfter
    <2>. QED  BY <2>1, <2>2
  <1>. QED  BY <1>1, <1>2 DEF TableChanges

\* Time passes and tables change: what was seen stays seen.
LEMMA SeenStays ==
  ASSUME TablesTyped, NEW t \in Tables, NEW v, NEW at, Seen(t, v, at), TableChanges
  PROVE  Seen(t, v, at)'
  <1>1. clock \in Nat /\ clock' \in Nat /\ clock <= clock'
    BY DEF TablesTyped, TableChanges, Tick, UpdateTable
  <1>2. at - 1 \in Int /\ at - 1 < clock
    BY <1>1 DEF Seen
  <1>. QED  BY <1>1, <1>2, VersionsStay DEF Seen

\* What was seen within the TTL is new enough for the lookup.
LEMMA SeenWithin ==
  ASSUME TablesTyped, NEW t \in Tables, NEW v, NEW at, NEW now \in Nat, NEW ttl \in Nat \ {0},
         Seen(t, v, at), now - at < ttl
  PROVE  v \in VersionsAfter(t, now - ttl)
  <1>1. at - 1 \in Int /\ now - ttl \in Int /\ now - ttl <= at - 1
    BY DEF Seen
  <1>. QED  BY <1>1, VersionsWider DEF Seen

\* An enriched record holds the version's answer for its own key.
LEMMA EnrichGives ==
  ASSUME DefinitionInv, reading = "ready", Placed, stage \in {"lookup", "query"}, Looking,
         TheLookup.source \in DOMAIN TheRecord, UNCHANGED definition,
         NEW v, Enrich(v), stage' # "stopped"
  PROVE  /\ stage' = "lookup"
         /\ position' = NextPosition
         /\ LET record == records'[position[1]]
            IN record[TheLookup.target] = Answer(TheLookup, record[TheLookup.source], v)
  <1>1. /\ stage' = "lookup"
        /\ records' = [records EXCEPT ![position[1]] = Assigned(@, TheLookup.target, Found(v))]
        /\ position' = NextPosition
        /\ Found(v) # Raised
    BY DEF Enrich
  <1>2. records'[position[1]] = Assigned(TheRecord, TheLookup.target, Found(v))
    BY <1>1 DEF Looking, TheRecord
  <1>3. TheLookup.source # TheLookup.target
    BY LookupsTyped DEF Placed, TheLookup
  <1>4. Found(v) = Answer(TheLookup, TheRecord[TheLookup.source], v)
    BY <1>1 DEF Found, Answer
  <1>. QED  BY <1>1, <1>2, <1>3, <1>4 DEF Assigned

\* The cache is empty and no lookup has been made.
LEMMA LookupInit0 == Init => LookupInv
  BY LookupAssumption DEF Init, MetadataInit, LookupInit, DocumentInit, LookupInv, TablesTyped,
       CacheSeen, Placed, QueryState, LastPlaced, Idle, LookupWithinTTL, NoLookup, Tables

\* Ticks and new versions of the tables.
LEMMA TablesKeep ==
  ASSUME DefinitionInv, LookupInv, TableChanges, reading = "ready",
         UNCHANGED <<metadataVars, documentVars>>
  PROVE  LookupInv'
  <1>1. /\ UNCHANGED <<cache, asked, answer, reading, definition>>
        /\ UNCHANGED <<stage, taken, payload, records, position, outcome, lastLookup>>
        /\ clock \in Nat /\ clock' \in Nat /\ clock <= clock'
    BY DEF TableChanges, Tick, UpdateTable, metadataVars, documentVars, LookupInv, TablesTyped
  <1>2. TablesTyped'
    <2>1. CASE Tick
      BY <1>1, <2>1 DEF LookupInv, TablesTyped, Tick, Tables
    <2>2. ASSUME NEW t \in Tables, UpdateTable(t) PROVE TablesTyped'
      <3>1. since[t] \in Seq(Nat) /\ clock \in Nat
        BY DEF LookupInv, TablesTyped
      <3>2. Append(since[t], clock) \in Seq(Nat)
        BY <3>1
      <3>. QED  BY <1>1, <2>2, <3>2 DEF LookupInv, TablesTyped, UpdateTable, Tables
    <2>. QED  BY <2>1, <2>2 DEF TableChanges
  <1>3. CacheSeen'
    BY <1>1, SeenStays DEF LookupInv, CacheSeen, Tables
  <1>4. Placed'
    BY <1>1 DEF LookupInv, Placed, Looking
  <1>5. QueryState'
    <2>1. CASE stage = "query"
      <3>1. TheLookup.name \in Tables
        BY <2>1, LookupsTyped DEF LookupInv, Placed, QueryState, TheLookup
      <3>2. answer # 0 => Seen(TheLookup.name, answer, asked)'
        BY <1>1, <2>1, <3>1, SeenStays DEF LookupInv, QueryState, TheLookup, Seen, VersionsAfter
      <3>. QED  BY <1>1, <2>1, <3>2 DEF LookupInv, QueryState, Looking, TheLookup, TheRecord
    <2>. QED  BY <1>1, <2>1 DEF LookupInv, QueryState
  <1>6. LastPlaced'
    BY <1>1 DEF LookupInv, LastPlaced
  <1>7. LookupWithinTTL'
    <2>. SUFFICES ASSUME lastLookup.row > 0, stage # "query", stage # "stopped"
                  PROVE  LookupWithinTTL'
      BY <1>1 DEF LookupWithinTTL
    <2>. DEFINE lookup == definition.lookups[lastLookup.lookup]
                record == records[lastLookup.row]
                from   == lastLookup.at - lookup.ttl
    <2>1. PICK v \in VersionsAfter(lookup.name, from) :
            record[lookup.target] = Answer(lookup, record[lookup.source], v)
      BY DEF LookupInv, LookupWithinTTL, Answer
    <2>2. lookup.name \in Tables /\ from \in Int /\ from < clock
      BY <1>1, LookupsTyped DEF LookupInv, LastPlaced
    <2>3. v \in VersionsAfter(lookup.name, from)'
      BY <2>1, <2>2, VersionsStay, <1>1 DEF LookupInv
    <2>. QED  BY <1>1, <2>1, <2>3 DEF LookupWithinTTL, Answer
  <1>. QED  BY <1>1, <1>2, <1>3, <1>4, <1>5, <1>6, <1>7 DEF LookupInv, Idle

\* A document is taken: nothing of the previous one is left.
LEMMA TakeKeeps ==
  ASSUME DefinitionInv, LookupInv, NEW document, RejectDocument(document) \/ ExtractDocument(document)
  PROVE  LookupInv'
  <1>1. /\ Take(document) /\ stage' \in {"between", "lookup", "stopped"}
        /\ UNCHANGED <<metadataVars, lookupVars>>
        /\ position' = <<1, 1>> /\ lastLookup' = NoLookup /\ reading = "ready" /\ stage = "between"
    BY DEF RejectDocument, ExtractDocument, Take
  <1>2. /\ UNCHANGED <<reading, definition, clock, since, cache, asked, answer>>
        /\ answer = 0
    BY <1>1 DEF metadataVars, lookupVars, LookupInv, QueryState
  <1>3. Placed'
    BY <1>1, <1>2, PositionTyped DEF Placed, Looking
  <1>4. LastPlaced' /\ LookupWithinTTL'
    BY <1>1 DEF LastPlaced, LookupWithinTTL, NoLookup
  <1>. QED  BY <1>1, <1>2, <1>3, <1>4 DEF LookupInv, TablesTyped, CacheSeen, Seen, VersionsAfter,
                                          QueryState, Idle, Tables

\* The document's last record is validated, or a lookup is passed over.
LEMMA PassKeeps ==
  ASSUME DefinitionInv, LookupInv, SkipLookup \/ ValidateDocument \/ FailValidation
  PROVE  LookupInv'
  <1>1. /\ stage = "lookup" /\ stage' \in {"lookup", "between", "stopped"}
        /\ UNCHANGED <<metadataVars, lookupVars, records, lastLookup>>
        /\ stage' = "lookup" => position' = NextPosition /\ Looking
    BY DEF SkipLookup, Validate, ValidateDocument, FailValidation
  <1>2. UNCHANGED <<reading, definition, clock, since, cache, asked, answer>>
    BY <1>1 DEF metadataVars, lookupVars
  <1>3. reading = "ready"
    BY <1>1 DEF LookupInv, Idle
  <1>4. Placed'
    BY <1>1, <1>2, <1>3, PositionTyped DEF LookupInv, Placed, Looking
  <1>5. LookupWithinTTL'
    BY <1>1, <1>2 DEF LookupInv, LookupWithinTTL, VersionsAfter
  <1>. QED  BY <1>1, <1>2, <1>3, <1>4, <1>5 DEF LookupInv, TablesTyped, CacheSeen, Seen, VersionsAfter,
                                                QueryState, LastPlaced, Idle, Tables

\* The table's entry is new enough.
LEMMA CachedKeeps ==
  ASSUME DefinitionInv, LookupInv, UseCached
  PROVE  LookupInv'
  <1>. DEFINE lookup == TheLookup
              entry  == cache[lookup.name]
              v      == entry.version
  <1>1. /\ stage = "lookup" /\ Looking /\ TheLookup.source \in DOMAIN TheRecord
        /\ IsFresh(lookup) /\ UNCHANGED lookupVars /\ Enrich(v)
        /\ lastLookup' = [row |-> position[1], lookup |-> position[2], at |-> clock]
        /\ UNCHANGED metadataVars
    BY DEF UseCached, HitCache, Begun
  <1>2. UNCHANGED <<reading, definition, clock, since, cache, asked, answer>>
    BY <1>1 DEF metadataVars, lookupVars
  <1>3. reading = "ready" /\ answer = 0 /\ clock \in Nat
    BY <1>1 DEF LookupInv, Idle, QueryState, TablesTyped
  <1>4. position[2] \in DOMAIN definition.lookups /\ lookup = definition.lookups[position[2]]
    BY <1>1 DEF LookupInv, Placed, TheLookup
  <1>5. lookup.name \in Tables /\ lookup.ttl \in Nat \ {0}
    BY <1>3, <1>4, LookupsTyped
  <1>6. v \in VersionsAfter(lookup.name, clock - lookup.ttl)
    <2>1. Seen(lookup.name, v, entry.stamp) /\ clock - entry.stamp < lookup.ttl
      BY <1>1, <1>5 DEF IsFresh, LookupInv, CacheSeen
    <2>. QED  BY <1>3, <1>5, <2>1, SeenWithin DEF LookupInv
  <1>7. stage' \in {"lookup", "stopped"}
    BY <1>1 DEF Enrich
  <1>8. Placed'
    <2>1. CASE stage' = "lookup"
      <3>1. position' = NextPosition
        BY <1>1, <2>1 DEF Enrich
      <3>. QED  BY <1>1, <1>2, <1>3, <1>4, <3>1, PositionTyped DEF Placed, Looking
    <2>. QED  BY <1>7, <2>1 DEF Placed
  <1>9. LookupWithinTTL'
    <2>. SUFFICES ASSUME stage' # "stopped" PROVE LookupWithinTTL'
      BY DEF LookupWithinTTL
    <2>. DEFINE record == records'[position[1]]
    <2>1. record[lookup.target] = Answer(lookup, record[lookup.source], v)
      BY <1>1, <1>2, <1>3, EnrichGives DEF LookupInv
    <2>2. /\ lastLookup'.row = position[1] /\ lastLookup'.at = clock
          /\ definition'.lookups[lastLookup'.lookup] = lookup
      BY <1>1, <1>2, <1>4
    <2>. HIDE DEF lookup, v
    <2>. QED  BY <1>1, <1>2, <1>6, <2>1, <2>2 DEF LookupWithinTTL, Answer, VersionsAfter
  <1>10. LastPlaced'
    BY <1>1, <1>2, <1>3, <1>4 DEF LastPlaced
  <1>. QED  BY <1>1, <1>2, <1>3, <1>7, <1>8, <1>9, <1>10 DEF LookupInv, TablesTyped, CacheSeen, Seen,
                                                       VersionsAfter, QueryState, Idle, Tables

\* The clock is read before the query runs.
LEMMA BeginKeeps ==
  ASSUME DefinitionInv, LookupInv, BeginQuery
  PROVE  LookupInv'
  <1>1. /\ stage = "lookup" /\ stage' = "query" /\ Looking
        /\ TheLookup.source \in DOMAIN TheRecord
        /\ asked' = clock /\ UNCHANGED <<clock, since, cache, answer>>
        /\ lastLookup' = [row |-> position[1], lookup |-> position[2], at |-> clock]
        /\ UNCHANGED <<metadataVars, records, position>>
    BY DEF BeginQuery, MissCache, Begun
  <1>2. UNCHANGED <<reading, definition>>
    BY <1>1 DEF metadataVars
  <1>3. answer = 0 /\ clock \in Nat /\ reading = "ready"
    BY <1>1 DEF LookupInv, QueryState, TablesTyped, Idle
  <1>4. Placed' /\ LastPlaced'
    BY <1>1, <1>2, <1>3 DEF LookupInv, Placed, LastPlaced, Looking
  <1>5. QueryState'
    BY <1>1, <1>2, <1>3 DEF QueryState, Looking, TheLookup, TheRecord
  <1>. QED  BY <1>1, <1>2, <1>3, <1>4, <1>5 DEF LookupInv, TablesTyped, CacheSeen, Seen, VersionsAfter,
                                                Idle, Tables, LookupWithinTTL

\* The query sees the table as it is now.
LEMMA RunKeeps ==
  ASSUME DefinitionInv, LookupInv, RunQuery
  PROVE  LookupInv'
  <1>1. /\ stage = "query" /\ answer' = Len(since[TheLookup.name])
        /\ UNCHANGED <<clock, since, cache, asked>>
        /\ UNCHANGED <<metadataVars, documentVars>>
    BY DEF RunQuery, QueryTable
  <1>2. UNCHANGED <<reading, definition, stage, taken, payload, records, position, outcome, lastLookup>>
    BY <1>1 DEF metadataVars, documentVars
  <1>3. /\ Looking /\ TheLookup.source \in DOMAIN TheRecord
        /\ lastLookup = [row |-> position[1], lookup |-> position[2], at |-> asked]
        /\ asked \in Nat /\ asked <= clock
    BY <1>1 DEF LookupInv, QueryState
  <1>4. answer' # 0 => Seen(TheLookup.name, answer', asked)
    <2>1. TheLookup.name \in Tables
      BY <1>1, <1>3, LookupsTyped DEF LookupInv, Placed, Idle, TheLookup
    <2>2. since[TheLookup.name] \in Seq(Nat)
      BY <2>1 DEF LookupInv, TablesTyped
    <2>. QED  BY <1>1, <1>3, <2>2 DEF Seen, VersionsAfter
  <1>5. QueryState'
    BY <1>1, <1>2, <1>3, <1>4 DEF QueryState, Looking, TheLookup, TheRecord, Seen, VersionsAfter
  <1>. QED  BY <1>1, <1>2, <1>5 DEF LookupInv, TablesTyped, CacheSeen, Seen, VersionsAfter, Placed,
                                    Looking, LastPlaced, Idle, Tables, LookupWithinTTL

\* The entry stored carries the time before the query.
LEMMA EndKeeps ==
  ASSUME DefinitionInv, LookupInv, EndQuery
  PROVE  LookupInv'
  <1>. DEFINE lookup == TheLookup
  <1>1. /\ stage = "query" /\ answer # 0 /\ Enrich(answer)
        /\ cache' = [cache EXCEPT ![lookup.name] = [stamp |-> asked, version |-> answer]]
        /\ answer' = 0 /\ UNCHANGED <<clock, since, lastLookup>>
        /\ UNCHANGED metadataVars
    BY DEF EndQuery, StoreTable, EntryLoaded
  <1>2. UNCHANGED <<reading, definition>>
    BY <1>1 DEF metadataVars
  <1>3. /\ reading = "ready" /\ clock \in Nat /\ asked \in Nat
        /\ Looking /\ TheLookup.source \in DOMAIN TheRecord
        /\ lastLookup = [row |-> position[1], lookup |-> position[2], at |-> asked]
        /\ Seen(lookup.name, answer, asked)
    BY <1>1 DEF LookupInv, Idle, QueryState, TablesTyped
  <1>4. position[2] \in DOMAIN definition.lookups /\ lookup = definition.lookups[position[2]]
    BY <1>1, <1>3 DEF LookupInv, Placed, TheLookup
  <1>5. lookup.name \in Tables /\ lookup.ttl \in Nat \ {0}
    BY <1>3, <1>4, LookupsTyped
  <1>6. answer \in VersionsAfter(lookup.name, asked - lookup.ttl)
    BY <1>3, <1>5, SeenWithin DEF LookupInv
  <1>7. stage' \in {"lookup", "stopped"}
    BY <1>1 DEF Enrich
  <1>8. Placed'
    <2>1. CASE stage' = "lookup"
      <3>1. position' = NextPosition
        BY <1>1, <2>1 DEF Enrich
      <3>. QED  BY <1>2, <1>3, <1>4, <3>1, PositionTyped DEF Placed, Looking
    <2>. QED  BY <1>7, <2>1 DEF Placed
  <1>9. CacheSeen'
    <2>. SUFFICES ASSUME NEW t \in Tables, cache'[t] # NoEntry
                  PROVE  Seen(t, cache'[t].version, cache'[t].stamp)
      BY <1>1 DEF CacheSeen, Seen, VersionsAfter, Tables
    <2>1. CASE t = lookup.name
      BY <1>1, <1>3, <2>1 DEF LookupInv, TablesTyped
    <2>2. CASE t # lookup.name
      BY <1>1, <2>2 DEF LookupInv, TablesTyped, CacheSeen
    <2>. QED  BY <2>1, <2>2
  <1>10. LookupWithinTTL'
    <2>. SUFFICES ASSUME stage' # "stopped" PROVE LookupWithinTTL'
      BY DEF LookupWithinTTL
    <2>. DEFINE record == records'[position[1]]
    <2>1. record[lookup.target] = Answer(lookup, record[lookup.source], answer)
      BY <1>1, <1>2, <1>3, EnrichGives DEF LookupInv
    <2>2. /\ lastLookup'.row = position[1] /\ lastLookup'.at = asked
          /\ definition'.lookups[lastLookup'.lookup] = lookup
      BY <1>1, <1>2, <1>3, <1>4
    <2>. HIDE DEF lookup
    <2>. QED  BY <1>1, <1>2, <1>6, <2>1, <2>2 DEF LookupWithinTTL, Answer, VersionsAfter
  <1>. QED  BY <1>1, <1>2, <1>3, <1>7, <1>8, <1>9, <1>10 DEF LookupInv, TablesTyped,
                                          QueryState, LastPlaced, Idle, Tables

\* People and the reader run before the first document.
LEMMA BeforeKeeps ==
  ASSUME LookupInv, Maintain \/ ReadDefinition, UNCHANGED <<lookupVars, documentVars>>
  PROVE  LookupInv'
  <1>1. reading # "ready"
    BY DEF Maintain, Register, Populate, Activate, Deprecate, Editing, Statements,
           ReadDefinition, ReadPipeline, ReadSchema, ReadMappings, ReadFlattenConfigs, ReadRules,
           ReadLookups, ReadSchemaDocument, Run
  <1>2. /\ UNCHANGED <<clock, since, cache, asked, answer>>
        /\ UNCHANGED <<stage, taken, payload, records, position, outcome, lastLookup>>
        /\ stage = "between" /\ lastLookup = NoLookup
    BY <1>1 DEF lookupVars, documentVars, LookupInv, Idle
  <1>. QED  BY <1>2 DEF LookupInv, TablesTyped, CacheSeen, Seen, VersionsAfter, Placed, QueryState,
                        LastPlaced, Idle, LookupWithinTTL, NoLookup, Tables

\* Every step keeps both invariants.
LEMMA LookupStep == DefinitionInv /\ LookupInv /\ [Next]_vars => LookupInv'
  <1>. SUFFICES ASSUME DefinitionInv, LookupInv, [Next]_vars PROVE LookupInv'
    OBVIOUS
  <1>1. CASE UNCHANGED vars
    BY <1>1 DEF vars, metadataVars, metadataTables, lookupVars, documentVars, LookupInv, TablesTyped,
                CacheSeen, Seen, VersionsAfter, Placed, Looking, TheLookup, TheRecord, QueryState,
                LastPlaced, Idle, LookupWithinTTL, Tables
  <1>2. CASE Process
    BY <1>2, TakeKeeps, PassKeeps, CachedKeeps, BeginKeeps, RunKeeps, EndKeeps DEF Process
  <1>3. CASE (Maintain \/ ReadDefinition) /\ UNCHANGED <<lookupVars, documentVars>>
    BY <1>3, BeforeKeeps
  <1>4. CASE TableChanges /\ reading = "ready" /\ UNCHANGED <<metadataVars, documentVars>>
    BY <1>4, TablesKeep
  <1>. QED  BY <1>1, <1>2, <1>3, <1>4 DEF Next

\* However a query and the changes of a reference table interleave, a
\* looked-up value is never older than the lookup's TTL.
THEOREM LookupsWithinTTL == Spec => []LookupWithinTTL
  <1>1. LookupInv => LookupWithinTTL
    BY DEF LookupInv
  <1>. QED  BY <1>1, DefinitionInit, DefinitionStep, LookupInit0, LookupStep, PTL DEF Spec

-----------------------------------------------------------------------------
(* Types of what is read                                                   *)

DefinitionTyped ==
  /\ definition.mappings \in Seq(Mapping)
  /\ definition.flatten_configs \in Seq([path : Seq(STRING)])

TypesInv == MetadataTypeOK /\ DefinitionTyped /\ LookupTypeOK

\* The empty sequence is a sequence of anything.
LEMMA TypesInit == Init => TypesInv
  <1>. SUFFICES ASSUME Init PROVE TypesInv
    OBVIOUS
  <1>1. MetadataTypeOK
    BY MetadataAssumption DEF Init, MetadataInit, MetadataTypeOK, Versions, Statements, Read, Unread
  <1>2. DefinitionTyped
    <2>1. \A S : <<>> \in Seq(S)
      OBVIOUS
    <2>. HIDE DEF Mapping
    <2>. QED  BY <2>1 DEF Init, MetadataInit, DefinitionTyped, Unread
  <1>3. LookupTypeOK
    <2>. SUFFICES ASSUME NEW t \in Tables
                  PROVE  /\ since[t] \in Seq(0..clock)
                         /\ Len(since[t]) \in DOMAIN Contents[t]
                         /\ cache[t].stamp \in 0..clock
                         /\ cache[t].version \in 0..Len(since[t])
      BY LookupAssumption DEF Init, LookupInit, LookupTypeOK
    <2>1. since[t] = <<0>> /\ clock = 0 /\ cache[t] = NoEntry
      BY DEF Init, LookupInit
    <2>2. <<0>> \in Seq(0..0) /\ Len(<<0>>) = 1
      OBVIOUS
    <2>3. 1 \in DOMAIN Contents[t]
      <3>1. Len(Contents[t]) \in Nat \ {0} /\ DOMAIN Contents[t] = 1..Len(Contents[t])
        BY LookupAssumption DEF Tables
      <3>. QED  BY <3>1
    <2>. QED  BY <2>1, <2>2, <2>3 DEF NoEntry
  <1>. QED  BY <1>1, <1>2, <1>3 DEF TypesInv

\* People and the reader.
LEMMA MetadataTypes ==
  ASSUME DefinitionInv, MetadataTypeOK, DefinitionTyped, Maintain \/ ReadDefinition
  PROVE  MetadataTypeOK' /\ DefinitionTyped'
  <1>1. CASE Maintain
    <2>1. UNCHANGED <<activeFlag, reading, definition, whole>>
      BY <1>1 DEF Maintain, Register, Populate, Activate, Deprecate, Editing
    <2>2. status' \in [Versions -> {"ABSENT", "DRAFT", "ACTIVE", "DEPRECATED"}]
      BY <1>1 DEF Maintain, Register, Populate, Activate, Deprecate, MetadataTypeOK
    <2>3. populated' \in [Versions -> SUBSET RowTables]
      <3>1. CASE UNCHANGED populated
        BY <3>1 DEF MetadataTypeOK
      <3>2. ASSUME NEW v \in Versions, NEW part \in RowTables, Populate(v, part)
            PROVE  populated' \in [Versions -> SUBSET RowTables]
        <4>1. populated' = [populated EXCEPT ![v] = populated[v] \cup {part}]
          BY <3>2 DEF Populate
        <4>2. populated[v] \cup {part} \in SUBSET RowTables
          BY <3>2 DEF MetadataTypeOK
        <4>. HIDE DEF RowTables
        <4>. QED  BY <4>1, <4>2 DEF MetadataTypeOK
      <3>. QED  BY <1>1, <3>1, <3>2 DEF Maintain, Register, Activate, Deprecate
    <2>. QED  BY <2>1, <2>2, <2>3 DEF MetadataTypeOK, DefinitionTyped, Versions
  <1>2. CASE ReadDefinition
    <2>1. UNCHANGED <<activeFlag, status, populated>>
      BY <1>2 DEF ReadDefinition, ReadPipeline, ReadSchema, ReadMappings, ReadFlattenConfigs,
                  ReadRules, ReadLookups, ReadSchemaDocument, Run, metadataTables
    <2>2. reading' \in Statements \cup Read
      BY <1>2 DEF ReadDefinition, ReadPipeline, ReadSchema, ReadMappings, ReadFlattenConfigs,
                  ReadRules, ReadLookups, ReadSchemaDocument, Run, Statements, Read
    <2>3. definition'.schema_id \in Versions \cup {0}
      <3>1. CASE UNCHANGED definition
        BY <3>1 DEF MetadataTypeOK
      <3>2. CASE ReadSchema
        BY <3>2 DEF ReadSchema, LatestActive, ActiveVersions, DefinitionInv, Unread, MetadataTypeOK
      <3>3. CASE \/ ReadMappings \/ ReadFlattenConfigs \/ ReadRules \/ ReadLookups
                 \/ ReadSchemaDocument
        BY <3>3 DEF ReadMappings, ReadFlattenConfigs, ReadRules, ReadLookups, ReadSchemaDocument,
                    DefinitionInv, Unread, MetadataTypeOK
      <3>. QED  BY <1>2, <3>1, <3>2, <3>3 DEF ReadDefinition, ReadPipeline
    <2>4. DefinitionTyped'
      <3>0. <<>> \in Seq(Mapping) /\ <<>> \in Seq([path : Seq(STRING)])
        OBVIOUS
      <3>1. CASE UNCHANGED definition
        BY <3>1 DEF DefinitionTyped
      <3>2. CASE ReadMappings
        <4>1. definition.schema_id \in DOMAIN Schemas
          BY <3>2 DEF ReadMappings, Run, DefinitionInv, SchemaRead, AfterSchema, Versions
        <4>2. VersionInHand.mappings \in Seq(Mapping)
          BY <4>1, MetadataAssumption DEF VersionInHand, Mapping
        <4>3. /\ definition'.mappings = Rows("mappings", VersionInHand.mappings, <<>>)
              /\ definition'.flatten_configs = definition.flatten_configs
          BY <3>2 DEF ReadMappings, DefinitionInv, Unread, VersionInHand
        <4>. QED  BY <3>0, <4>2, <4>3 DEF DefinitionTyped, Rows
      <3>3. CASE ReadFlattenConfigs
        <4>1. definition.schema_id \in DOMAIN Schemas
          BY <3>3 DEF ReadFlattenConfigs, Run, DefinitionInv, SchemaRead, AfterSchema, Versions
        <4>2. VersionInHand.flatten_configs \in Seq([path : Seq(STRING)])
          BY <4>1, MetadataAssumption DEF VersionInHand
        <4>3. /\ definition'.flatten_configs = Rows("flatten_configs", VersionInHand.flatten_configs, <<>>)
              /\ definition'.mappings = definition.mappings
          BY <3>3 DEF ReadFlattenConfigs, DefinitionInv, Unread, VersionInHand
        <4>. QED  BY <3>0, <4>2, <4>3 DEF DefinitionTyped, Rows
      <3>4. CASE ReadSchema \/ ReadRules \/ ReadLookups \/ ReadSchemaDocument
        <4>1. /\ definition'.mappings = definition.mappings
              /\ definition'.flatten_configs = definition.flatten_configs
          BY <3>4 DEF ReadSchema, ReadRules, ReadLookups, ReadSchemaDocument, DefinitionInv, Unread
        <4>. QED  BY <4>1 DEF DefinitionTyped
      <3>. QED  BY <1>2, <3>1, <3>2, <3>3, <3>4 DEF ReadDefinition, ReadPipeline
    <2>5. whole' \in BOOLEAN
      BY <1>2 DEF ReadDefinition, ReadPipeline, ReadSchema, ReadMappings, ReadFlattenConfigs,
                  ReadRules, ReadLookups, ReadSchemaDocument, MetadataTypeOK
    <2>. QED  BY <2>1, <2>2, <2>3, <2>4, <2>5 DEF MetadataTypeOK, Versions
  <1>. QED  BY <1>1, <1>2

\* Ticks and new versions of the tables.
LEMMA TablesTypes ==
  ASSUME LookupTypeOK, TablesTyped, TableChanges
  PROVE  LookupTypeOK'
  <1>0. MaxTime \in Nat /\ \A t \in Tables : DOMAIN Contents[t] = 1..Len(Contents[t])
    BY LookupAssumption DEF Tables
  <1>1. CASE Tick
    <2>1. /\ UNCHANGED <<since, cache, asked, answer>>
          /\ clock \in Nat /\ clock' = clock + 1 /\ clock' \in 0..MaxTime
      BY <1>0, <1>1 DEF Tick, LookupTypeOK
    <2>2. 0..clock \subseteq 0..clock'
      BY <2>1
    <2>3. ASSUME NEW t \in Tables PROVE since[t] \in Seq(0..clock')
      <3>1. since[t] \in Seq(0..clock)
        BY DEF LookupTypeOK
      <3>. DEFINE S == 0..clock
                  T == 0..clock'
      <3>. HIDE DEF S, T
      <3>2. S \subseteq T /\ since[t] \in Seq(S)
        BY <2>2, <3>1 DEF S, T
      <3>3. since[t] \in Seq(T)
        BY <3>2
      <3>. QED  BY <3>3 DEF T
    <2>. QED  BY <2>1, <2>2, <2>3 DEF LookupTypeOK, Tables
  <1>2. ASSUME NEW u \in Tables, UpdateTable(u) PROVE LookupTypeOK'
    <2>1. /\ UNCHANGED <<clock, cache, asked, answer>>
          /\ since' = [since EXCEPT ![u] = Append(@, clock)]
          /\ Len(since[u]) < Len(Contents[u])
      BY <1>2 DEF UpdateTable
    <2>2. ASSUME NEW t \in Tables
          PROVE  /\ since'[t] \in Seq(0..clock)
                 /\ Len(since'[t]) \in DOMAIN Contents[t]
                 /\ Len(since[t]) \in Nat /\ Len(since[t]) <= Len(since'[t])
      <3>1. /\ since[t] \in Seq(0..clock) /\ Len(since[t]) \in DOMAIN Contents[t]
            /\ clock \in 0..clock
        BY DEF LookupTypeOK
      <3>2. CASE t = u
        <4>1. since'[t] = Append(since[t], clock)
          BY <2>1, <3>2 DEF TablesTyped
        <4>2. /\ Append(since[t], clock) \in Seq(0..clock)
              /\ Len(Append(since[t], clock)) = Len(since[t]) + 1 /\ Len(since[t]) \in Nat
          BY <3>1
        <4>3. Len(since[t]) + 1 \in DOMAIN Contents[t]
          <5>1. Len(since[t]) \in 1..Len(Contents[t]) /\ Len(since[t]) < Len(Contents[t])
            BY <1>0, <2>1, <3>1, <3>2
          <5>2. Len(Contents[t]) \in Nat
            BY LookupAssumption DEF Tables
          <5>3. Len(since[t]) + 1 \in 1..Len(Contents[t])
            BY <5>1, <5>2
          <5>. QED  BY <1>0, <5>3
        <4>. QED  BY <4>1, <4>2, <4>3
      <3>3. CASE t # u
        <4>1. since'[t] = since[t]
          BY <2>1, <3>3 DEF TablesTyped
        <4>2. Len(since[t]) \in Nat
          BY <3>1
        <4>. QED  BY <3>1, <4>1, <4>2
      <3>. QED  BY <3>2, <3>3
    <2>3. ASSUME NEW t \in Tables PROVE cache[t].version \in 0..Len(since'[t])
      <3>1. cache[t].version \in 0..Len(since[t]) /\ since'[t] \in Seq(0..clock)
        BY <2>2 DEF LookupTypeOK
      <3>2. Len(since'[t]) \in Nat
        BY <3>1
      <3>. QED  BY <2>2, <3>1, <3>2
    <2>. QED  BY <2>1, <2>2, <2>3 DEF LookupTypeOK, Tables
  <1>. QED  BY <1>1, <1>2 DEF TableChanges

\* The steps of the lookup under way.
LEMMA QueryTypes ==
  ASSUME DefinitionInv, LookupInv, LookupTypeOK, Process
  PROVE  LookupTypeOK'
  <1>1. CASE UNCHANGED lookupVars
    BY <1>1 DEF lookupVars, LookupTypeOK, Tables
  <1>2. CASE BeginQuery
    BY <1>2 DEF BeginQuery, MissCache, LookupTypeOK, Tables
  <1>3. CASE RunQuery
    <2>1. TheLookup.name \in Tables
      BY <1>3, LookupsTyped DEF RunQuery, LookupInv, QueryState, Idle, Placed, TheLookup
    <2>2. Len(since[TheLookup.name]) \in Nat
      <3>1. since[TheLookup.name] \in Seq(0..clock)
        BY <2>1 DEF LookupTypeOK
      <3>. QED  BY <3>1
    <2>. QED  BY <1>3, <2>2 DEF RunQuery, QueryTable, LookupTypeOK, Tables
  <1>4. CASE EndQuery
    <2>1. TheLookup.name \in Tables
      BY <1>4, LookupsTyped DEF EndQuery, LookupInv, QueryState, Idle, Placed, TheLookup
    <2>2. Seen(TheLookup.name, answer, asked)
      BY <1>4 DEF EndQuery, StoreTable, LookupInv, QueryState
    <2>3. answer \in 0..Len(since[TheLookup.name])
      <3>1. answer \in DOMAIN since[TheLookup.name]
        BY <2>2 DEF Seen, VersionsAfter
      <3>2. since[TheLookup.name] \in Seq(0..clock)
        BY <2>1 DEF LookupTypeOK
      <3>. QED  BY <3>1, <3>2
    <2>4. /\ cache' = [cache EXCEPT ![TheLookup.name] = [stamp |-> asked, version |-> answer]]
          /\ asked' = 0 /\ answer' = 0 /\ UNCHANGED <<clock, since>>
      BY <1>4 DEF EndQuery, StoreTable, EntryLoaded
    <2>5. ASSUME NEW t \in Tables
          PROVE  cache'[t].stamp \in 0..clock /\ cache'[t].version \in 0..Len(since[t])
      <3>1. CASE t = TheLookup.name
        <4>1. cache'[t] = [stamp |-> asked, version |-> answer]
          BY <2>4, <3>1 DEF LookupInv, TablesTyped
        <4>. QED  BY <2>3, <3>1, <4>1 DEF LookupTypeOK
      <3>2. CASE t # TheLookup.name
        <4>1. cache'[t] = cache[t]
          BY <2>4, <3>2 DEF LookupInv, TablesTyped
        <4>. QED  BY <4>1 DEF LookupTypeOK
      <3>. QED  BY <3>1, <3>2
    <2>. QED  BY <2>4, <2>5 DEF LookupTypeOK, Tables
  <1>. QED  BY <1>1, <1>2, <1>3, <1>4 DEF Process, RejectDocument, ExtractDocument, Take,
              SkipLookup, UseCached, HitCache, Validate, ValidateDocument, FailValidation

\* Every step keeps the types.
LEMMA TypesStep == DefinitionInv /\ LookupInv /\ TypesInv /\ [Next]_vars => TypesInv'
  <1>. SUFFICES ASSUME DefinitionInv, LookupInv, TypesInv, [Next]_vars PROVE TypesInv'
    OBVIOUS
  <1>. USE DEF TypesInv
  <1>1. UNCHANGED metadataVars => MetadataTypeOK' /\ DefinitionTyped'
    BY DEF metadataVars, metadataTables, MetadataTypeOK, DefinitionTyped, Versions
  <1>2. UNCHANGED lookupVars => LookupTypeOK'
    BY DEF lookupVars, LookupTypeOK, Tables
  <1>3. CASE UNCHANGED vars
    BY <1>1, <1>2, <1>3 DEF vars
  <1>4. CASE Process
    BY <1>1, <1>4, ProcessFrame, QueryTypes
  <1>5. CASE (Maintain \/ ReadDefinition) /\ UNCHANGED <<lookupVars, documentVars>>
    BY <1>2, <1>5, MetadataTypes
  <1>6. CASE TableChanges /\ reading = "ready" /\ UNCHANGED <<metadataVars, documentVars>>
    BY <1>1, <1>6, TablesTypes DEF LookupInv
  <1>. QED  BY <1>3, <1>4, <1>5, <1>6 DEF Next

-----------------------------------------------------------------------------
(* What a document's records are                                           *)

\* Before the definition is read no document is touched.
Untouched == reading # "ready" => records = <<>> /\ outcome = NoResult

\* The records whose document is not given back yet, or is given back.
InHand == stage \in {"lookup", "query"} \/ Returned

\* The columns that no lookup writes.
Kept(column) == \A i \in DOMAIN definition.lookups : definition.lookups[i].target # column

\* The lookups only touch their targets.
FromDocument ==
  InHand =>
    /\ reading = "ready" /\ payload \in Documents
    /\ DOMAIN records = DOMAIN Transformed(payload)
    /\ records = [r \in DOMAIN records |-> records[r]]
    /\ \A r \in DOMAIN records : \A c \in DOMAIN Transformed(payload)[r] :
         Kept(c) => c \in DOMAIN records[r] /\ records[r][c] = Transformed(payload)[r][c]

\* An exception stays only in the records of a process that has stopped.
ValuesTyped ==
  \A r \in DOMAIN records : \A c \in DOMAIN records[r] :
    IsResult(records[r][c]) /\ (stage # "stopped" => records[r][c] # Raised)

Refused == {r \in DOMAIN records : ErrorsOf(r) # {}}

\* What is returned is what the rules say of the records.
Judged ==
  /\ ~Returned => outcome.valid = {} /\ outcome.hints = <<>>
  /\ Returned  => /\ outcome.valid = DOMAIN records \ Refused
                  /\ Invalid = Refused
                  /\ \A r \in Refused : outcome.hints[r] = HintFor(r, ErrorsOf(r))

PlaceTyped ==
  /\ stage \in Stages
  /\ taken \in 0..MaxDocuments
  /\ Looking => position[2] \in DOMAIN definition.lookups
  /\ outcome.status \in {"NONE", "SCHEMA_INVALID", "OK", "PARTIAL", "RAISED"}
  /\ stage \in {"lookup", "query"} => outcome.status = "NONE"

DocumentInv == Untouched /\ FromDocument /\ ValuesTyped /\ Judged /\ PlaceTyped

\* A document's records: at least one, with every mapped column.
LEMMA TransformedTyped ==
  ASSUME TypesInv, NEW document \in Documents
  PROVE  /\ DOMAIN Transformed(document) # {}
         /\ DOMAIN Transformed(document) = DOMAIN Flattened(document)
         /\ \A r \in DOMAIN Transformed(document) :
              LET record == Transformed(document)[r]
              IN /\ \A c \in DOMAIN record : IsResult(record[c])
                 /\ \A k \in 1..Len(definition.mappings) :
                      LET m == definition.mappings[k]
                      IN /\ m.column \in DOMAIN record
                         /\ (\A j \in 1..Len(definition.mappings) :
                               definition.mappings[j].column = m.column => j = k)
                              => record[m.column] =
                                   apply_transformation(Resolve(Flattened(document)[r], m.path), m.rule)
  <1>. DEFINE rows     == Flattened(document)
              mappings == definition.mappings
              R        == FlatRows(Values, document)
  <1>1. /\ HoldsParts(Values) /\ Null \in Values /\ document \in Values
        /\ mappings \in Seq(Mapping) /\ definition.flatten_configs \in Seq([path : Seq(STRING)])
    BY OrchestratorAssumption DEF TypesInv, DefinitionTyped
  <1>. HIDE DEF R, mappings
  <1>2. rows \in Seq(R) /\ rows # <<>>
    BY <1>1, FlattenRecords DEF Flattened, R
  <1>. HIDE DEF rows
  <1>3. DOMAIN rows # {} /\ \A r \in DOMAIN rows : rows[r] \in R
    BY <1>2
  <1>4. /\ DOMAIN Transformed(document) = DOMAIN rows
        /\ \A r \in DOMAIN rows :
             Transformed(document)[r] = apply_transformations(apply_mappings(rows[r], mappings), mappings)
    BY DEF Transformed, rows, mappings
  <1>5. ASSUME NEW r \in DOMAIN rows
        PROVE  LET record == Transformed(document)[r]
               IN /\ \A c \in DOMAIN record : IsResult(record[c])
                  /\ \A k \in 1..Len(mappings) :
                       /\ mappings[k].column \in DOMAIN record
                       /\ (\A j \in 1..Len(mappings) : mappings[j].column = mappings[k].column => j = k)
                            => record[mappings[k].column] =
                                 apply_transformation(Resolve(rows[r], mappings[k].path), mappings[k].rule)
    <2>. DEFINE mapped == apply_mappings(rows[r], mappings)
                result == apply_transformations(mapped, mappings)
    <2>1. rows[r] \in FlatRows(Values, document)
      BY <1>3 DEF R
    <2>2. /\ mapped \in Records(Values)
          /\ \A k \in 1..Len(mappings) : mappings[k].column \in DOMAIN mapped
          /\ \A k \in 1..Len(mappings) :
               (\A j \in 1..Len(mappings) : mappings[j].column = mappings[k].column => j = k)
                 => mapped[mappings[k].column] = Resolve(rows[r], mappings[k].path)
      BY <1>1, <2>1, MappedRecord
    <2>. HIDE DEF mapped
    <2>3. /\ mapped = [c \in DOMAIN mapped |-> mapped[c]]
          /\ \A c \in DOMAIN mapped : IsResult(mapped[c])
      <3>1. PICK C \in SUBSET STRING : mapped \in [C -> Values]
        BY <2>2 DEF Records
      <3>. QED  BY <1>1, <3>1 DEF HoldsParts, IsResult
    <2>4. /\ DOMAIN result = DOMAIN mapped
          /\ \A c \in DOMAIN mapped : IsResult(result[c])
          /\ \A k \in 1..Len(mappings) :
               /\ mappings[k].column \in DOMAIN mapped
               /\ \A j \in 1..Len(mappings) : mappings[j].column = mappings[k].column => j = k
               => result[mappings[k].column] =
                    apply_transformation(mapped[mappings[k].column], mappings[k].rule)
      BY <1>1, <2>3, TransformedRecord
    <2>5. Transformed(document)[r] = result
      BY <1>4 DEF mapped
    <2>. HIDE DEF result
    <2>. QED  BY <2>2, <2>4, <2>5
  <1>. QED  BY <1>3, <1>4, <1>5 DEF rows, mappings

\* Nothing has happened to a document yet.
LEMMA DocumentInit0 == Init => DocumentInv
  BY OrchestratorAssumption DEF Init, MetadataInit, DocumentInit, DocumentInv, Untouched, FromDocument,
     InHand, Returned, ValuesTyped, Judged, PlaceTyped, Looking, NoResult, Stages

\* What changes neither the definition nor the document changes nothing.
LEMMA DocumentFrame ==
  ASSUME DocumentInv, UNCHANGED documentVars, UNCHANGED <<reading, definition>>
  PROVE  DocumentInv'
  <1>1. UNCHANGED <<stage, taken, payload, records, position, outcome, reading, definition>>
    BY DEF documentVars
  <1>2. FromDocument'
    BY <1>1 DEF DocumentInv, FromDocument, InHand, Returned, Kept, Transformed, Flattened
  <1>3. Judged'
    <2>1. Refused' = Refused
      BY <1>1 DEF Refused, ErrorsOf
    <2>2. \A r : (HintFor(r, ErrorsOf(r)))' = HintFor(r, ErrorsOf(r))
      BY <1>1, Zenon DEF HintFor, ErrorsOf
    <2>3. Returned' = Returned /\ Invalid' = Invalid
      BY <1>1 DEF Returned, Invalid
    <2>. QED  BY <1>1, <2>1, <2>2, <2>3 DEF DocumentInv, Judged
  <1>. QED  BY <1>1, <1>2, <1>3 DEF DocumentInv, Untouched, ValuesTyped, PlaceTyped, Looking

\* The definition is read before there is a document.
LEMMA DocumentBefore ==
  ASSUME LookupInv, DocumentInv, Maintain \/ ReadDefinition, UNCHANGED <<lookupVars, documentVars>>
  PROVE  DocumentInv'
  <1>1. reading # "ready"
    BY DEF Maintain, Register, Populate, Activate, Deprecate, Editing, Statements,
           ReadDefinition, ReadPipeline, ReadSchema, ReadMappings, ReadFlattenConfigs, ReadRules,
           ReadLookups, ReadSchemaDocument, Run
  <1>2. UNCHANGED <<stage, taken, payload, records, position, outcome>>
    BY DEF documentVars
  <1>3. stage = "between" /\ records = <<>> /\ outcome = NoResult
    BY <1>1 DEF LookupInv, Idle, DocumentInv, Untouched
  <1>. QED  BY <1>2, <1>3 DEF DocumentInv, Untouched, FromDocument, InHand, Returned, ValuesTyped,
                              Judged, PlaceTyped, Looking, NoResult

\* A document is rejected, extracted or stopped by an exception.
LEMMA DocumentTaken ==
  ASSUME DefinitionInv, TypesInv, DocumentInv, NEW document \in Documents,
         RejectDocument(document) \/ ExtractDocument(document)
  PROVE  DocumentInv'
  <1>1. /\ reading = "ready" /\ taken < MaxDocuments /\ taken' = taken + 1
        /\ payload' = document /\ position' = <<1, 1>>
        /\ UNCHANGED <<reading, definition>>
    BY DEF RejectDocument, ExtractDocument, Take, metadataVars
  <1>2. taken' \in 0..MaxDocuments
    BY <1>1, OrchestratorAssumption DEF DocumentInv, PlaceTyped
  <1>3. Looking' => position'[2] \in DOMAIN definition'.lookups
    BY <1>1, PositionTyped DEF Looking
  <1>4. Untouched'
    BY <1>1 DEF Untouched
  <1>5. CASE RejectDocument(document)
    <2>1. /\ stage' = "between" /\ records' = <<>>
          /\ outcome' = [NoResult EXCEPT !.status = "SCHEMA_INVALID"]
      BY <1>5 DEF RejectDocument, Take
    <2>. QED  BY <1>2, <1>3, <1>4, <2>1 DEF DocumentInv, FromDocument, InHand, Returned, ValuesTyped,
                                            Judged, PlaceTyped, Stages, NoResult
  <1>6. CASE ExtractDocument(document)
    <2>1. /\ records' = Transformed(document)
          /\ stage' \in {"stopped", "lookup"}
          /\ stage' = "lookup" => ~\E r \in DOMAIN records' : Raises(records'[r])
          /\ outcome'.valid = {} /\ outcome'.hints = <<>>
          /\ outcome'.status = IF stage' = "lookup" THEN "NONE" ELSE "RAISED"
      BY <1>6 DEF ExtractDocument, NoResult
    <2>2. ValuesTyped'
      <3>. SUFFICES ASSUME NEW r \in DOMAIN Transformed(document),
                           NEW c \in DOMAIN Transformed(document)[r]
                    PROVE  /\ IsResult(Transformed(document)[r][c])
                           /\ stage' # "stopped" => Transformed(document)[r][c] # Raised
        BY <2>1 DEF ValuesTyped
      <3>1. IsResult(Transformed(document)[r][c])
        BY TransformedTyped
      <3>. QED  BY <2>1, <3>1 DEF Raises
    <2>3. FromDocument'
      <3>1. Transformed(payload)' = Transformed(document)
        BY <1>1 DEF Transformed, Flattened
      <3>2. records' = [r \in DOMAIN records' |-> records'[r]]
        BY <2>1 DEF Transformed
      <3>. QED  BY <1>1, <2>1, <3>1, <3>2 DEF FromDocument
    <2>. QED  BY <1>2, <1>3, <1>4, <2>1, <2>2, <2>3 DEF DocumentInv, Returned, Judged, PlaceTyped, Stages
  <1>. QED  BY <1>5, <1>6

\* A lookup's answer is a JSON value.
LEMMA FoundTyped ==
  ASSUME NEW v, TheLookup.name \in Tables, v \in DOMAIN Contents[TheLookup.name], Found(v) # Raised
  PROVE  IsResult(Found(v))
  <1>1. \A key \in DOMAIN Contents[TheLookup.name][v] :
          Contents[TheLookup.name][v][key].kind \in Kinds
    BY OrchestratorAssumption
  <1>2. Null.kind \in Kinds
    BY DEF Null, Kinds
  <1>. QED  BY <1>1, <1>2 DEF Found, IsResult

\* A lookup writes its own target in its own record only.
LEMMA DocumentEnriched ==
  ASSUME DefinitionInv, TypesInv, LookupInv, DocumentInv, stage \in {"lookup", "query"}, Looking,
         NEW v, v \in DOMAIN Contents[TheLookup.name], Enrich(v),
         UNCHANGED <<reading, definition, taken, payload>>
  PROVE  DocumentInv'
  <1>1. reading = "ready" /\ position[2] \in DOMAIN definition.lookups /\ InHand
    BY DEF LookupInv, Idle, DocumentInv, PlaceTyped, InHand
  <1>2. TheLookup.name \in Tables
    BY <1>1, LookupsTyped DEF TheLookup
  <1>3. CASE Found(v) = Raised
    <2>1. /\ stage' = "stopped" /\ UNCHANGED <<records, position>>
          /\ outcome' = [NoResult EXCEPT !.status = "RAISED"]
      BY <1>3 DEF Enrich
    <2>. QED  BY <1>1, <2>1 DEF DocumentInv, Untouched, FromDocument, InHand, Returned, ValuesTyped,
                                Judged, PlaceTyped, Looking, Stages, NoResult
  <1>4. CASE Found(v) # Raised
    <2>1. /\ stage' = "lookup" /\ position' = NextPosition /\ UNCHANGED outcome
          /\ records' = [records EXCEPT ![position[1]] =
                           Assigned(records[position[1]], TheLookup.target, Found(v))]
      BY <1>4 DEF Enrich
    <2>. DEFINE record(r) == IF r = position[1]
                             THEN Assigned(records[r], TheLookup.target, Found(v)) ELSE records[r]
    <2>2. DOMAIN records' = DOMAIN records /\ \A r \in DOMAIN records : records'[r] = record(r)
      BY <2>1 DEF Looking
    <2>3. IsResult(Found(v))
      BY <1>2, <1>4, FoundTyped
    <2>4. Untouched'
      BY <1>1 DEF Untouched
    <2>5. PlaceTyped'
      <3>1. Looking' => position'[2] \in DOMAIN definition'.lookups
        BY <1>1, <2>1, PositionTyped DEF Looking
      <3>. QED  BY <2>1, <3>1 DEF DocumentInv, PlaceTyped, Stages
    <2>6. Judged'
      BY <2>1 DEF DocumentInv, Judged, PlaceTyped, Returned
    <2>7. ASSUME NEW r \in DOMAIN records, NEW c \in DOMAIN record(r)
          PROVE  IsResult(record(r)[c]) /\ record(r)[c] # Raised
      <3>1. \A d \in DOMAIN records[r] : IsResult(records[r][d]) /\ records[r][d] # Raised
        BY DEF DocumentInv, ValuesTyped
      <3>. QED  BY <1>4, <2>3, <2>7, <3>1 DEF Assigned
    <2>8. ASSUME NEW r \in DOMAIN records, NEW c \in DOMAIN records[r], Kept(c)
          PROVE  c \in DOMAIN record(r) /\ record(r)[c] = records[r][c]
      <3>1. c # TheLookup.target
        BY <1>1, <2>8 DEF Kept, TheLookup
      <3>. QED  BY <3>1 DEF Assigned
    <2>. HIDE DEF record
    <2>9. ValuesTyped'
      BY <2>2, <2>7 DEF ValuesTyped
    <2>10. FromDocument'
      <3>1. Transformed(payload)' = Transformed(payload) /\ \A c : Kept(c)' = Kept(c)
        BY DEF Transformed, Flattened, Kept
      <3>2. /\ payload \in Documents
            /\ DOMAIN records = DOMAIN Transformed(payload)
            /\ \A r \in DOMAIN records : \A c \in DOMAIN Transformed(payload)[r] :
                 Kept(c) => c \in DOMAIN records[r] /\ records[r][c] = Transformed(payload)[r][c]
        BY <1>1 DEF DocumentInv, FromDocument
      <3>3. \A r \in DOMAIN records : \A c \in DOMAIN Transformed(payload)[r] :
              Kept(c) => c \in DOMAIN record(r) /\ record(r)[c] = Transformed(payload)[r][c]
        BY <2>8, <3>2
      <3>4. records' = [r \in DOMAIN records' |-> records'[r]]
        BY <2>1
      <3>. QED  BY <1>1, <2>2, <3>1, <3>2, <3>3, <3>4 DEF FromDocument
    <2>. QED  BY <2>4, <2>5, <2>6, <2>9, <2>10 DEF DocumentInv
  <1>. QED  BY <1>3, <1>4

\* A lookup is passed over, or its query is under way.
LEMMA DocumentWaits ==
  ASSUME DefinitionInv, LookupInv, DocumentInv, SkipLookup \/ BeginQuery \/ RunQuery
  PROVE  DocumentInv'
  <1>1. CASE RunQuery
    BY <1>1, DocumentFrame DEF RunQuery, metadataVars
  <1>2. CASE SkipLookup \/ BeginQuery
    <2>1. /\ UNCHANGED <<reading, definition, taken, payload, records, outcome>>
          /\ stage = "lookup" /\ stage' \in {"lookup", "query"} /\ Looking
          /\ position' = position \/ position' = NextPosition
      BY <1>2 DEF SkipLookup, BeginQuery, metadataVars
    <2>2. reading = "ready" /\ position[2] \in DOMAIN definition.lookups /\ InHand
      BY <2>1 DEF LookupInv, Idle, DocumentInv, PlaceTyped, InHand
    <2>3. Looking' => position'[2] \in DOMAIN definition'.lookups
      BY <2>1, <2>2, PositionTyped DEF Looking
    <2>4. FromDocument'
      BY <2>1, <2>2 DEF DocumentInv, FromDocument, InHand, Returned, Kept, Transformed, Flattened
    <2>. QED  BY <2>1, <2>2, <2>3, <2>4 DEF DocumentInv, Untouched, ValuesTyped, Judged, Returned,
                                            PlaceTyped, Stages
  <1>. QED  BY <1>1, <1>2

\* The records are judged and given back.
LEMMA DocumentJudged ==
  ASSUME LookupInv, DocumentInv, ValidateDocument
  PROVE  DocumentInv'
  <1>1. /\ UNCHANGED <<reading, definition, taken, payload, records, position>>
        /\ stage = "lookup" /\ stage' = "between"
    BY DEF Validate, ValidateDocument, metadataVars
  <1>2. /\ outcome'.status \in {"OK", "PARTIAL"}
        /\ outcome'.valid = DOMAIN records \ Refused
        /\ outcome'.hints = [r \in Refused |-> HintFor(r, ErrorsOf(r))]
    BY DEF ValidateDocument, Refused
  <1>3. reading = "ready" /\ InHand /\ Returned'
    BY <1>1, <1>2 DEF LookupInv, Idle, InHand, Returned
  <1>4. FromDocument'
    BY <1>1, <1>3 DEF DocumentInv, FromDocument, Kept, Transformed, Flattened
  <1>5. Judged'
    <2>1. Refused' = Refused
      BY <1>1 DEF Refused, ErrorsOf
    <2>2. \A r : (HintFor(r, ErrorsOf(r)))' = HintFor(r, ErrorsOf(r))
      BY <1>1, Zenon DEF HintFor, ErrorsOf
    <2>3. /\ Invalid' = Refused
          /\ \A r \in Refused : outcome'.hints[r] = HintFor(r, ErrorsOf(r))
      BY <1>2 DEF Invalid
    <2>. QED  BY <1>1, <1>2, <1>3, <2>1, <2>2, <2>3 DEF Judged
  <1>. QED  BY <1>1, <1>2, <1>3, <1>4, <1>5 DEF DocumentInv, Untouched, ValuesTyped, PlaceTyped,
                                                Looking, Stages

\* The validation of a record raises.
LEMMA DocumentUnjudged ==
  ASSUME LookupInv, DocumentInv, FailValidation
  PROVE  DocumentInv'
  <1>1. /\ UNCHANGED <<reading, definition, taken, payload, records, position>>
        /\ stage = "lookup" /\ stage' = "stopped" /\ reading = "ready"
        /\ outcome' = [NoResult EXCEPT !.status = "RAISED"]
    BY DEF Validate, FailValidation, metadataVars, LookupInv, Idle
  <1>. QED  BY <1>1 DEF DocumentInv, Untouched, FromDocument, InHand, Returned, ValuesTyped,
                        Judged, PlaceTyped, Looking, Stages, NoResult

\* A version that was installed has a content.
LEMMA SinceInContents ==
  ASSUME LookupTypeOK, NEW t \in Tables, NEW v \in DOMAIN since[t]
  PROVE  v \in DOMAIN Contents[t]
  <1>1. since[t] \in Seq(0..clock) /\ Len(since[t]) \in DOMAIN Contents[t]
    BY DEF LookupTypeOK
  <1>2. DOMAIN Contents[t] = 1..Len(Contents[t]) /\ Len(Contents[t]) \in Nat
    BY LookupAssumption DEF Tables
  <1>3. DOMAIN since[t] = 1..Len(since[t])
    BY <1>1
  <1>. QED  BY <1>1, <1>2, <1>3

\* Every step keeps what the records are.
LEMMA DocumentStep ==
  DefinitionInv /\ LookupInv /\ TypesInv /\ DocumentInv /\ [Next]_vars => DocumentInv'
  <1>. SUFFICES ASSUME DefinitionInv, LookupInv, TypesInv, DocumentInv, [Next]_vars
                PROVE  DocumentInv'
    OBVIOUS
  <1>1. CASE UNCHANGED vars
    BY <1>1, DocumentFrame DEF vars, metadataVars
  <1>2. CASE UseCached
    <2>. DEFINE v == cache[TheLookup.name].version
    <2>1. /\ stage = "lookup" /\ Looking /\ IsFresh(TheLookup) /\ Enrich(v)
          /\ UNCHANGED <<reading, definition, taken, payload>>
      BY <1>2 DEF UseCached, HitCache, metadataVars
    <2>2. TheLookup.name \in Tables
      BY <2>1, LookupsTyped DEF LookupInv, Idle, Placed, TheLookup
    <2>3. v \in DOMAIN since[TheLookup.name]
      BY <2>1, <2>2 DEF IsFresh, LookupInv, CacheSeen, Seen, VersionsAfter
    <2>4. v \in DOMAIN Contents[TheLookup.name]
      BY <2>2, <2>3, SinceInContents DEF TypesInv
    <2>. HIDE DEF v
    <2>. QED  BY <2>1, <2>4, DocumentEnriched
  <1>3. CASE EndQuery
    <2>1. /\ stage = "query" /\ answer # 0 /\ Enrich(answer)
          /\ UNCHANGED <<reading, definition, taken, payload>>
      BY <1>3 DEF EndQuery, StoreTable, metadataVars
    <2>2. Looking /\ Seen(TheLookup.name, answer, asked)
      BY <2>1 DEF LookupInv, QueryState
    <2>3. TheLookup.name \in Tables
      BY <2>1, <2>2, LookupsTyped DEF LookupInv, Idle, Placed, TheLookup
    <2>4. answer \in DOMAIN Contents[TheLookup.name]
      BY <2>2, <2>3, SinceInContents DEF TypesInv, Seen, VersionsAfter
    <2>. QED  BY <2>1, <2>2, <2>4, DocumentEnriched
  <1>4. CASE \E document \in Documents : RejectDocument(document) \/ ExtractDocument(document)
    BY <1>4, DocumentTaken
  <1>5. CASE SkipLookup \/ BeginQuery \/ RunQuery
    BY <1>5, DocumentWaits
  <1>6. CASE ValidateDocument \/ FailValidation
    BY <1>6, DocumentJudged, DocumentUnjudged
  <1>7. CASE (Maintain \/ ReadDefinition) /\ UNCHANGED <<lookupVars, documentVars>>
    BY <1>7, DocumentBefore
  <1>8. CASE TableChanges /\ reading = "ready" /\ UNCHANGED <<metadataVars, documentVars>>
    BY <1>8, DocumentFrame DEF metadataVars
  <1>. QED  BY <1>1, <1>2, <1>3, <1>4, <1>5, <1>6, <1>7, <1>8 DEF Next, Process

-----------------------------------------------------------------------------
(* What is promised of each document                                       *)

\* ValueAt is where a walk ends.
LEMMA ValueAtWalk ==
  ASSUME NEW document \in Values, NEW path \in Seq(STRING), NEW i
  PROVE  \E w : IsWalk(w, document, path, i) /\ ValueAt(document, path, i) = w[Len(path)]
  <1>. DEFINE n    == Len(path)
              D    == Values
              step == [k \in 1..n |-> [d \in D |-> StepInto(d, path[k], i)]]
              Fits(g) == g = [k \in 0..n |-> IF k = 0 THEN document
                                             ELSE StepInto(g[k - 1], path[k], i)]
              walk == CHOOSE g : Fits(g)
  <1>1. n \in Nat /\ HoldsParts(D) /\ Null \in D /\ document \in D
    BY OrchestratorAssumption
  <1>2. step \in [1..n -> [D -> D]]
    BY <1>1, StepTyped
  <1>. HIDE DEF D
  <1>3. PICK g \in [0..n -> D] : IsIteration(g, n, document, step)
    <2>. HIDE DEF n, step
    <2>. QED  BY <1>1, <1>2, IterationExists
  <1>4. Fits(g)
    <2>1. g[0] = document /\ 0 \in 0..n
      BY <1>1, <1>3 DEF IsIteration
    <2>2. ASSUME NEW k \in 0..n, k # 0 PROVE g[k] = StepInto(g[k - 1], path[k], i)
      <3>1. k \in 1..n /\ k - 1 \in 0..n
        BY <1>1, <2>2
      <3>. QED  BY <1>3, <3>1 DEF IsIteration
    <2>3. \A k \in 0..n : g[k] = IF k = 0 THEN document ELSE StepInto(g[k - 1], path[k], i)
      BY <2>1, <2>2
    <2>. QED  BY <2>3
  <1>5. Fits(walk)
    <2>. HIDE DEF Fits
    <2>. QED  BY <1>4
  <1>6. ValueAt(document, path, i) = walk[n]
    BY DEF ValueAt, StepInto
  <1>. HIDE DEF walk
  <1>7. IsWalk(walk, document, path, i)
    <2>1. \A k \in 1..n : k \in 0..n /\ k # 0
      BY <1>1
    <2>2. 0 \in 0..n
      BY <1>1
    <2>. QED  BY <1>5, <2>1, <2>2 DEF IsWalk
  <1>. QED  BY <1>6, <1>7

\* With at most one array, the rows are its elements.
LEMMA RowsOfGrain ==
  ASSUME TypesInv, Len(definition.flatten_configs) <= 1, NEW document \in Documents
  PROVE  Flattened(document) =
           IF definition.flatten_configs = <<>> THEN <<[root |-> document, children |-> <<>>]>>
           ELSE LET elements == ElementsAt(document, definition.flatten_configs[1].path)
                IN [e \in DOMAIN elements |-> [root |-> document, children |-> <<elements[e]>>]]
  <1>1. /\ HoldsParts(Values) /\ Null \in Values /\ document \in Values
        /\ definition.flatten_configs \in Seq([path : Seq(STRING)])
    BY OrchestratorAssumption DEF TypesInv, DefinitionTyped
  <1>. QED  BY <1>1, FlattenRecordsOnce DEF Flattened

\* A path with one [*] below an array's path has its [*] where that one ends.
LEMMA OnlyStar ==
  ASSUME NEW path \in Seq(STRING), NEW array \in Seq(STRING), array # <<>>,
         array[Len(array)] = "*", IsStrictPrefix(array, path), Steps(path, "*") = 1
  PROVE  LET p == Len(array)
         IN /\ p \in 1..Len(path)-1
            /\ \A k \in 1..p : array[k] = path[k]
            /\ \A k \in 1..Len(path) : path[k] = "*" <=> k = p
  <1>. DEFINE p     == Len(array)
              n     == Len(path)
              stars == {k \in DOMAIN path : path[k] = "*"}
  <1>1. p \in Nat \ {0} /\ n \in Nat /\ p <= n /\ SubSeq(array, 1, p) = SubSeq(path, 1, p)
    BY DEF IsStrictPrefix, IsPrefix
  <1>2. /\ SubSeq(array, 1, p) = array
        /\ \A k \in 1..p : SubSeq(path, 1, p)[k] = path[k]
    <2>1. SubSeq(array, 1, p) = array
      BY SubSeqFull
    <2>2. 1 \in 1..Len(path)+1 /\ p \in (1-1)..Len(path)
      BY <1>1
    <2>3. \A k \in 1..(p-1+1) : SubSeq(path, 1, p)[k] = path[k + 1 - 1]
      <3>. HIDE DEF p
      <3>. QED  BY <2>2, PathPart
    <2>4. p - 1 + 1 = p /\ \A k \in 1..p : k + 1 - 1 = k
      BY <1>1
    <2>. QED  BY <2>1, <2>3, <2>4
  <1>3. \A k \in 1..p : array[k] = path[k]
    BY <1>1, <1>2
  <1>4. p # n
    <2>. SUFFICES ASSUME p = n PROVE FALSE
      OBVIOUS
    <2>1. array = path
      BY <1>1, <1>2, SubSeqFull
    <2>. QED  BY <2>1 DEF IsStrictPrefix
  <1>5. \E x : stars = {x}
    <2>1. IsFiniteSet(1..n)
      BY <1>1, FS_Interval
    <2>2. stars \in SUBSET (1..n)
      OBVIOUS
    <2>3. IsFiniteSet(stars)
      BY <2>1, <2>2, FS_Subset
    <2>4. Cardinality(stars) = 1
      BY DEF Steps
    <2>. HIDE DEF stars
    <2>. QED  BY <2>3, <2>4, FS_Singleton
  <1>6. p \in stars
    <2>1. p \in 1..p /\ p \in DOMAIN path
      BY <1>1
    <2>. QED  BY <1>3, <2>1
  <1>7. stars = {p}
    BY <1>5, <1>6
  <1>. HIDE DEF p
  <1>8. p \in 1..Len(path)-1
    BY <1>1, <1>4
  <1>. QED  BY <1>3, <1>7, <1>8 DEF p

\* In the row of an element, a mapping's path yields the value the document
\* has there.
LEMMA RowFollows ==
  ASSUME TypesInv, SingleGrain, NEW document \in Documents,
         NEW i \in DOMAIN Flattened(document), NEW m \in ToSet(definition.mappings)
  PROVE  Resolve(Flattened(document)[i], m.path) = ValueAt(document, m.path, i)
  <1>. DEFINE configs == definition.flatten_configs
              path    == m.path
  <1>1. /\ HoldsParts(Values) /\ Null \in Values /\ document \in Values
        /\ definition.mappings \in Seq(Mapping) /\ configs \in Seq([path : Seq(STRING)])
    BY OrchestratorAssumption DEF TypesInv, DefinitionTyped
  <1>2. path \in Seq(STRING)
    BY <1>1, MappingsTyped DEF ToSet
  <1>3. PICK w : IsWalk(w, document, path, i) /\ ValueAt(document, path, i) = w[Len(path)]
    BY <1>1, <1>2, ValueAtWalk
  <1>. HIDE DEF path
  <1>4. CASE ~Contains(path, "*")
    <2>1. \A k \in 1..Len(path) : path[k] # "*"
      BY <1>4 DEF Contains
    <2>2. \E children : Flattened(document)[i] = [root |-> document, children |-> children]
      <3>1. CASE configs = <<>>
        <4>1. Flattened(document) = <<[root |-> document, children |-> <<>>]>>
          BY <3>1, RowsOfGrain DEF SingleGrain
        <4>2. i = 1
          BY <4>1
        <4>3. Flattened(document)[i] = [root |-> document, children |-> <<>>]
          BY <4>1, <4>2
        <4>. WITNESS <<>>
        <4>. QED  BY <4>3
      <3>2. CASE configs # <<>>
        <4>. DEFINE elements == ElementsAt(document, configs[1].path)
        <4>1. Flattened(document) =
                [e \in DOMAIN elements |-> [root |-> document, children |-> <<elements[e]>>]]
          BY <3>2, RowsOfGrain DEF SingleGrain
        <4>. HIDE DEF elements
        <4>2. Flattened(document)[i] = [root |-> document, children |-> <<elements[i]>>]
          BY <4>1
        <4>. WITNESS <<elements[i]>>
        <4>. QED  BY <4>2
      <3>. QED  BY <3>1, <3>2
    <2>. QED  BY <1>1, <1>2, <1>3, <2>1, <2>2, ResolvePlain DEF path
  <1>5. CASE Contains(path, "*")
    <2>1. PICK c \in ToSet(configs) : IsStrictPrefix(c.path, path) /\ Steps(path, "*") = 1
      BY <1>5 DEF SingleGrain, path
    <2>2. Len(configs) \in Nat /\ DOMAIN configs = 1..Len(configs) /\ Len(configs) <= 1
      BY <1>1, ConfigsTyped DEF SingleGrain
    <2>3. c = configs[1] /\ configs # <<>> /\ 1 \in DOMAIN configs
      BY <2>1, <2>2 DEF ToSet
    <2>. DEFINE array    == configs[1].path
                elements == ElementsAt(document, array)
    <2>4. array \in Seq(STRING) /\ array # <<>> /\ array[Len(array)] = "*"
      BY <1>1, <2>1, <2>2, <2>3, ConfigsTyped DEF SingleGrain
    <2>5. Flattened(document) =
            [e \in DOMAIN elements |-> [root |-> document, children |-> <<elements[e]>>]]
      BY <2>3, RowsOfGrain DEF SingleGrain
    <2>6. i \in DOMAIN ElementsAt(document, array)
      <3>. HIDE DEF elements
      <3>1. i \in DOMAIN elements
        BY <2>5
      <3>. QED  BY <3>1 DEF elements
    <2>7. Flattened(document)[i] = [root |-> document, children |-> <<ElementsAt(document, array)[i]>>]
      BY <2>5, <2>6
    <2>8. IsStrictPrefix(array, path) /\ Steps(path, "*") = 1
      BY <2>1, <2>3
    <2>. HIDE DEF array, elements, configs
    <2>. DEFINE p == Len(array)
    <2>9. /\ p \in 1..Len(path)-1
          /\ \A k \in 1..p : array[k] = path[k]
          /\ \A k \in 1..Len(path) : path[k] = "*" <=> k = p
      BY <1>2, <2>4, <2>8, OnlyStar
    <2>10. Resolve([root |-> document, children |-> <<ElementsAt(document, array)[i]>>], path)
             = w[Len(path)]
      <3>1. array \in Seq(STRING) /\ Len(array) = p
        BY <2>4
      <3>. HIDE DEF p
      <3>. QED  BY <1>1, <1>2, <1>3, <2>6, <2>9, <3>1, ResolveThrough
    <2>. QED  BY <1>3, <2>7, <2>10 DEF path
  <1>. QED  BY <1>4, <1>5

\* What a returned record holds under a mapped column.
LEMMA RecordHolds ==
  ASSUME TypesInv, DocumentInv, Returned, SingleGrain,
         NEW i \in DOMAIN records, NEW k \in DOMAIN definition.mappings
  PROVE  records[i][definition.mappings[k].column] = Expected(payload, definition.mappings[k], i)
  <1>. DEFINE m == definition.mappings[k]
              n == Len(definition.mappings)
  <1>1. /\ payload \in Documents /\ DOMAIN records = DOMAIN Transformed(payload)
        /\ \A c \in DOMAIN Transformed(payload)[i] :
             Kept(c) => records[i][c] = Transformed(payload)[i][c]
    BY DEF DocumentInv, FromDocument, InHand
  <1>2. DOMAIN definition.mappings = 1..n /\ k \in 1..n /\ m \in ToSet(definition.mappings)
    BY MappingsTyped DEF TypesInv, DefinitionTyped, ToSet
  <1>3. Kept(m.column)
    BY <1>2 DEF SingleGrain, Kept, ToSet
  <1>4. \A j \in 1..n : definition.mappings[j].column = m.column => j = k
    BY <1>2 DEF SingleGrain
  <1>5. i \in DOMAIN Transformed(payload) /\ i \in DOMAIN Flattened(payload)
    BY <1>1, TransformedTyped
  <1>6. /\ m.column \in DOMAIN Transformed(payload)[i]
        /\ Transformed(payload)[i][m.column] =
             apply_transformation(Resolve(Flattened(payload)[i], m.path), m.rule)
    BY <1>1, <1>2, <1>4, <1>5, TransformedTyped
  <1>7. Resolve(Flattened(payload)[i], m.path) = ValueAt(payload, m.path, i)
    BY <1>1, <1>2, <1>5, RowFollows
  <1>. QED  BY <1>1, <1>3, <1>6, <1>7 DEF Expected

\* As many records as elements, and one where there is none.
LEMMA RecordsCounted ==
  ASSUME TypesInv, DocumentInv, Returned, SingleGrain
  PROVE  Len(records) =
           IF definition.flatten_configs = <<>> THEN 1
           ELSE LET n == Elements(payload, definition.flatten_configs[1].path)
                IN IF n = 0 THEN 1 ELSE n
  <1>. DEFINE configs == definition.flatten_configs
  <1>1. /\ payload \in Documents /\ DOMAIN records = DOMAIN Transformed(payload)
        /\ records = [r \in DOMAIN records |-> records[r]]
    BY DEF DocumentInv, FromDocument, InHand
  <1>2. /\ HoldsParts(Values) /\ Null \in Values /\ payload \in Values
        /\ configs \in Seq([path : Seq(STRING)])
    BY <1>1, OrchestratorAssumption DEF TypesInv, DefinitionTyped
  <1>3. DOMAIN records = DOMAIN Flattened(payload)
    BY <1>1, TransformedTyped
  <1>4. ASSUME NEW n \in Nat, DOMAIN records = 1..n PROVE Len(records) = n
    <2>. DEFINE S == {records[r] : r \in 1..n}
    <2>1. records \in [1..n -> S]
      BY <1>1, <1>4
    <2>. HIDE DEF S
    <2>. QED  BY <2>1
  <1>5. CASE configs = <<>>
    <2>1. Flattened(payload) = <<[root |-> payload, children |-> <<>>]>>
      BY <1>1, <1>5, RowsOfGrain DEF SingleGrain
    <2>2. DOMAIN records = 1..1
      BY <1>3, <2>1
    <2>. QED  BY <1>4, <1>5, <2>2
  <1>6. CASE configs # <<>>
    <2>. DEFINE array    == configs[1].path
                elements == ElementsAt(payload, array)
                found    == extract_all(payload, array)
    <2>1. Flattened(payload) =
            [e \in DOMAIN elements |-> [root |-> payload, children |-> <<elements[e]>>]]
      BY <1>1, <1>6, RowsOfGrain DEF SingleGrain
    <2>2. DOMAIN records = DOMAIN elements
      <3>. HIDE DEF elements
      <3>. QED  BY <1>3, <2>1
    <2>3. array \in Seq(STRING)
      <3>1. Len(configs) \in Nat /\ Len(configs) # 0
        BY <1>2, <1>6, ConfigsTyped
      <3>2. \A n \in Nat : n # 0 => 1 \in 1..n
        OBVIOUS
      <3>3. 1 \in 1..Len(configs)
        BY <3>1, <3>2, Zenon
      <3>. QED  BY <1>2, <3>3, ConfigsTyped
    <2>4. found \in Seq(Values)
      BY <1>2, <2>3, ExtractTyped
    <2>5. elements = IF found = <<>> THEN <<Null>> ELSE found
      BY DEF ElementsAt
    <2>6. Elements(payload, array) = Len(found)
      BY DEF Elements
    <2>. HIDE DEF found, elements, array, configs
    <2>7. CASE found = <<>>
      <3>1. DOMAIN records = 1..1 /\ Len(found) = 0
        BY <2>2, <2>5, <2>7
      <3>. QED  BY <1>4, <1>6, <2>6, <3>1 DEF configs, array
    <2>8. CASE found # <<>>
      <3>1. DOMAIN records = 1..Len(found) /\ Len(found) \in Nat /\ Len(found) # 0
        BY <2>2, <2>4, <2>5, <2>8
      <3>. QED  BY <1>4, <1>6, <2>6, <3>1 DEF configs, array
    <2>. QED  BY <2>7, <2>8
  <1>. QED  BY <1>5, <1>6

\* A record returned follows its element of the document.
LEMMA Follows == TypesInv /\ DocumentInv => RecordsFollowDocument
  <1>. SUFFICES ASSUME TypesInv, DocumentInv, Returned, SingleGrain,
                       NEW i \in DOMAIN records, NEW m \in ToSet(definition.mappings)
                PROVE  records[i][m.column] = Expected(payload, m, i)
    BY RecordsCounted DEF RecordsFollowDocument
  <1>1. PICK k \in DOMAIN definition.mappings : m = definition.mappings[k]
    BY DEF ToSet
  <1>. QED  BY <1>1, RecordHolds

\* A rule sees in the record what the document has at the rule's path.
LEMMA RuleSees ==
  ASSUME TypesInv, DocumentInv, Returned, SingleGrain,
         NEW i \in DOMAIN records, NEW path, NEW k \in FirstMappings(path)
  PROVE  ValueUnder(records[i], path, definition.mappings)
           = Expected(payload, definition.mappings[k], i)
  <1>1. /\ k \in DOMAIN definition.mappings /\ definition.mappings[k].path = path
        /\ \A j \in 1..k - 1 : definition.mappings[j].path # path
    BY DEF FirstMappings
  <1>2. definition.mappings \in Seq(Mapping) /\ k \in 1..Len(definition.mappings)
    BY <1>1, MappingsTyped DEF TypesInv, DefinitionTyped
  <1>3. ValueUnder(records[i], path, definition.mappings) = records[i][definition.mappings[k].column]
    BY <1>1, <1>2, ValueOfFirst
  <1>. QED  BY <1>1, <1>3, RecordHolds

\* Every mapped path has a first mapping.
LEMMA FirstExists ==
  ASSUME TypesInv, NEW path, \E m \in ToSet(definition.mappings) : m.path = path
  PROVE  FirstMappings(path) # {}
  <1>. DEFINE I == {i \in DOMAIN definition.mappings : definition.mappings[i].path = path}
  <1>1. DOMAIN definition.mappings = 1..Len(definition.mappings) /\ Len(definition.mappings) \in Nat
    BY MappingsTyped DEF TypesInv, DefinitionTyped
  <1>2. I # {} /\ I \subseteq Nat
    BY <1>1 DEF ToSet
  <1>3. PICK k \in I : \A j \in I : k <= j
    <2>. HIDE DEF I
    <2>. QED  BY <1>2, LeastIn
  <1>4. ASSUME NEW j \in 1..k - 1 PROVE definition.mappings[j].path # path
    <2>1. k \in 1..Len(definition.mappings)
      BY <1>1, <1>3
    <2>2. j \in 1..Len(definition.mappings) /\ ~(k <= j)
      BY <1>1, <2>1
    <2>. QED  BY <1>1, <1>3, <2>2
  <1>. QED  BY <1>3, <1>4 DEF FirstMappings

\* What breaks an ERROR rule in the document is what is refused.
LEMMA RefusedRight == TypesInv /\ DocumentInv => RefusedForAnError
  <1>. SUFFICES ASSUME TypesInv, DocumentInv, Returned, SingleGrain PROVE RefusedForAnError
    BY DEF RefusedForAnError
  <1>1. Invalid = Refused /\ outcome.valid = DOMAIN records \ Refused /\ Refused \subseteq DOMAIN records
    BY DEF DocumentInv, Judged, Refused
  <1>2. ASSUME NEW i \in DOMAIN records
        PROVE  i \in Refused <=>
                 \E rule \in definition.validation_rules : \E k \in FirstMappings(rule.path) :
                   /\ rule.severity = "ERROR"
                   /\ ~Passes(Expected(payload, definition.mappings[k], i), rule)
    <2>1. i \in Refused <=>
            \E rule \in definition.validation_rules :
              /\ rule.severity = "ERROR"
              /\ ~Passes(ValueUnder(records[i], rule.path, definition.mappings), rule)
      BY DEF Refused, ErrorsOf, Errors
    <2>2. ASSUME NEW rule \in definition.validation_rules
          PROVE  /\ FirstMappings(rule.path) # {}
                 /\ \A k \in FirstMappings(rule.path) :
                      ValueUnder(records[i], rule.path, definition.mappings)
                        = Expected(payload, definition.mappings[k], i)
      <3>1. \E m \in ToSet(definition.mappings) : m.path = rule.path
        BY DEF SingleGrain
      <3>. QED  BY <3>1, FirstExists, RuleSees
    <2>. QED  BY <2>1, <2>2
  <1>. QED  BY <1>1, <1>2 DEF RefusedForAnError

\* A document that is returned has records.
LEMMA SomeRecord == TypesInv /\ DocumentInv => NeverWithoutRecord
  <1>. SUFFICES ASSUME TypesInv, DocumentInv, Returned PROVE outcome.valid \cup Invalid # {}
    BY DEF NeverWithoutRecord
  <1>1. outcome.valid \cup Invalid = DOMAIN records
    BY DEF DocumentInv, Judged, Refused
  <1>2. DOMAIN records # {}
    BY TransformedTyped DEF DocumentInv, FromDocument, InHand
  <1>. QED  BY <1>1, <1>2

\* The joined messages are classified by the first keyword of the map.
LEMMA DataErrorsKept == DocumentInv => DataErrorNotRetried
  <1>. SUFFICES ASSUME DocumentInv, Returned, NEW i \in Invalid, NEW rule \in ErrorsOf(i),
                       HintFor(i, {rule}) \in {"SCHEMA", "VALIDATION"}
                PROVE  outcome.hints[i] \notin {"TRANSFORMATION", "LOOKUP", "LOAD"}
    BY DEF DataErrorNotRetried
  <1>. DEFINE Mentions(rules) ==
                UNION {MessageMentions(records[i], r, definition.mappings) : r \in rules}
  <1>1. outcome.hints[i] = HintFor(i, ErrorsOf(i))
    BY DEF DocumentInv, Judged
  <1>2. Mentions({rule}) \subseteq Mentions(ErrorsOf(i))
    OBVIOUS
  <1>3. /\ HintFor(i, {rule}) = classify_heuristic(Mentions({rule}))
        /\ HintFor(i, ErrorsOf(i)) = classify_heuristic(Mentions(ErrorsOf(i)))
    BY DEF HintFor
  <1>. HIDE DEF Mentions
  <1>4. classify_heuristic(Mentions(ErrorsOf(i))) \in {"SCHEMA", "VALIDATION"}
    BY <1>2, <1>3, DataErrorsFirst
  <1>. QED  BY <1>1, <1>3, <1>4

\* The type invariant is a part of what is proved inductive.
LEMMA TypesHold == TypesInv /\ DocumentInv => TypeOK
  <1>. SUFFICES ASSUME TypesInv, DocumentInv PROVE TypeOK
    OBVIOUS
  <1>1. outcome.valid \cup Invalid \subseteq DOMAIN records
    BY DEF DocumentInv, Judged, Refused, Invalid
  <1>2. \A r \in DOMAIN records : \A column \in DOMAIN records[r] :
          records[r][column].kind \in Kinds \cup (IF stage = "stopped" THEN {"raised"} ELSE {})
    BY DEF DocumentInv, ValuesTyped, IsResult, Raised
  <1>. QED  BY <1>1, <1>2 DEF TypesInv, DocumentInv, PlaceTyped, TypeOK

\* The four invariants, which are inductive together.
OrchestratorInv == DefinitionInv /\ LookupInv /\ TypesInv /\ DocumentInv

\* They hold from the start and in every step.
LEMMA OrchestratorSafe == Spec => []OrchestratorInv
  <1>1. Init => OrchestratorInv
    BY DefinitionInit, LookupInit0, TypesInit, DocumentInit0 DEF OrchestratorInv
  <1>2. OrchestratorInv /\ [Next]_vars => OrchestratorInv'
    BY DefinitionStep, LookupStep, TypesStep, DocumentStep DEF OrchestratorInv
  <1>. QED  BY <1>1, <1>2, PTL DEF Spec

\* The variables keep to the values the code can give them; an exception is
\* in a record only when the process has stopped.
THEOREM Typed == Spec => []TypeOK
  BY OrchestratorSafe, TypesHold, PTL DEF OrchestratorInv

\* Whatever the document, a record holds under every mapped column the value
\* that its own element of the document has at the mapping's path.
THEOREM RecordsRight == Spec => []RecordsFollowDocument
  BY OrchestratorSafe, Follows, PTL DEF OrchestratorInv

\* A record is refused exactly when its element breaks a rule of severity
\* ERROR, and is delivered otherwise.
THEOREM RefusalsRight == Spec => []RefusedForAnError
  BY OrchestratorSafe, RefusedRight, PTL DEF OrchestratorInv

\* A document that is not rejected as a whole yields a record.
THEOREM AlwaysARecord == Spec => []NeverWithoutRecord
  BY OrchestratorSafe, SomeRecord, PTL DEF OrchestratorInv

\* A message about the data keeps its record out of the healing queue,
\* whatever messages it is joined with.
THEOREM DataErrorsStay == Spec => []DataErrorNotRetried
  BY OrchestratorSafe, DataErrorsKept, PTL DEF OrchestratorInv

=============================================================================

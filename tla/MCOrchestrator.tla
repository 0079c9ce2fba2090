--------------------------- MODULE MCOrchestrator ---------------------------
(***************************************************************************)
(* Small instances of Orchestrator, after the seeded plasma etch pipeline. *)
(* Version 1 keeps one record per lot; version 2, published while somebody *)
(* reads, explodes the wafers of a lot; Nested adds the defects of a wafer *)
(* as a second array.  The documents hold what the engines tell apart: a   *)
(* first wafer without an id, a null wafer, an empty array and a single    *)
(* wafer in its place, a value out of range, one that only breaks a        *)
(* warning and one too large for a float, a temperature that is a text, an *)
(* id that is no instant, a key the reference table misses and one that    *)
(* cannot be hashed.  Unlike the seed's, the schema of version 2 leaves    *)
(* the kind of the wafers open.                                            *)
(***************************************************************************)
EXTENDS Orchestrator

text(w, mentions) == [Word(w) EXCEPT !.mentions = mentions]

mapping(path, column, rule) == [path |-> path, column |-> column, rule |-> rule]

rule(path, type, expression, severity, mentions) ==
  [path |-> path, type |-> type, expression |-> expression, severity |-> severity,
   mentions |-> mentions, active |-> TRUE]

lotId       == <<"lot", "id">>
toolId      == <<"equipment", "toolId">>
recipeId    == <<"equipment", "recipeId">>
wafers      == <<"lot", "wafers", "*">>
waferId     == <<"lot", "wafers", "*", "id">>
pressure    == <<"lot", "wafers", "*", "range">>
temperature == <<"lot", "wafers", "*", "temp">>
defects     == <<"lot", "wafers", "*", "defects", "*">>
defectCode  == <<"lot", "wafers", "*", "defects", "*", "code">>

plain == [form |-> "other"]

plasmaEtch ==
  [ mappings |-> << mapping(lotId, "lot_id", "NORMALIZE_STRING"),
                    mapping(toolId, "tool_id", ""),
                    mapping(waferId, "wafer_id", ""),
                    mapping(pressure, "range_mean", "PASSTHROUGH"),
                    mapping(temperature, "temp", "CELSIUS_TO_FAHRENHEIT") >>,
    flatten_configs |-> << [path |-> wafers] >>,
    validation_rules |->
      { rule(waferId, "NOT_NULL", plain, "ERROR", {}),
        rule(pressure, "RANGE", [form |-> "range", low |-> 0, high |-> 50], "ERROR", {"range"}),
        rule(temperature, "RANGE", [form |-> "range", low |-> 0, high |-> 100], "WARNING", {}),
        rule(temperature, "RANGE", plain, "ERROR", {}),
        rule(toolId, "ENUM", [form |-> "enum", allowed |-> {"TOOL1", "TOOL2"}], "ERROR", {"lookup"}) },
    json_schema |->
      [ required   |-> { [path |-> lotId, kind |-> "text"] },
        properties |-> {"lot", "equipment"} ] ]

lotLevel ==
  [ mappings |-> << mapping(recipeId, "recipe_id", ""), mapping(lotId, "started", "EPOCH_TO_ISO8601") >>,
    flatten_configs |-> <<>>,
    validation_rules |->
      { rule(recipeId, "NOT_NULL", plain, "ERROR", {"constraint"}),
        [rule(lotId, "NOT_NULL", plain, "ERROR", {}) EXCEPT !.active = FALSE] },
    json_schema |->
      [ required |-> {[path |-> lotId, kind |-> "number"]}, properties |-> {"lot"} ] ]

nested ==
  [ plasmaEtch EXCEPT
      !.mappings        = << mapping(waferId, "wafer_id", ""), mapping(defectCode, "code", "") >>,
      !.flatten_configs = << [path |-> wafers], [path |-> defects] >> ]

LaterVersions == <<1, 2>>
OneVersion    == <<1>>
TwoVersions   == <<lotLevel, plasmaEtch>>
NestedVersion == <<nested>>

equipment == [name |-> "Equipment", source |-> "tool_id", target |-> "tool_name", ttl |-> 2]
recipe    == [name |-> "Recipe", source |-> "recipe_id", target |-> "recipe_name", ttl |-> 1]

BothLookups == {equipment, recipe}

tool1 == text("TOOL1", {})
tool3 == text("TOOL3", {"lookup"})

ReferenceTables ==
  [ Equipment |-> << (tool1 :> Word("Etcher")),
                     (tool1 :> Word("Etcher B")) @@ (tool3 :> Word("Spare")) >>,
    Recipe    |-> << (Number(7) :> Word("Oxide")), (Number(7) :> Word("Nitride")) >> ]

wafer(id, range, temp) ==
  Object([id |-> id, range |-> range, temp |-> temp])

lotOf(id, waferValue, tool, recipeOf) ==
  Object([ lot       |-> Object([id |-> id, wafers |-> waferValue]),
           equipment |-> Object([toolId |-> tool, recipeId |-> recipeOf]) ])

lot(id, items, tool, recipeOf) == lotOf(id, Array(items), tool, recipeOf)

good     == wafer(Word("W1"), Number(5), Number(20))
hot      == wafer(Word("W2"), Number(5), Number(90))
wild     == wafer(Word("W3"), Number(55), Number(20))
textTemp == wafer(Word("W4"), Number(5), Word("20C"))
huge     == wafer(Word("W5"), Number(1005), Number(20))
nameless == Object([range |-> Number(10), temp |-> Null])

WaferDocuments ==
  { lot(Word("L1"), <<nameless, hot>>, tool1, Number(7)),
    lot(Word("L2"), <<wild, hot>>, tool3, Number(7)),
    lot(Word("L3"), <<Null>>, tool1, Null),
    lot(Word("L4"), <<>>, tool1, Number(7)),
    lot(Word("L5"), <<good, textTemp>>, tool1, Number(7)),
    lot(Word("L6"), <<good>>, Array(<<tool1>>), Number(7)),
    lotOf(Word("L7"), hot, tool1, Number(7)),
    lot(Word("L8"), <<good, huge>>, tool1, Number(7)),
    lot(Number(10), <<good>>, tool1, Number(7)),
    lot(Number(500), <<good>>, tool1, Number(7)) }

withDefects(id, codes) ==
  Object([id |-> id, defects |-> Array([c \in DOMAIN codes |-> Object([code |-> Word(codes[c])])])])

DefectDocuments ==
  { lot(Word("L1"), <<withDefects(Word("W1"), <<"scratch", "pit">>),
                      withDefects(Word("W2"), <<"void">>)>>, tool1, Number(7)) }

\* The bounds of the numbers: an instant is below 500, a float at most 1000.
FloatRange   == -1000..1000
InstantRange == -100..400

-----------------------------------------------------------------------------
(* The values that occur in the documents                                  *)

RECURSIVE Parts(_)
Parts(value) ==
  {value} \cup
    CASE value.kind = "object" -> UNION {Parts(value.fields[f]) : f \in DOMAIN value.fields}
      [] value.kind = "array"  -> UNION {Parts(value.items[i]) : i \in DOMAIN value.items}
      [] OTHER                 -> {}

JSONValues == {Null} \cup UNION {Parts(d) : d \in WaferDocuments \cup DefectDocuments}

=============================================================================

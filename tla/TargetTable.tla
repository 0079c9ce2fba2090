----------------------------- MODULE TargetTable -----------------------------
(***************************************************************************)
(* What LoadEngine promises of a target table: a load takes effect at one  *)
(* moment and as a whole.  APPEND adds a row for each record; the other    *)
(* types leave the last record of each key of the batch in force, in place *)
(* of what was in force before.  Only an SCD2 load may leave something     *)
(* beside it: what loads that were open at the same time have put there.   *)
(***************************************************************************)
EXTENDS Naturals, Sequences

CONSTANTS Loads, Batch

VARIABLES
  mode,     \* the load type of the table
  state,    \* of each load: "waiting", "open", "applied" or "dropped"
  met,      \* <<l, m>>: the loads l and m were open at the same time
  inForce   \* the rows in force, as <<load, index of the record>>

table == <<mode, state, met, inForce>>

KeyOf(row) == Batch[row[1]][row[2]]
Records(l) == {l} \X (DOMAIN Batch[l])
KeysOf(l)  == {KeyOf(row) : row \in Records(l)}

LastOf(l) ==
  {row \in Records(l) : \A later \in Records(l) :
     KeyOf(later) = KeyOf(row) => later[2] <= row[2]}

Init ==
  /\ mode \in {"APPEND", "UPSERT", "SCD2"}
  /\ state = [l \in Loads |-> "waiting"]
  /\ met = {}
  /\ inForce = {}

Open(l) ==
  /\ state[l] = "waiting"
  /\ state' = [state EXCEPT ![l] = "open"]
  /\ met' = met \cup UNION {{<<l, m>>, <<m, l>>} : m \in {n \in Loads : state[n] = "open"}}
  /\ UNCHANGED <<mode, inForce>>

Drop(l) ==
  /\ state[l] \in {"waiting", "open"}
  /\ state' = [state EXCEPT ![l] = "dropped"]
  /\ UNCHANGED <<mode, met, inForce>>

\* The rows in force that a load of the table's type must, and may, replace.
Replaceable(l) ==
  IF mode = "APPEND" THEN {} ELSE {row \in inForce : KeyOf(row) \in KeysOf(l)}

Replaced(l) ==
  IF mode = "SCD2" THEN {row \in Replaceable(l) : <<l, row[1]>> \notin met}
                   ELSE Replaceable(l)

Added(l) == IF mode = "APPEND" THEN Records(l) ELSE LastOf(l)

Apply(l) ==
  /\ state[l] = "open"
  /\ state' = [state EXCEPT ![l] = "applied"]
  /\ inForce' \subseteq inForce \cup Added(l)
  /\ Added(l) \subseteq inForce'
  /\ inForce \ Replaceable(l) \subseteq inForce'
  /\ inForce' \cap Replaced(l) = {}
  /\ UNCHANGED <<mode, met>>

Next == \E l \in Loads : Open(l) \/ Drop(l) \/ Apply(l)

Spec == Init /\ [][Next]_table

=============================================================================

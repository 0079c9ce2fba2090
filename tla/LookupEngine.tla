---------------------------- MODULE LookupEngine ----------------------------
(***************************************************************************)
(* The per-process TTL cache of reference tables (LookupEngine), against   *)
(* tables that others change.  A table's history is the sequence of its    *)
(* versions; the content of version k of table t is Contents[t][k].        *)
(*                                                                         *)
(* _get_cached_table reads the clock, tests the cache entry and, when it   *)
(* has expired, queries the table: the clock is read before the query runs *)
(* and the entry is stored after its rows have arrived, and time passes    *)
(* and the table may change in between.                                    *)
(***************************************************************************)
EXTENDS Integers, Sequences

CONSTANTS
  Contents,  \* table -> sequence of its versions, each a function from keys
  MaxTime    \* bound: the last tick of the clock

ASSUME LookupAssumption ==
  /\ \A t \in DOMAIN Contents : /\ Len(Contents[t]) \in Nat \ {0}
                                /\ DOMAIN Contents[t] = 1..Len(Contents[t])
  /\ MaxTime \in Nat

VARIABLES
  clock,    \* time.monotonic()
  since,    \* table -> when each of its versions was installed
  cache,    \* _cache: table -> the time stamp and the version loaded
  asked,    \* the local `now` of the _get_cached_table under way
  answer    \* the version its query has seen, 0 before

lookupVars == <<clock, since, cache, asked, answer>>

Tables  == DOMAIN Contents
NoEntry == [stamp |-> 0, version |-> 0]

LookupInit ==
  /\ clock = 0
  /\ since = [t \in Tables |-> <<0>>]
  /\ cache = [t \in Tables |-> NoEntry]
  /\ asked = 0
  /\ answer = 0

Tick ==
  /\ clock < MaxTime
  /\ clock' = clock + 1
  /\ UNCHANGED <<since, cache, asked, answer>>

\* Somebody replaces the content of a reference table.
UpdateTable(t) ==
  /\ Len(since[t]) < Len(Contents[t])
  /\ since' = [since EXCEPT ![t] = Append(@, clock)]
  /\ UNCHANGED <<clock, cache, asked, answer>>

IsFresh(lookup) ==
  LET entry == cache[lookup.name]
  IN entry # NoEntry /\ clock - entry.stamp < lookup.ttl

\* The entry is used as it is; cache holds what the caller reads.
HitCache(lookup) ==
  /\ IsFresh(lookup)
  /\ UNCHANGED lookupVars

MissCache(lookup) ==
  /\ ~IsFresh(lookup)
  /\ asked' = clock
  /\ UNCHANGED <<clock, since, cache, answer>>

\* The query's snapshot of the table.
QueryTable(lookup) ==
  /\ answer = 0
  /\ answer' = Len(since[lookup.name])
  /\ UNCHANGED <<clock, since, cache, asked>>

\* Mutant: the entry is stamped when it is stored.
StampedOnArrival == [stamp |-> clock, version |-> answer]

EntryLoaded == [stamp |-> asked, version |-> answer]

StoreTable(lookup) ==
  /\ answer # 0
  /\ cache'  = [cache EXCEPT ![lookup.name] = EntryLoaded]
  /\ asked'  = 0
  /\ answer' = 0
  /\ UNCHANGED <<clock, since>>

LookupTypeOK ==
  /\ clock \in 0..MaxTime
  /\ \A t \in Tables : /\ since[t] \in Seq(0..clock)
                       /\ Len(since[t]) \in DOMAIN Contents[t]
                       /\ cache[t].stamp \in 0..clock
                       /\ cache[t].version \in 0..Len(since[t])
  /\ asked \in 0..clock
  /\ answer \in Nat

\* The versions of a table that were its content at some moment after
\* `from`, counting the current one.
VersionsAfter(t, from) ==
  {v \in DOMAIN since[t] : v = Len(since[t]) \/ since[t][v + 1] > from}

=============================================================================

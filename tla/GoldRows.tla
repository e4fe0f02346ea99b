------------------------------ MODULE GoldRows ------------------------------
(***************************************************************************)
(* The data the Gold loader moves: rows of fact_stop_event, the [start,    *)
(* end) load scope, the data-quality rules of ingestion/validation.py and  *)
(* the constraints PostgreSQL enforces on the fact (db/models.py).         *)
(*                                                                         *)
(* A row keeps what the rules, the scope and the constraints look at.      *)
(* `point' stands for the pair (stop_point_key, train_no); `copy' tells    *)
(* apart two rows of one export that share a grain; `fits' says whether    *)
(* the remaining columns satisfy the fact's NOT NULL and CHECK             *)
(* constraints; `run' is the load that wrote the row (0 in an export),     *)
(* which the table shows as loaded_at.                                     *)
(***************************************************************************)
EXTENDS Integers, FiniteSets

CONSTANTS Dates,        \* service dates, as day numbers
          Points,       \* (stop_point_key, train_no) pairs
          Stations,     \* station_key values
          Relations,    \* relation_key values
          Copies,       \* tells equal-grain rows of an export apart
          Partitioned,  \* the dates some partition of the fact holds
          Null          \* SQL NULL, and an absent bound of a scope

\* Dates are numbers, the partitions cover some of them, and NULL is no key.
ASSUME RowsAssumption ==
    /\ Dates \subseteq Int
    /\ Partitioned \subseteq Dates
    /\ Null \notin Dates \cup Points \cup Stations \cup Relations

Dims == {"dim_date", "dim_station", "dim_relation"}
Keys == Dates \cup Stations \cup Relations

Row == [run      : Nat,
        date     : Dates \cup {Null},
        point    : Points \cup {Null},
        station  : Stations \cup {Null},
        relation : Relations \cup {Null},
        copy     : Copies,
        fits     : BOOLEAN]

\* DateRange: a half-open interval, each bound possibly absent.
Scope == [start : Dates \cup {Null}, end : Dates \cup {Null}]

IsFull(sc) == sc.start = Null /\ sc.end = Null

\* _scope_column / _range_predicate: a NULL date satisfies no comparison.
InScope(r, sc) ==
    /\ sc.start # Null => r.date # Null /\ r.date >= sc.start
    /\ sc.end   # Null => r.date # Null /\ r.date <  sc.end

RowsIn(S, sc) == {r \in S : InScope(r, sc)}

Grain(r) == <<r.date, r.point>>

GrainsOf(S) == {Grain(r) : r \in S}

-----------------------------------------------------------------------------
(* The rules, as failure conditions on row r of the staged set S.          *)

HasNullKey(r) == Null \in {r.date, r.point, r.station, r.relation}

KeyIn(r, d) == CASE d = "dim_date"     -> r.date
                 [] d = "dim_station"  -> r.station
                 [] d = "dim_relation" -> r.relation

IsOrphan(r, dims) == \E d \in Dims : KeyIn(r, d) # Null /\ KeyIn(r, d) \notin dims[d]

\* Groups are formed over the rows without a NULL key; every member is bad.
IsDuplicated(r, S) ==
    \E a, b \in S : /\ a # b
                    /\ ~HasNullKey(a) /\ ~HasNullKey(b)
                    /\ Grain(a) = Grain(r) /\ Grain(b) = Grain(r)

Passes(r, S, dims) == ~HasNullKey(r) /\ ~IsDuplicated(r, S) /\ ~IsOrphan(r, dims)

\* valid_rows_clause(): what the skip policy lets through.
ValidRows(S, dims) == {r \in S : Passes(r, S, dims)}

\* validate_staged_fact() returns at least one violation.
Violated(S, dims) == \E r \in S : ~Passes(r, S, dims)

-----------------------------------------------------------------------------
(* The fact's own constraints: NOT NULL keys, the three foreign keys, the  *)
(* CHECKs, the monthly partitions without a DEFAULT, and an ON CONFLICT    *)
(* statement that may not touch one grain twice.                           *)

Storable(r, dims) ==
    ~HasNullKey(r) /\ ~IsOrphan(r, dims) /\ r.fits /\ r.date \in Partitioned

\* Mutant of Placeable: no NOT NULL on the keys.
Keyless(r) == r.fits /\ r.date \in Partitioned

\* What is checked when a row is written, and what when the statement ends.
Placeable(r) == ~HasNullKey(r) /\ r.fits /\ r.date \in Partitioned

\* Mutant of Referenced: no foreign keys.
Unreferenced(S, dims) == TRUE

Referenced(S, dims) == \A r \in S : ~IsOrphan(r, dims)

=============================================================================

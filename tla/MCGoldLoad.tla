----------------------------- MODULE MCGoldLoad -----------------------------
(***************************************************************************)
(* Small instances of GoldLoad for TLC: the exports, jobs and keys its     *)
(* configurations choose from.                                             *)
(***************************************************************************)
EXTENDS GoldLoad, TLC

CONSTANTS p1, p2, s1, s2, r1, k1, k2, \* model values
          la, lb                      \* loaders

MCDates       == 1..4
MCPartitioned == 1..3
MCPoints      == {p1, p2}
MCStations    == {s1, s2}
MCRelations   == {r1}
MCCopies      == {k1, k2}

\* A row of an export, and the variations that break a rule or a constraint.
At(d, p)         == [run |-> 0, date |-> d, point |-> p, station |-> s1,
                     relation |-> r1, copy |-> k1, fits |-> TRUE]
NoStation(d, p)  == [At(d, p) EXCEPT !.station = Null]
Orphan(d, p)     == [At(d, p) EXCEPT !.station = s2]
Copy(d, p)       == [At(d, p) EXCEPT !.copy = k2]
OutOfRange(d, p) == [At(d, p) EXCEPT !.fits = FALSE]

NoDims   == [d \in Dims |-> {}]
MostDims == [dim_date |-> 1..4, dim_station |-> {s1}, dim_relation |-> {r1}]

Holding1(layout, rows, total) ==
    [layout |-> layout, rows |-> rows, total |-> total, first |-> 1, last |-> 3,
     dims |-> MostDims,
     declared |-> [dim_date |-> 4, dim_station |-> 1, dim_relation |-> 1],
     manifest |-> TRUE, broken |-> {}]

\* Two clean days; the same days re-exported with one row changed and one gone.
Clean     == Holding1("partitioned", {At(1, p1), At(2, p1), At(2, p2)}, 3)
Reexport  == Holding1("partitioned", {Copy(1, p1), At(2, p2)}, 2)
\* A duplicated grain and a NULL key on day 1, an orphan on day 2.
Dirty     == Holding1("partitioned",
                      {At(1, p1), Copy(1, p1), NoStation(1, p2), Orphan(2, p1), At(2, p2)}, 5)
\* A NULL key and an orphan, under grains no other export has.
Stray     == Holding1("partitioned", {NoStation(1, p2), Orphan(3, p1)}, 2)
\* Passes every rule, and no partition or no CHECK accepts it.
Unstored  == Holding1("partitioned", {At(4, p1)}, 1)
BadValue  == Holding1("partitioned", {At(1, p1), OutOfRange(2, p1)}, 2)
\* Lost a part file after the manifest was written.
Truncated == Holding1("partitioned", {At(1, p1)}, 3)
\* The single-file sample; one whose station is not in the dimension.
Sample    == Holding1("single", {At(1, p1), At(2, p1)}, 2)
DirtySample == Holding1("single", {At(1, p1), Orphan(1, p2), At(2, p1)}, 3)
Missing   == [Clean EXCEPT !.broken = {"fact_stop_event", "dim_station"}]
\* Declares fewer days than a window that ends on day 4 asks for.
TwoDays   == [Clean EXCEPT !.last = 2]
NoManifest == [Clean EXCEPT !.manifest = FALSE]
\* A re-export that brings the station the orphans lack.
MoreDims == [Clean EXCEPT !.dims["dim_station"] = {s1, s2}]
\* A dimension shorter than declared.
ShortDims == [Clean EXCEPT !.declared = [dim_date |-> 4, dim_station |-> 2, dim_relation |-> 1]]

Everything == [start |-> Null, end |-> Null]
Day(d)     == [start |-> d, end |-> d + 1]
From(d)    == [start |-> d, end |-> Null]

Load(x, sc, policy) == [kind |-> "fact", export |-> x, scope |-> sc, policy |-> policy]
LoadDims(x) == [kind |-> "dims", export |-> x, scope |-> Everything, policy |-> "fail"]

\* One loader at a time: every layout, policy and scope, except the skip policy
\* over part of a single file (see MCScopeLeak).
SerialJobs ==
    [l \in {la} |->
      {Load(x, Everything, "fail") : x \in {Clean, Dirty, Unstored, Truncated, DirtySample}}
      \cup {Load(x, Day(1), "skip") : x \in {Reexport, Dirty}}
      \cup {Load(Dirty, Everything, "skip"), Load(BadValue, From(2), "fail"),
            Load(TwoDays, [start |-> 2, end |-> 4], "fail"),
            Load(Sample, Day(2), "fail"), Load(Missing, Everything, "fail"),
            Load(DirtySample, Everything, "skip"), Load(NoManifest, Everything, "fail"),
            LoadDims(Clean), LoadDims(Missing), LoadDims(ShortDims)}]

\* Two loaders on windows that do not meet, under the policy "fail".
DisjointJobs ==
    (la :> {Load(Clean, Day(1), "fail"), Load(Reexport, Day(1), "fail"), LoadDims(MoreDims)})
    @@ (lb :> {Load(Clean, Day(2), "fail"), Load(Reexport, From(2), "fail")})

\* Two loaders on overlapping windows, one of them letting bad rows be skipped.
OverlapJobs ==
    (la :> {Load(Clean, Everything, "fail"), Load(Stray, From(1), "skip")})
    @@ (lb :> {Load(Reexport, Day(1), "fail"), Load(Clean, From(2), "skip")})

\* Part of a single file under the policy "skip".
ScopeLeakJobs ==
    [l \in {la} |-> {Load(DirtySample, Day(1), "skip")}]

\* A truncated export, loaded in full.
GateJobs ==
    [l \in {la} |-> {Load(Truncated, Everything, "fail")}]

\* Where the promises of load_fact are proved to hold, and where they are not.
ASSUME KeepApart(SerialJobs) /\ KeepApart(DisjointJobs)
ASSUME ~KeepApart(OverlapJobs) /\ ~KeepApart(ScopeLeakJobs)

=============================================================================

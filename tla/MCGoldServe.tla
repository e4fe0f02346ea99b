---------------------------- MODULE MCGoldServe ----------------------------
(***************************************************************************)
(* Small instances of GoldServe for TLC: two service dates, and loads that *)
(* replace both, reload one, empty one, or upsert a dimension only.        *)
(***************************************************************************)
EXTENDS GoldServe, TLC

CONSTANTS la, lb, \* loads
          ra, rb, \* rebuilds
          sa, sb  \* pipelines

MCDays == 1..2

Replaces(w, d) == [window |-> w, days |-> d]

ProfileLandings == {Replaces({1, 2}, {1, 2}), Replaces({}, {})}
RollupLandings  == {Replaces({1, 2}, {1, 2}), Replaces({1}, {1}), Replaces({2}, {})}

\* Loads are alike, and so are pipelines.
Alike == Permutations(Loads) \cup Permutations(Servers)
=============================================================================

-------------------------- MODULE GoldServeProofs --------------------------
(***************************************************************************)
(* Proofs about GoldServe, for every set of loads, rebuilds and pipelines, *)
(* whatever interleaves, fails or dies: the types, that a profile served   *)
(* under a logged key is recent, and that rebuilds never go back.          *)
(***************************************************************************)
EXTENDS GoldServe, TLAPS

-----------------------------------------------------------------------------
(* The types                                                               *)

\* What an uncommitted rebuild holds was read from a version that there is.
BuiltInPast == \A r \in Refreshers : \A t \in Rollups : refresher[r].built[t] <= Version

\* Only a pipeline with a key reads or writes the snapshot.
Keyed == \A s \in Servers : server[s].pc \in {"read", "write"} => server[s].key # Null

TInv == TypeOK /\ BuiltInPast /\ Keyed

\* The first and the last of some dates are dates, or none.
LEMMA DateTyped ==
  ASSUME NEW S \in SUBSET Days
  PROVE  First(S) \in Days \cup {Null} /\ Last(S) \in Days \cup {Null}
<1>1. CASE S = {}
  BY <1>1 DEF First, Last
<1>2. CASE S # {}
  <2>1. PICK d \in S, e \in S : \A f \in S : d <= f /\ f <= e
    BY <1>2, ServeAssumption
  <2> QED
    BY <1>2, <2>1 DEF First, Last
<1> QED
  BY <1>1, <1>2

\* One version of an empty fact, and nobody at work.
LEMMA InitTInv == Init => TInv
<1> SUFFICES ASSUME Init PROVE TInv
  OBVIOUS
<1>1. facts \in Seq(SUBSET Days) /\ Version = 1
  BY DEF Init, Version
<1>2. /\ NoLoad \in Load
      /\ NoRefresh \in Refresher
      /\ NoServer \in Server
  BY DEF NoLoad, Load, NoRefresh, Refresher, Rollups, NoServer, Server, ServerPCs, Profile
<1>3. commands \in 0..MaxCommands
  BY ServeAssumption DEF Init
<1>4. Typed
  <2>1. there \in BOOLEAN /\ unlogged \in BOOLEAN
    BY DEF Init
  <2>2. load \in [Loads -> Load] /\ refresher \in [Refreshers -> Refresher]
    BY <1>2 DEF Init
  <2>3. server \in [Servers -> Server]
    BY <1>2 DEF Init
  <2>4. rollup \in [Rollups -> Nat] /\ runs \in Runs /\ now \in Nat /\ sequence \in Nat
        /\ promised \in Nat
    BY DEF Init, Runs
  <2>5. snapshot \in Snapshot \cup {Null}
    BY DEF Init
  <2> QED
    BY <1>1, <1>3, <2>1, <2>2, <2>3, <2>4, <2>5 DEF Typed
<1>5. OfThePast /\ BuiltInPast /\ Keyed
  BY <1>1 DEF Init, OfThePast, BuiltInPast, Keyed, NoLoad, NoRefresh, NoServer
<1> QED
  BY <1>4, <1>5 DEF TInv, TypeOK

\* Each commit of Gold is a version more.
LEMMA Grown ==
  ASSUME Typed, NEW S \in SUBSET Days, facts' = Append(facts, S)
  PROVE  facts' \in Seq(SUBSET Days) /\ Version' = Version + 1 /\ Version \in Nat
  BY DEF Typed, Version

\* Versions are counted.
LEMMA VersionIsNat ==
  ASSUME Typed PROVE Version \in Nat
  BY DEF Typed, Version

\* Commands are counted up to their bound.
LEMMA CommandTyped ==
  ASSUME Typed, Command PROVE commands' \in 0..MaxCommands
  BY ServeAssumption DEF Typed, Command

\* What the actions of a load, and of a rebuild, do to its record.
LEMMA LoadSet ==
  ASSUME NEW x \in Load, NEW p \in {"idle", "opening", "loading", "ended", "closing"},
         NEW n \in Nat
  PROVE  /\ [x EXCEPT !.pc = p] \in Load
         /\ [x EXCEPT !.pc = p, !.landed = n] \in Load
         /\ [x EXCEPT !.pc = p, !.stamp = n] \in Load
         /\ [x EXCEPT !.pc = p, !.id = n] \in Load
         /\ NoLoad \in Load
  BY DEF Load, NoLoad

\* A rebuild that begins.
LEMMA NoRefreshTyped ==
  /\ NoRefresh \in Refresher
  /\ [NoRefresh EXCEPT !.pc = "activity"] \in Refresher
  /\ \A n \in Nat : [NoRefresh EXCEPT !.pc = "truncate", !.from = n] \in Refresher
<1>1. NoRefresh \in Refresher
  BY DEF NoRefresh, Refresher, Rollups
<1> QED
  BY <1>1 DEF Refresher

\* A rebuild that has done the first rollup.
LEMMA FirstBuilt ==
  ASSUME NEW x \in Refresher, NEW b \in [Rollups -> Nat]
  PROVE  [x EXCEPT !.pc = "truncate", !.at = 2, !.built = b] \in Refresher
<1>1. ASSUME NEW p \in {"idle", "activity", "truncate", "fill"}, NEW i \in 1..2
      PROVE  [x EXCEPT !.pc = p, !.at = i, !.built = b] \in Refresher
  BY DEF Refresher
<1>2. "truncate" \in {"idle", "activity", "truncate", "fill"} /\ 2 \in 1..2
  OBVIOUS
<1> QED
  BY <1>1, <1>2, Zenon

\* The steps of a load.
LEMMA LoadTInv ==
  ASSUME TInv, NEW l \in Loads, TakeId(l) \/ LoadStep(l)
  PROVE  TInv'
<1> USE DEF TInv, TypeOK, Keyed
<1>0. Version \in Nat /\ load[l] \in Load /\ now \in Nat /\ now + 1 \in Nat
  BY VersionIsNat DEF Typed
<1>1. CASE OpenRun(l)
  <2>1. load' \in [Loads -> Load]
    <3>1. [load[l] EXCEPT !.pc = "loading", !.id = 0] \in Load
      BY <1>0, LoadSet
    <3> QED
      BY <1>1, <3>1 DEF OpenRun, Typed
  <2>2. runs' \in Runs
    BY <1>0, <1>1 DEF OpenRun, Typed, Runs, Later, Load
  <2>3. there' \in BOOLEAN /\ unlogged' \in BOOLEAN
    BY <1>1 DEF OpenRun, Typed
  <2>4. Typed'
    BY <1>1, <2>1, <2>2, <2>3 DEF OpenRun, Typed, Version, derived
  <2>5. OfThePast' /\ BuiltInPast' /\ Keyed'
    BY <1>0, <1>1 DEF OpenRun, OfThePast, BuiltInPast, Version, Runs, Typed, Load, Later, Server,
       Key, derived
  <2> QED
    BY <2>4, <2>5
<1>7. CASE TakeId(l)
  <2>1. load' \in [Loads -> Load]
    <3>1. [load[l] EXCEPT !.pc = "opening", !.id = sequence + 1] \in Load
      <4>1. sequence + 1 \in Nat
        BY DEF Typed
      <4> QED
        BY <1>0, <4>1, LoadSet
    <3> QED
      BY <1>7, <3>1 DEF TakeId, Typed
  <2>2. there' \in BOOLEAN /\ unlogged' \in BOOLEAN
    BY <1>7 DEF TakeId, Typed, gold
  <2>3. Typed'
    BY <1>7, <2>1, <2>2, CommandTyped DEF TakeId, Typed, Version, gold, derived
  <2>4. OfThePast' /\ BuiltInPast' /\ Keyed'
    <3>1. sequence \in Nat /\ sequence' = sequence + 1 /\ runs' = runs /\ runs.id \in Nat
      BY <1>7 DEF TakeId, Typed, Runs
    <3>2. runs'.id <= sequence'
      BY <3>1 DEF OfThePast
    <3>3. \A m \in Loads : load[m].id \in Nat /\ load[m].id <= sequence
      BY DEF Typed, Load, OfThePast
    <3>4. \A m \in Loads : load'[m].id <= sequence' /\ load'[m].stamp = load[m].stamp
      BY <1>7, <3>1, <3>3 DEF TakeId, Typed, Load
    <3> QED
      BY <1>7, <3>1, <3>2, <3>4 DEF TakeId, OfThePast, BuiltInPast, Version, gold, derived
  <2> QED
    BY <2>3, <2>4
<1>2. ASSUME NEW w \in Landings, Land(l, w) PROVE TInv'
  <2>1. (facts[Version] \ w.window) \cup w.days \in SUBSET Days
    BY ServeAssumption DEF Version, Typed
  <2>2. facts' \in Seq(SUBSET Days) /\ Version' = Version + 1
    BY <1>2, <2>1, Grown DEF Land
  <2>3. load' \in [Loads -> Load]
    <3>1. Version + 1 \in Nat
      BY <1>0
    <3>2. [load[l] EXCEPT !.pc = "ended", !.landed = Version + 1] \in Load
      BY <1>0, <3>1, LoadSet
    <3> QED
      BY <1>2, <3>2 DEF Land, Typed
  <2>4. there' \in BOOLEAN /\ unlogged' \in BOOLEAN
    BY <1>2 DEF Land, Typed
  <2>5. Typed'
    BY <1>0, <1>2, <2>2, <2>3, <2>4 DEF Land, Typed, derived, audit
  <2>6. OfThePast' /\ BuiltInPast' /\ Keyed'
    BY <1>0, <1>2, <2>2 DEF Land, OfThePast, BuiltInPast, Typed, Load, Refresher, Rollups, derived,
       audit
  <2> QED
    BY <2>5, <2>6
<1>3. CASE LoadFails(l)
  BY <1>3 DEF LoadFails, Version, Load, Typed, OfThePast, BuiltInPast, gold, derived, audit
<1>4. CASE BeginClose(l)
  <2>1. load' \in [Loads -> Load]
    <3>1. [load[l] EXCEPT !.pc = "closing", !.stamp = now + 1] \in Load
      BY <1>0, LoadSet
    <3> QED
      BY <1>4, <3>1 DEF BeginClose, Typed
  <2>2. there' \in BOOLEAN /\ unlogged' \in BOOLEAN
    BY <1>4 DEF BeginClose, Typed, gold
  <2>3. Typed'
    BY <1>0, <1>4, <2>1, <2>2 DEF BeginClose, Typed, Version, gold, derived
  <2>4. OfThePast' /\ BuiltInPast' /\ Keyed'
    BY <1>4 DEF BeginClose, OfThePast, BuiltInPast, Version, Typed, Load, Runs, gold, derived
  <2> QED
    BY <2>3, <2>4
<1>5. CASE Close(l)
  <2>1. load' \in [Loads -> Load]
    BY <1>0, <1>5, LoadSet DEF Close, Typed
  <2>2. runs' \in Runs
    BY <1>5 DEF Close, Typed, Runs, Load, Later
  <2>3. there' \in BOOLEAN /\ unlogged' \in BOOLEAN
    BY <1>5 DEF Close, Typed, gold
  <2>4. Typed'
    BY <1>5, <2>1, <2>2, <2>3 DEF Close, Typed, Version, gold, derived
  <2>5. OfThePast' /\ BuiltInPast' /\ Keyed'
    BY <1>5 DEF Close, OfThePast, BuiltInPast, Version, Typed, Load, Runs, Later, NoLoad, Server,
       Key, gold, derived
  <2> QED
    BY <2>4, <2>5
<1>6. CASE Vanish(l)
  BY <1>6 DEF Vanish, Version, NoLoad, Load, Typed, OfThePast, BuiltInPast, derived, audit
<1> QED
  BY <1>1, <1>2, <1>3, <1>4, <1>5, <1>6, <1>7 DEF LoadStep

\* The steps of a rebuild.
LEMMA RefreshTInv ==
  ASSUME TInv, NEW r \in Refreshers,
         BeginRefresh(r) \/ BeginFinalize(r) \/ RefreshStep(r) \/ RefreshStops(r)
  PROVE  TInv'
<1> USE DEF TInv, TypeOK, Keyed
<1>0. Version \in Nat /\ refresher[r] \in Refresher
  BY VersionIsNat DEF Typed
<1>1. CASE BeginRefresh(r)
  <2>1. [NoRefresh EXCEPT !.pc = "truncate", !.from = Version] \in Refresher
    BY <1>0, NoRefreshTyped
  <2>2. refresher' \in [Refreshers -> Refresher]
    BY <1>1, <2>1 DEF BeginRefresh, Typed
  <2>3. there' \in BOOLEAN /\ unlogged' \in BOOLEAN
    BY <1>1 DEF BeginRefresh, Typed, gold
  <2>4. Typed'
    BY <1>1, <2>2, <2>3, CommandTyped DEF BeginRefresh, Typed, Version, gold, derived, audit
  <2>5. OfThePast' /\ BuiltInPast' /\ Keyed'
    BY <1>0, <1>1 DEF BeginRefresh, OfThePast, BuiltInPast, NoRefresh, Typed, Version, gold,
       derived, audit
  <2> QED
    BY <2>4, <2>5
<1>2. CASE Truncate(r)
  BY <1>2 DEF Truncate, Typed, Refresher, OfThePast, BuiltInPast, Version, gold, derived, audit
<1>3. CASE FillFirst(r)
  <2> DEFINE built == [refresher[r].built EXCEPT !["station"] = Version]
  <2>1. built \in [Rollups -> Nat]
    BY <1>0 DEF Refresher, Rollups
  <2>2. refresher' =
          [refresher EXCEPT ![r] = [@ EXCEPT !.pc = "truncate", !.at = 2, !.built = built]]
    BY <1>3 DEF FillFirst, RefreshOrder
  <2>3. refresher' \in [Refreshers -> Refresher]
    <3> HIDE DEF built
    <3>1. [refresher[r] EXCEPT !.pc = "truncate", !.at = 2, !.built = built] \in Refresher
      BY <1>0, <2>1, FirstBuilt
    <3> QED
      BY <2>2, <3>1 DEF Typed
  <2>4. there' \in BOOLEAN /\ unlogged' \in BOOLEAN
    BY <1>3 DEF FillFirst, Typed, gold
  <2>5. Typed'
    BY <1>3, <2>3, <2>4 DEF FillFirst, Typed, Version, gold, derived, audit
  <2>6. OfThePast' /\ BuiltInPast' /\ Keyed'
    <3>1. \A t \in Rollups : built[t] <= Version
      BY <1>0 DEF BuiltInPast, Refresher, Rollups
    <3>2. refresher'[r].built = built
      BY <2>2 DEF Typed, Refresher
    <3>3. BuiltInPast'
      BY <1>3, <2>2, <3>1, <3>2 DEF FillFirst, BuiltInPast, Typed, Version, gold
    <3> QED
      BY <1>3, <3>3 DEF FillFirst, OfThePast, Version, gold, derived, audit
  <2> QED
    BY <2>5, <2>6
<1>4. CASE FillLast(r)
  <2>1. rollup' \in [Rollups -> Nat]
    BY <1>0, <1>4 DEF FillLast, Typed, Refresher, RefreshOrder, Rollups
  <2>2. promised' \in Nat
    BY <1>0, <1>4 DEF FillLast, Typed, Refresher, Later
  <2>3. refresher' \in [Refreshers -> Refresher]
    BY <1>0, <1>4, NoRefreshTyped DEF FillLast, Typed
  <2>4. there' \in BOOLEAN /\ unlogged' \in BOOLEAN
    BY <1>4 DEF FillLast, Typed, gold
  <2>5. Typed'
    BY <1>4, <2>1, <2>2, <2>3, <2>4 DEF FillLast, Typed, Version, gold, audit
  <2>6. \A t \in Rollups : rollup'[t] <= Version
    BY <1>0, <1>4 DEF FillLast, BuiltInPast, Refresher, RefreshOrder, Rollups
  <2>7. OfThePast' /\ BuiltInPast' /\ Keyed'
    BY <1>0, <1>4, <2>6 DEF FillLast, OfThePast, BuiltInPast, NoRefresh, Typed, Version, gold, audit
  <2> QED
    BY <2>5, <2>7
<1>5. CASE RefreshFails(r) \/ RefreshStops(r)
  <2>1. RolledBack(r)
    BY <1>5 DEF RefreshFails, RefreshStops
  <2> QED
    BY <2>1 DEF RolledBack, Typed, Refresher, Rollups, OfThePast, BuiltInPast, NoRefresh, Version,
       gold, derived, audit
<1>6. CASE BeginFinalize(r)
  <2>1. refresher' \in [Refreshers -> Refresher]
    BY <1>6, NoRefreshTyped DEF BeginFinalize, Typed
  <2>2. there' \in BOOLEAN /\ unlogged' \in BOOLEAN
    BY <1>6 DEF BeginFinalize, Typed, gold
  <2>3. Typed'
    BY <1>6, <2>1, <2>2, CommandTyped DEF BeginFinalize, Typed, Version, gold, derived, audit
  <2>4. OfThePast' /\ BuiltInPast' /\ Keyed'
    BY <1>0, <1>6 DEF BeginFinalize, OfThePast, BuiltInPast, NoRefresh, Typed, Version, gold,
       derived, audit
  <2> QED
    BY <2>3, <2>4
<1>7. CASE DeriveActivity(r)
  <2>1. facts' \in Seq(SUBSET Days) /\ Version' = Version + 1
    <3>1. facts[Version] \in SUBSET Days /\ facts' = Append(facts, facts[Version])
      BY <1>7 DEF DeriveActivity, Version, Typed
    <3> QED
      BY <3>1, Grown
  <2>2. refresher' \in [Refreshers -> Refresher]
    <3>1. Version + 1 \in Nat
      BY <1>0
    <3> QED
      BY <1>7, <3>1, NoRefreshTyped DEF DeriveActivity, Typed
  <2>3. there' \in BOOLEAN /\ unlogged' \in BOOLEAN
    BY <1>7 DEF DeriveActivity, Typed
  <2>4. Typed'
    BY <1>0, <1>7, <2>1, <2>2, <2>3 DEF DeriveActivity, Typed, derived, audit
  <2>5. OfThePast' /\ BuiltInPast' /\ Keyed'
    BY <1>0, <1>7, <2>1 DEF DeriveActivity, OfThePast, BuiltInPast, NoRefresh, Typed, Refresher,
       Rollups, derived, audit
  <2> QED
    BY <2>4, <2>5
<1> QED
  BY <1>1, <1>2, <1>3, <1>4, <1>5, <1>6, <1>7 DEF RefreshStep

\* What the actions of a pipeline do to its record.
KeyFits(new) ==
    /\ new.key # Null => new.key.runs.id <= runs.id /\ new.key.runs.finished <= runs.finished
    /\ new.pc \in {"read", "write"} => new.key # Null

\* A pipeline that begins.
LEMMA NoServerTyped ==
  /\ NoServer \in Server
  /\ NoServer.key = Null /\ NoServer.pc = "off"
  /\ \A n \in Nat : LET x == [NoServer EXCEPT !.pc = "key", !.since = n]
                    IN  x \in Server /\ x.key = Null /\ x.pc = "key"
<1>1. NoServer \in Server /\ NoServer.key = Null /\ NoServer.pc = "off"
  BY DEF NoServer, Server, ServerPCs, Profile
<1> QED
  BY <1>1 DEF Server, ServerPCs

\* A pipeline that goes on with what it has read.
LEMMA ServerSet ==
  ASSUME NEW x \in Server, NEW p \in ServerPCs
  PROVE  /\ [x EXCEPT !.pc = p] \in Server
         /\ \A d \in Days \cup {Null} : [x EXCEPT !.pc = p, !.ends = d] \in Server
         /\ \A b \in BOOLEAN : [x EXCEPT !.pc = p, !.stale = b] \in Server
         /\ \A q \in Profile : [x EXCEPT !.pc = p, !.profile = q] \in Server
         /\ \A n \in Nat :
               [x EXCEPT !.pc = p, !.first = Null, !.last = Null, !.at = n] \in Server
         /\ \A d, e \in Days \cup {Null} :
               [x EXCEPT !.pc = p, !.first = d, !.last = e] \in Server
<1>1. [x EXCEPT !.pc = p] \in Server
  BY DEF Server
<1>2. \A d \in Days \cup {Null} : [x EXCEPT !.pc = p, !.ends = d] \in Server
  BY DEF Server
<1>3. \A b \in BOOLEAN : [x EXCEPT !.pc = p, !.stale = b] \in Server
  BY DEF Server
<1>4. \A q \in Profile : [x EXCEPT !.pc = p, !.profile = q] \in Server
  BY DEF Server
<1>5. \A n \in Nat : [x EXCEPT !.pc = p, !.first = Null, !.last = Null, !.at = n] \in Server
  BY DEF Server
<1>6. \A d, e \in Days \cup {Null} : [x EXCEPT !.pc = p, !.first = d, !.last = e] \in Server
  BY DEF Server
<1> QED
  BY <1>1, <1>2, <1>3, <1>4, <1>5, <1>6

\* A pipeline that has its key.
LEMMA KeySet ==
  ASSUME NEW x \in Server, NEW k \in Key, NEW n \in Nat, NEW b \in BOOLEAN
  PROVE  [x EXCEPT !.pc = "read", !.first = Null, !.last = Null, !.key = k, !.at = n,
                   !.logged = b] \in Server
  BY DEF Server, ServerPCs

\* A profile of other versions.
LEMMA ProfileSet ==
  ASSUME NEW q \in Profile, NEW n \in Nat
  PROVE  [q EXCEPT !.fact = n] \in Profile /\ [q EXCEPT !.dims = n] \in Profile
  BY DEF Profile

\* A pipeline that has a profile.
LEMMA ProfiledTyped ==
  ASSUME NEW s \in Servers, server[s] \in Server, NEW l \in ServerPCs, NEW q \in Profile
  PROVE  /\ Profiled(s, l, q) \in Server
         /\ Profiled(s, l, q).pc = l
         /\ Profiled(s, l, q).key = Null
         /\ Profiled(s, l, q).profile = q
         /\ Profiled(s, l, q).since = server[s].since
         /\ Profiled(s, l, q).logged = server[s].logged
<1>1. /\ NoServer.key = Null
      /\ NoServer \in Server
  BY NoServerTyped
<1>2. server[s].since \in Nat /\ server[s].logged \in BOOLEAN
  BY DEF Server
<1> QED
  BY <1>1, <1>2 DEF Profiled, Server

\* Any step of a pipeline that leaves the database alone.
LEMMA BecomeTInv ==
  ASSUME TInv, NEW s \in Servers, NEW new \in Server, Become(s, new), KeyFits(new),
         UNCHANGED <<gold, derived, audit, load, refresher>>,
         commands' \in 0..MaxCommands, snapshot' \in Snapshot \cup {Null}
  PROVE  TInv'
<1> USE DEF TInv, TypeOK
<1>1. server' \in [Servers -> Server]
  BY DEF Become, Typed
<1>2. there' \in BOOLEAN /\ unlogged' \in BOOLEAN
  BY DEF gold, Typed
<1>3. Typed'
  BY <1>1, <1>2 DEF Typed, Version, gold, derived, audit
<1>4. OfThePast'
  BY DEF OfThePast, KeyFits, Become, Typed, Version, gold, derived, audit
<1>5. BuiltInPast'
  BY DEF BuiltInPast, Version, gold
<1>6. Keyed'
  BY DEF Keyed, KeyFits, Become, Typed
<1> QED
  BY <1>3, <1>4, <1>5, <1>6

\* The steps of a pipeline.
LEMMA ServerTInv ==
  ASSUME TInv, NEW s \in Servers, Start(s) \/ ServerStep(s)
  PROVE  TInv'
<1> USE DEF TInv, TypeOK, Serving
<1>1. /\ Version \in Nat
      /\ server[s] \in Server
      /\ KeyFits(server[s])
      /\ facts[Version] \in SUBSET Days
      /\ \A p \in {"key", "key_runs", "read", "measure", "measure_dims", "write", "check",
                   "check_first", "check_second", "on"} : p \in ServerPCs
  BY VersionIsNat DEF Typed, OfThePast, Keyed, KeyFits, ServerPCs, Version
<1>2. commands' \in 0..MaxCommands
  BY CommandTyped DEF Start, ServerStep, KeyDates, KeyRuns, NoKey, ReadSnapshot, Unreadable,
     MeasureFact, MeasureDims, WriteSnapshot, Unwritten, CheckFact, CheckFirst, CheckSecond,
     StartFails, Typed
<1>3. ASSUME NEW new \in Server, Become(s, new), KeyFits(new), snapshot' = snapshot,
             UNCHANGED <<gold, derived, audit, load, refresher>>
      PROVE  TInv'
  BY <1>2, <1>3, BecomeTInv DEF Typed
<1>4. server[s].profile \in Profile /\ (server[s].key # Null => server[s].key \in Key)
  BY <1>1 DEF Server
<1>5. KeyFits(NoServer) /\ NoServer \in Server
  BY NoServerTyped DEF KeyFits
<1>6. \A l \in {"check", "on"} : \A q \in Profile :
         Profiled(s, l, q) \in Server /\ KeyFits(Profiled(s, l, q))
  BY <1>1, ProfiledTyped DEF KeyFits
<1>7. CASE Start(s)
  <2>1. LET new == [NoServer EXCEPT !.pc = "key", !.since = Version]
        IN  new \in Server /\ KeyFits(new)
    BY <1>1, NoServerTyped DEF KeyFits
  <2> QED
    BY <1>3, <1>7, <2>1 DEF Start
<1>8. CASE KeyDates(s)
  <2> DEFINE new == [server[s] EXCEPT !.pc = "key_runs", !.first = First(facts[Version]),
                                      !.last = Last(facts[Version])]
  <2>1. new \in Server
    BY <1>1, DateTyped, ServerSet
  <2>2. KeyFits(new)
    BY <1>1 DEF KeyFits, Server
  <2> QED
    BY <1>3, <1>8, <2>1, <2>2 DEF KeyDates
<1>9. CASE KeyRuns(s)
  <2> DEFINE key == [first |-> server[s].first, last |-> server[s].last, runs |-> RunsRead]
             new == [server[s] EXCEPT !.pc = "read", !.first = Null, !.last = Null, !.key = key,
                                      !.at = Version, !.logged = Logged]
  <2>1. key \in Key /\ key.runs = runs /\ Logged \in BOOLEAN
    BY <1>1 DEF Server, Key, RunsRead, Typed, Logged
  <2>2. new \in Server
    <3> HIDE DEF key
    <3> QED
      BY <1>1, <2>1, KeySet
  <2>3. new.key = key /\ key # Null
    BY <1>1, <2>1, ServeAssumption DEF Server
  <2>4. KeyFits(new)
    <3> HIDE DEF key, new
    <3> QED
      BY <2>1, <2>3 DEF KeyFits, Typed, Runs
  <2> QED
    BY <1>3, <1>9, <2>2, <2>4 DEF KeyRuns
<1>10. CASE NoKey(s)
  <2> DEFINE new == [server[s] EXCEPT !.pc = "measure", !.first = Null, !.last = Null,
                                      !.at = Version]
  <2>1. new \in Server
    BY <1>1, ServerSet
  <2>2. KeyFits(new)
    BY <1>1 DEF KeyFits, Server
  <2> QED
    BY <1>3, <1>10, <2>1, <2>2 DEF NoKey
<1>11. [server[s] EXCEPT !.pc = "measure"] \in Server
       /\ KeyFits([server[s] EXCEPT !.pc = "measure"])
  <2>1. [server[s] EXCEPT !.pc = "measure"] \in Server
    BY <1>1, ServerSet
  <2> QED
    BY <1>1, <2>1 DEF KeyFits, Server
<1>12. CASE ReadSnapshot(s)
  <2>1. CASE snapshot # Null /\ snapshot.key = server[s].key
    <3>1. snapshot.profile \in Profile
      BY <2>1 DEF Typed, Snapshot
    <3>2. Become(s, Profiled(s, "check", snapshot.profile))
      BY <1>12, <2>1 DEF ReadSnapshot
    <3> QED
      BY <1>3, <1>6, <1>12, <3>1, <3>2 DEF ReadSnapshot
  <2>2. CASE ~(snapshot # Null /\ snapshot.key = server[s].key)
    <3>1. Become(s, [server[s] EXCEPT !.pc = "measure"])
      BY <1>12, <2>2 DEF ReadSnapshot
    <3> QED
      BY <1>3, <1>11, <1>12, <3>1 DEF ReadSnapshot
  <2> QED
    BY <2>1, <2>2
<1>13. CASE Unreadable(s)
  BY <1>3, <1>11, <1>13 DEF Unreadable
<1>14. ASSUME NEW p \in ServerPCs, NEW q \in Profile,
              p \in {"read", "write"} => server[s].key # Null
       PROVE  LET new == [server[s] EXCEPT !.pc = p, !.profile = q]
              IN  new \in Server /\ KeyFits(new)
  <2>1. [server[s] EXCEPT !.pc = p, !.profile = q] \in Server
    BY <1>1, ServerSet
  <2> QED
    BY <1>1, <1>14, <2>1 DEF KeyFits, Server
<1>15. CASE MeasureFact(s)
  <2>1. [server[s].profile EXCEPT !.fact = Version] \in Profile
    BY <1>1, <1>4, ProfileSet
  <2> QED
    BY <1>1, <1>3, <1>14, <1>15, <2>1 DEF MeasureFact
<1>16. CASE MeasureDims(s)
  <2> DEFINE profile == [server[s].profile EXCEPT !.dims = Version]
  <2>1. profile \in Profile
    BY <1>1, <1>4, ProfileSet
  <2>2. CASE server[s].key = Null
    <3>1. Become(s, Profiled(s, "check", profile))
      BY <1>16, <2>2 DEF MeasureDims
    <3> QED
      BY <1>3, <1>6, <1>16, <2>1, <3>1 DEF MeasureDims
  <2>3. CASE server[s].key # Null
    <3>1. Become(s, [server[s] EXCEPT !.pc = "write", !.profile = profile])
      BY <1>16, <2>3 DEF MeasureDims
    <3> HIDE DEF profile
    <3>2. LET new == [server[s] EXCEPT !.pc = "write", !.profile = profile]
          IN  new \in Server /\ KeyFits(new)
      BY <1>1, <1>14, <2>1, <2>3
    <3> QED
      BY <1>3, <1>16, <3>1, <3>2 DEF MeasureDims
  <2> QED
    BY <2>2, <2>3
<1>17. CASE WriteSnapshot(s)
  <2>1. server[s].key \in Key /\ server[s].at \in Nat
    BY <1>1, <1>4, <1>17 DEF WriteSnapshot, Keyed, Server
  <2>2. snapshot' \in Snapshot
    BY <1>4, <1>17, <2>1 DEF WriteSnapshot, KeyWritten, Snapshot
  <2>3. /\ Become(s, Profiled(s, "check", server[s].profile))
        /\ UNCHANGED <<gold, derived, audit, load, refresher>>
    BY <1>17 DEF WriteSnapshot
  <2> QED
    BY <1>2, <1>4, <1>6, <2>2, <2>3, BecomeTInv
<1>18. CASE Unwritten(s)
  BY <1>3, <1>4, <1>6, <1>18 DEF Unwritten
<1>19. CASE CheckFact(s)
  <2>1. [server[s] EXCEPT !.pc = "check_first", !.ends = Last(facts[Version])] \in Server
    BY <1>1, DateTyped, ServerSet
  <2>2. KeyFits([server[s] EXCEPT !.pc = "check_first", !.ends = Last(facts[Version])])
    BY <1>1 DEF KeyFits, Server
  <2> QED
    BY <1>3, <1>19, <2>1, <2>2 DEF CheckFact
<1>20. CASE CheckFirst(s)
  <2> DEFINE stale == Disagrees(s, CheckOrder[1])
             new == [server[s] EXCEPT !.pc = "check_second", !.stale = stale]
  <2>1. stale \in BOOLEAN
    BY DEF Disagrees
  <2>2. new \in Server
    <3> HIDE DEF stale
    <3> QED
      BY <1>1, <2>1, ServerSet
  <2>3. KeyFits(new)
    BY <1>1 DEF KeyFits, Server
  <2> QED
    BY <1>3, <1>20, <2>2, <2>3 DEF CheckFirst
<1>21. CASE CheckSecond(s)
  BY <1>3, <1>4, <1>5, <1>6, <1>21 DEF CheckSecond
<1>22. CASE StartFails(s)
  BY <1>3, <1>5, <1>22 DEF StartFails
<1> QED
  BY <1>7, <1>8, <1>9, <1>10, <1>12, <1>13, <1>15, <1>16, <1>17, <1>18, <1>19, <1>20, <1>21, <1>22
     DEF ServerStep

\* db-drop and db-init.
LEMMA DbTInv ==
  ASSUME TInv, DbDrop \/ DbInit
  PROVE  TInv'
<1> USE DEF TInv, TypeOK
<1>1. CASE DbDrop
  <2>1. facts' \in Seq(SUBSET Days) /\ Version' = Version + 1 /\ Version \in Nat
    <3>1. {} \in SUBSET Days /\ facts' = Append(facts, {})
      BY <1>1 DEF DbDrop
    <3> QED
      BY <3>1, Grown
  <2>2. there' \in BOOLEAN /\ unlogged' \in BOOLEAN
    BY <1>1 DEF DbDrop
  <2>3. rollup' \in [Rollups -> Nat] /\ promised' \in Nat
    BY <1>1 DEF DbDrop
  <2>4. snapshot' \in Snapshot \cup {Null}
    BY <1>1 DEF DbDrop
  <2>5. Typed'
    BY <1>1, <2>1, <2>2, <2>3, <2>4, CommandTyped DEF DbDrop, Typed, audit
  <2>6. BuiltInPast' /\ Keyed'
    BY <1>1, <2>1 DEF DbDrop, BuiltInPast, Keyed, Typed, Refresher, Rollups
  <2>7. OfThePast'
    BY <1>1, <2>1 DEF DbDrop, OfThePast, audit
  <2> QED
    BY <2>5, <2>6, <2>7
<1>2. CASE DbInit
  <2>1. there' \in BOOLEAN /\ unlogged' \in BOOLEAN
    BY <1>2 DEF DbInit, Typed
  <2>2. Typed'
    BY <1>2, <2>1, CommandTyped DEF DbInit, Typed, Version, derived, audit
  <2>3. OfThePast' /\ BuiltInPast' /\ Keyed'
    BY <1>2 DEF DbInit, OfThePast, BuiltInPast, Keyed, Version, derived, audit
  <2> QED
    BY <2>2, <2>3
<1> QED
  BY <1>1, <1>2

\* Every step keeps the types.
LEMMA NextTInv == TInv /\ [Next]_vars => TInv'
<1> SUFFICES ASSUME TInv, [Next]_vars PROVE TInv'
  OBVIOUS
<1>1. CASE UNCHANGED vars
  <2>1. there' \in BOOLEAN /\ unlogged' \in BOOLEAN
    BY <1>1 DEF TInv, TypeOK, Typed, vars
  <2>2. Typed'
    BY <1>1, <2>1 DEF TInv, TypeOK, Typed, Version, vars
  <2>3. OfThePast' /\ BuiltInPast' /\ Keyed'
    BY <1>1 DEF TInv, TypeOK, OfThePast, BuiltInPast, Keyed, Version, vars
  <2> QED
    BY <2>2, <2>3 DEF TInv, TypeOK
<1>2. CASE Next
  BY <1>2, LoadTInv, RefreshTInv, ServerTInv, DbTInv DEF Next
<1> QED
  BY <1>1, <1>2

\* The types hold whatever loads, rebuilds, pipelines, db-drop and db-init interleave:
\* no rollup is of a version to come, no key names a load run to come.
THEOREM TypeCorrect == Spec => []TypeOK
<1>1. TInv => TypeOK
  BY DEF TInv
<1> QED
  BY <1>1, InitTInv, NextTInv, PTL DEF Spec

-----------------------------------------------------------------------------
(* Rebuilds never go back                                                  *)

\* Past its first rollup, or in it, a rebuild keeps that rollup to itself.
InFirst(r) == refresher[r].pc = "fill" \/ (refresher[r].pc # "idle" /\ refresher[r].at = 2)

Alone == \A q, r \in Refreshers : InFirst(q) /\ InFirst(r) => q = r

\* What a rebuild will leave is not older than what is promised, nor than its start.
NotBehind ==
    /\ promised <= Version
    /\ \A r \in Refreshers :
          /\ refresher[r].from <= Version
          /\ refresher[r].pc # "idle" /\ refresher[r].at = 2 =>
                /\ promised <= refresher[r].built["station"]
                /\ refresher[r].from <= refresher[r].built["station"]

PInv == PromisedKept /\ Alone /\ NotBehind

\* Nothing has been promised.
LEMMA InitPInv == Init => PInv
  BY DEF Init, PInv, PromisedKept, Alone, NotBehind, InFirst, NoRefresh, Rollups, Version

\* A rebuild is in the first rollup exactly while it rebuilds it.
LEMMA HoldsFirst ==
  ASSUME TypeOK, NEW r \in Refreshers
  PROVE  Rebuilds(r, "station") <=> InFirst(r)
<1>1. refresher[r].at \in 1..2 /\ refresher[r].pc \in {"idle", "activity", "truncate", "fill"}
  BY DEF TypeOK, Typed, Refresher
<1>2. RefreshOrder[1] = "station" /\ RefreshOrder[2] # "station"
  BY DEF RefreshOrder
<1> QED
  BY <1>1, <1>2 DEF Rebuilds, InFirst

\* What leaves the rebuilds alone, and the rollups too or empties them.
LEMMA OthersPInv ==
  ASSUME TInv, PInv, UNCHANGED refresher, Version' \in Nat, Version' >= Version,
         \/ UNCHANGED derived
         \/ rollup' = [t \in Rollups |-> 0] /\ promised' = 0
  PROVE  PInv'
<1>1. Alone'
  BY DEF PInv, Alone, InFirst
<1>2. /\ Version \in Nat /\ promised \in Nat
      /\ \A r \in Refreshers : refresher[r].from \in Nat /\ refresher[r].built["station"] \in Nat
  BY VersionIsNat DEF TInv, TypeOK, Typed, Refresher, Rollups
<1>3. NotBehind'
  BY <1>2 DEF PInv, NotBehind, derived
<1>4. PromisedKept'
  BY DEF PInv, PromisedKept, derived, Rollups
<1> QED
  BY <1>1, <1>3, <1>4 DEF PInv

\* Deriving the activity makes one more version of Gold.
LEMMA ActivityFrame ==
  ASSUME TInv, NEW r \in Refreshers, DeriveActivity(r)
  PROVE  Version \in Nat /\ Version' = Version + 1
<1>1. facts[Version] \in SUBSET Days /\ facts' = Append(facts, facts[Version])
  BY DEF DeriveActivity, Version, TInv, TypeOK, Typed
<1> QED
  BY <1>1, Grown DEF TInv, TypeOK

\* The steps of a rebuild keep the promise.
LEMMA RefreshPInv ==
  ASSUME TInv, PInv, NEW r \in Refreshers,
         BeginRefresh(r) \/ BeginFinalize(r) \/ RefreshStep(r) \/ RefreshStops(r)
  PROVE  PInv'
<1>1. /\ Version \in Nat /\ promised \in Nat
      /\ \A q \in Refreshers : /\ refresher[q].from \in Nat
                               /\ refresher[q].built["station"] \in Nat
                               /\ refresher[q].at \in 1..2
      /\ refresher \in [Refreshers -> Refresher]
  BY VersionIsNat DEF TInv, TypeOK, Typed, Refresher, Rollups
<1>2. CASE BeginRefresh(r)
  <2>1. Version' = Version /\ UNCHANGED <<rollup, promised>>
    BY <1>2 DEF BeginRefresh, gold, derived, Version
  <2>2. refresher' = [refresher EXCEPT ![r] = [NoRefresh EXCEPT !.pc = "truncate",
                                                               !.from = Version]]
    BY <1>2 DEF BeginRefresh
  <2>3. Alone'
    BY <1>1, <2>2 DEF PInv, Alone, InFirst, NoRefresh
  <2>4. NotBehind'
    BY <1>1, <2>1, <2>2 DEF PInv, NotBehind, NoRefresh
  <2> QED
    BY <2>1, <2>3, <2>4 DEF PInv, PromisedKept
<1>3. CASE Truncate(r)
  <2>1. Version' = Version /\ UNCHANGED <<rollup, promised>>
    BY <1>3 DEF Truncate, gold, derived, Version
  <2>2. refresher' = [refresher EXCEPT ![r] = [@ EXCEPT !.pc = "fill"]]
    BY <1>3 DEF Truncate
  <2>3. Alone'
    <3>1. CASE refresher[r].at = 2
      <4>1. \A q \in Refreshers : InFirst(q)' => InFirst(q)
        BY <1>1, <1>3, <2>2, <3>1 DEF InFirst, Truncate, Refresher
      <4> QED
        BY <4>1 DEF PInv, Alone
    <3>2. CASE refresher[r].at = 1
      <4>1. \A q \in Refreshers \ {r} : ~InFirst(q)
        BY <1>3, <3>2, HoldsFirst DEF Truncate, Free, RefreshOrder, TInv
      <4>2. \A q \in Refreshers \ {r} : ~InFirst(q)'
        BY <1>1, <2>2, <4>1 DEF InFirst
      <4> QED
        BY <4>2 DEF Alone
    <3> QED
      BY <1>1, <3>1, <3>2
  <2>4. NotBehind'
    BY <1>1, <1>3, <2>1, <2>2 DEF PInv, NotBehind, Refresher, Truncate
  <2> QED
    BY <2>1, <2>3, <2>4 DEF PInv, PromisedKept
<1>4. CASE FillFirst(r)
  <2>1. Version' = Version /\ UNCHANGED <<rollup, promised>>
    BY <1>4 DEF FillFirst, gold, derived, Version
  <2> DEFINE built == [refresher[r].built EXCEPT !["station"] = Version]
  <2>2. refresher' =
          [refresher EXCEPT ![r] = [@ EXCEPT !.pc = "truncate", !.at = 2, !.built = built]]
    BY <1>4 DEF FillFirst, RefreshOrder
  <2>3. built["station"] = Version
    BY <1>1 DEF Refresher, Rollups
  <2> HIDE DEF built
  <2>4. /\ refresher'[r].built = built
        /\ refresher'[r].from = refresher[r].from
        /\ \A q \in Refreshers \ {r} : refresher'[q] = refresher[q]
    BY <1>1, <2>2 DEF Refresher
  <2>5. Alone'
    <3>1. InFirst(r)
      BY <1>4 DEF FillFirst, InFirst
    <3>2. \A q \in Refreshers : InFirst(q)' => InFirst(q)
      BY <2>4, <3>1 DEF InFirst
    <3> QED
      BY <3>2 DEF PInv, Alone
  <2>6. NotBehind'
    BY <1>1, <2>1, <2>3, <2>4 DEF PInv, NotBehind
  <2> QED
    BY <2>1, <2>5, <2>6 DEF PInv, PromisedKept
<1>5. CASE FillLast(r)
  <2>1. /\ Version' = Version
        /\ refresher' = [refresher EXCEPT ![r] = NoRefresh]
        /\ refresher[r].pc = "fill" /\ refresher[r].at = 2
        /\ promised' = Later(promised, refresher[r].from)
        /\ rollup' = [refresher[r].built EXCEPT !["relation"] = Version]
    BY <1>5 DEF FillLast, gold, Version, RefreshOrder
  <2>2. /\ rollup'["station"] = refresher[r].built["station"]
        /\ rollup'["relation"] = Version
        /\ refresher[r].built["station"] <= Version
    BY <1>1, <2>1 DEF Refresher, Rollups, TInv, BuiltInPast
  <2>3. /\ promised <= refresher[r].built["station"]
        /\ refresher[r].from <= refresher[r].built["station"]
    BY <2>1 DEF PInv, NotBehind
  <2>4. promised' \in Nat /\ promised' <= refresher[r].built["station"]
    BY <1>1, <2>1, <2>3 DEF Later
  <2>5. PromisedKept'
    BY <1>1, <2>2, <2>4 DEF PromisedKept
  <2>6. \A q \in Refreshers \ {r} : ~InFirst(q)
    BY <2>1 DEF PInv, Alone, InFirst
  <2>7. \A q \in Refreshers : ~InFirst(q)'
    BY <1>1, <2>1, <2>6 DEF InFirst, NoRefresh
  <2>8. NotBehind'
    <3>1. promised' <= Version'
      BY <1>1, <2>1, <2>2, <2>4
    <3>2. \A q \in Refreshers : refresher'[q].from <= Version'
      BY <1>1, <2>1 DEF PInv, NotBehind, NoRefresh
    <3> QED
      BY <2>7, <3>1, <3>2 DEF NotBehind, InFirst
  <2> QED
    BY <2>5, <2>7, <2>8 DEF PInv, Alone
<1>6. CASE RefreshFails(r) \/ RefreshStops(r)
  <2>1. Version' = Version /\ UNCHANGED <<rollup, promised>>
    BY <1>6 DEF RefreshFails, RefreshStops, RolledBack, gold, derived, Version
  <2>2. refresher' = [refresher EXCEPT ![r] = NoRefresh]
    BY <1>6 DEF RefreshFails, RefreshStops, RolledBack
  <2>3. Alone'
    BY <1>1, <2>2 DEF PInv, Alone, InFirst, NoRefresh
  <2>4. NotBehind'
    BY <1>1, <2>1, <2>2 DEF PInv, NotBehind, NoRefresh
  <2> QED
    BY <2>1, <2>3, <2>4 DEF PInv, PromisedKept
<1>7. CASE BeginFinalize(r)
  <2>1. Version' = Version /\ UNCHANGED <<rollup, promised>>
    BY <1>7 DEF BeginFinalize, gold, derived, Version
  <2>2. refresher' = [refresher EXCEPT ![r] = [NoRefresh EXCEPT !.pc = "activity"]]
    BY <1>7 DEF BeginFinalize
  <2>3. Alone'
    BY <1>1, <2>2 DEF PInv, Alone, InFirst, NoRefresh
  <2>4. NotBehind'
    BY <1>1, <2>1, <2>2 DEF PInv, NotBehind, NoRefresh
  <2> QED
    BY <2>1, <2>3, <2>4 DEF PInv, PromisedKept
<1>8. CASE DeriveActivity(r)
  <2>1. Version' = Version + 1 /\ UNCHANGED <<rollup, promised>>
    BY <1>8, ActivityFrame DEF DeriveActivity, derived
  <2>2. refresher' = [refresher EXCEPT ![r] = [NoRefresh EXCEPT !.pc = "truncate",
                                                               !.from = Version + 1]]
    BY <1>8 DEF DeriveActivity
  <2>3. Alone'
    BY <1>1, <2>2 DEF PInv, Alone, InFirst, NoRefresh
  <2>4. NotBehind'
    BY <1>1, <2>1, <2>2 DEF PInv, NotBehind, NoRefresh
  <2> QED
    BY <2>1, <2>3, <2>4 DEF PInv, PromisedKept
<1> QED
  BY <1>2, <1>3, <1>4, <1>5, <1>6, <1>7, <1>8 DEF RefreshStep

\* A load touches no rollup, no snapshot and no pipeline.
LEMMA LoadFrame ==
  ASSUME TInv, NEW l \in Loads, TakeId(l) \/ LoadStep(l)
  PROVE  /\ UNCHANGED <<derived, snapshot, refresher, server>>
         /\ Version \in Nat /\ Version' \in Nat /\ Version' >= Version
<1>1. UNCHANGED <<derived, snapshot, refresher, server>>
  BY DEF LoadStep, TakeId, OpenRun, Land, LoadFails, BeginClose, Close, Vanish
<1>2. Version \in Nat
  BY VersionIsNat DEF TInv, TypeOK
<1>3. CASE \E w \in Landings : Land(l, w)
  <2>1. PICK w \in Landings : Land(l, w)
    BY <1>3
  <2>2. (facts[Version] \ w.window) \cup w.days \in SUBSET Days
    BY ServeAssumption DEF Version, Typed, TInv, TypeOK
  <2>3. Version' = Version + 1
    BY <2>1, <2>2, Grown DEF Land, TInv, TypeOK
  <2> QED
    BY <1>1, <1>2, <2>3
<1>4. CASE ~\E w \in Landings : Land(l, w)
  <2>1. facts' = facts
    BY <1>4 DEF LoadStep, TakeId, OpenRun, LoadFails, BeginClose, Close, Vanish, gold
  <2> QED
    BY <1>1, <1>2, <2>1 DEF Version
<1> QED
  BY <1>3, <1>4

\* db-drop makes one more version of Gold.
LEMMA DropFrame ==
  ASSUME TInv, DbDrop
  PROVE  Version \in Nat /\ Version' = Version + 1
<1>1. {} \in SUBSET Days /\ facts' = Append(facts, {})
  BY DEF DbDrop
<1> QED
  BY <1>1, Grown DEF TInv, TypeOK

\* A pipeline touches nothing of Gold.
LEMMA ServerFrame ==
  ASSUME NEW s \in Servers, Start(s) \/ ServerStep(s)
  PROVE  UNCHANGED <<gold, derived, audit, load, refresher>>
  BY DEF Start, ServerStep, KeyDates, KeyRuns, NoKey, ReadSnapshot, Unreadable, MeasureFact,
     MeasureDims, WriteSnapshot, Unwritten, CheckFact, CheckFirst, CheckSecond, StartFails, Serving

\* Every step keeps the promise.
LEMMA NextPInv == TInv /\ PInv /\ [Next]_vars => PInv'
<1> SUFFICES ASSUME TInv, PInv, [Next]_vars PROVE PInv'
  OBVIOUS
<1>0. Version \in Nat
  BY VersionIsNat DEF TInv, TypeOK
<1>1. ASSUME NEW l \in Loads, TakeId(l) \/ LoadStep(l) PROVE PInv'
  BY <1>1, LoadFrame, OthersPInv
<1>2. ASSUME NEW r \in Refreshers,
         BeginRefresh(r) \/ BeginFinalize(r) \/ RefreshStep(r) \/ RefreshStops(r)
      PROVE  PInv'
  BY <1>2, RefreshPInv
<1>3. ASSUME NEW s \in Servers, Start(s) \/ ServerStep(s) PROVE PInv'
  <2>1. UNCHANGED <<derived, refresher>> /\ Version' = Version
    BY <1>3, ServerFrame DEF gold, Version
  <2> QED
    BY <1>0, <2>1, OthersPInv
<1>4. CASE DbDrop
  <2>1. /\ UNCHANGED refresher
        /\ rollup' = [t \in Rollups |-> 0] /\ promised' = 0
    BY <1>4 DEF DbDrop
  <2>2. Version' \in Nat /\ Version' >= Version
    BY <1>4, DropFrame
  <2> QED
    BY <2>1, <2>2, OthersPInv
<1>5. CASE DbInit \/ UNCHANGED vars
  <2>1. UNCHANGED <<derived, refresher>> /\ Version' = Version
    BY <1>5 DEF DbInit, Version, vars, derived
  <2> QED
    BY <1>0, <2>1, OthersPInv
<1> QED
  BY <1>1, <1>2, <1>3, <1>4, <1>5 DEF Next

\* Any number of rebuilds against any loads: after a successful one neither rollup is
\* older than Gold was when it began, and the station rollup is not newer than the
\* relation rollup (refresh_rollups; TRUNCATE is what keeps a slower rebuild out).
THEOREM RollupsKeepPromise == Spec => []PromisedKept
<1>1. PInv => PromisedKept
  BY DEF PInv
<1> QED
  BY <1>1, InitTInv, NextTInv, InitPInv, NextPInv, PTL DEF Spec

-----------------------------------------------------------------------------
(* A profile served under a logged key is recent                           *)

\* Whoever reads this key next will find that load_runs moves on.
Unshown(k) ==
    \/ unlogged
    \/ \E l \in Loads : /\ load[l].landed # 0
                        /\ load[l].pc = "closing" => load[l].stamp > k.runs.finished

\* A key read at a version: if Gold has changed since, load_runs has, or will have.
Dated(k, at) ==
    /\ at <= Version
    /\ k.runs.id <= runs.id /\ k.runs.finished <= runs.finished
    /\ at < Version /\ k.runs = runs => Unshown(k)

Good(x) ==
    /\ x.since <= Version
    /\ x.key # Null => /\ Dated(x.key, x.at)
                       /\ x.pc \in {"read", "measure", "measure_dims", "write"}
    /\ x.pc \in {"read", "measure", "measure_dims", "write"} =>
          x.since <= x.at /\ x.at <= Version
    /\ x.pc \in {"measure_dims", "write"} => x.at <= x.profile.fact
    /\ x.pc = "write" => x.at <= x.profile.dims
    /\ x.pc \in {"check", "check_first", "check_second", "on"} /\ x.logged =>
          x.since <= x.profile.fact /\ x.since <= x.profile.dims

Stored ==
    snapshot # Null => /\ Dated(snapshot.key, snapshot.at)
                       /\ snapshot.at <= snapshot.profile.fact
                       /\ snapshot.at <= snapshot.profile.dims

\* A key with the runs of a logged one was not read before that pipeline started.
Follows(k, at, x) == k.runs = x.key.runs /\ x.key # Null /\ x.logged => x.since <= at

Paired ==
    \A s \in Servers :
        /\ \A q \in Servers :
              server[q].key # Null => Follows(server[q].key, server[q].at, server[s])
        /\ snapshot # Null => Follows(snapshot.key, snapshot.at, server[s])

RInv == (\A s \in Servers : Good(server[s])) /\ Stored /\ Paired

\* There is no snapshot yet.
LEMMA InitRInv == Init => RInv
<1> SUFFICES ASSUME Init PROVE RInv
  OBVIOUS
<1>1. Version = 1 /\ snapshot = Null
  BY DEF Init, Version
<1>2. \A s \in Servers : server[s] = NoServer
  BY DEF Init
<1>3. NoServer.key = Null /\ NoServer.pc = "off" /\ NoServer.since = 0
  BY DEF NoServer
<1>4. Good(NoServer)
  BY <1>1, <1>3 DEF Good
<1> QED
  BY <1>1, <1>2, <1>3, <1>4 DEF RInv, Stored, Paired

\* A load that lands is Unshown until it closes; what it closes is another key's.
LEMMA DatedKept ==
  ASSUME TInv, NEW l \in Loads, TakeId(l) \/ LoadStep(l),
         NEW k \in Key, NEW at \in Nat, Dated(k, at)
  PROVE  Dated(k, at)'
<1>1. /\ Version \in Nat /\ Version' \in Nat /\ Version <= Version'
  BY LoadFrame
<1>2. /\ load \in [Loads -> Load] /\ load[l] \in Load
      /\ runs \in Runs /\ k.runs \in Runs /\ now \in Nat
      /\ runs.id \in Nat /\ runs.finished \in Nat
      /\ k.runs.id \in Nat /\ k.runs.finished \in Nat
      /\ runs.finished <= now /\ load[l].stamp \in Nat
  BY DEF TInv, TypeOK, Typed, OfThePast, Runs, Key, Load
<1>3. CASE OpenRun(l)
  <2>1. /\ facts' = facts /\ runs'.finished = runs.finished
        /\ runs'.id = Later(runs.id, load[l].id) /\ load[l].id \in Nat
        /\ load' = [load EXCEPT ![l].pc = "loading", ![l].id = 0]
        /\ load[l].pc = "opening"
        /\ unlogged' = (unlogged /\ load[l].id <= runs.id)
    BY <1>2, <1>3 DEF OpenRun, Runs, Load
  <2>2. CASE load[l].id <= runs.id
    <3>1. runs' = runs /\ unlogged' = unlogged
      <4>1. Later(runs.id, load[l].id) = runs.id
        BY <1>2, <2>1, <2>2 DEF Later
      <4>2. runs' = runs
        BY <1>2, <1>3, <4>1 DEF OpenRun, Runs
      <4>3. unlogged \in BOOLEAN
        BY DEF TInv, TypeOK, Typed
      <4> QED
        BY <2>1, <2>2, <4>2, <4>3
    <3>2. Unshown(k) => Unshown(k)'
      BY <1>2, <2>1, <3>1 DEF Unshown, Load
    <3> QED
      BY <2>1, <3>1, <3>2 DEF Dated, Version
  <2>3. CASE ~(load[l].id <= runs.id)
    <3>1. runs'.id > runs.id
      BY <1>2, <2>1, <2>3 DEF Later
    <3>2. k.runs # runs'
      BY <1>2, <3>1 DEF Dated
    <3> QED
      BY <1>2, <2>1, <3>1, <3>2 DEF Dated, Version, Later
  <2> QED
    BY <2>2, <2>3
<1>9. CASE TakeId(l)
  <2>1. /\ load' = [load EXCEPT ![l].pc = "opening", ![l].id = sequence + 1]
        /\ UNCHANGED <<facts, unlogged, runs>> /\ load[l].pc = "idle"
    BY <1>9 DEF TakeId, gold
  <2>2. Unshown(k) => Unshown(k)'
    BY <1>2, <2>1 DEF Unshown, Load
  <2> QED
    BY <2>1, <2>2 DEF Dated, Version
<1>4. ASSUME NEW w \in Landings, Land(l, w) PROVE Dated(k, at)'
  <2>1. load'[l].landed = Version + 1 /\ load'[l].pc = "ended" /\ UNCHANGED runs
    BY <1>2, <1>4 DEF Land, Load, audit
  <2>2. Unshown(k)'
    BY <1>1, <2>1 DEF Unshown
  <2> QED
    BY <1>1, <2>1, <2>2 DEF Dated
<1>5. CASE LoadFails(l)
  <2>1. /\ load' = [load EXCEPT ![l].pc = "ended"]
        /\ UNCHANGED <<facts, unlogged, runs>>
    BY <1>5 DEF LoadFails, gold, audit
  <2>2. Unshown(k) => Unshown(k)'
    BY <1>2, <2>1 DEF Unshown, Load
  <2> QED
    BY <2>1, <2>2 DEF Dated, Version
<1>6. CASE BeginClose(l)
  <2>1. /\ load' = [load EXCEPT ![l].pc = "closing", ![l].stamp = now + 1]
        /\ UNCHANGED <<facts, unlogged, runs>>
    BY <1>6 DEF BeginClose, gold
  <2>2. now + 1 > k.runs.finished
    BY <1>2 DEF Dated
  <2>3. Unshown(k) => Unshown(k)'
    BY <1>2, <2>1, <2>2 DEF Unshown, Load
  <2> QED
    BY <2>1, <2>3 DEF Dated, Version
<1>7. CASE Close(l)
  <2>1. /\ load' = [load EXCEPT ![l] = NoLoad]
        /\ runs'.id = runs.id
        /\ runs'.finished = Later(runs.finished, load[l].stamp)
        /\ load[l].pc = "closing"
        /\ UNCHANGED <<facts, unlogged>>
    BY <1>2, <1>7 DEF Close, gold, Runs
  <2>2. runs'.finished >= runs.finished /\ runs'.finished >= load[l].stamp
        /\ runs'.finished \in Nat
    BY <1>2, <2>1 DEF Later
  <2>3. ASSUME k.runs = runs', at < Version PROVE Unshown(k)'
    <3>1. k.runs.id = runs.id /\ k.runs.finished = runs.finished
      BY <1>2, <2>1, <2>2, <2>3 DEF Dated
    <3>2. k.runs = runs
      BY <1>2, <3>1 DEF Runs
    <3>3. Unshown(k)
      BY <2>3, <3>2 DEF Dated
    <3>4. load[l].stamp <= k.runs.finished
      BY <1>2, <2>2, <2>3
    <3>5. CASE unlogged
      BY <2>1, <3>5 DEF Unshown
    <3>6. CASE ~unlogged
      <4>1. PICK m \in Loads : /\ load[m].landed # 0
                               /\ load[m].pc = "closing" => load[m].stamp > k.runs.finished
        BY <3>3, <3>6 DEF Unshown
      <4>2. m # l
        BY <1>2, <2>1, <3>4, <4>1
      <4>3. load'[m] = load[m]
        BY <1>2, <2>1, <4>2
      <4> QED
        BY <4>1, <4>3 DEF Unshown
    <3> QED
      BY <3>5, <3>6
  <2> QED
    BY <1>2, <2>1, <2>2, <2>3 DEF Dated, Version
<1>8. CASE Vanish(l)
  <2>1. /\ load' = [load EXCEPT ![l] = NoLoad]
        /\ unlogged' = (unlogged \/ load[l].landed # 0)
        /\ UNCHANGED <<facts, runs>>
    BY <1>8 DEF Vanish, audit
  <2>2. ASSUME Unshown(k) PROVE Unshown(k)'
    <3>1. CASE unlogged \/ load[l].landed # 0
      BY <2>1, <3>1 DEF Unshown
    <3>2. CASE ~(unlogged \/ load[l].landed # 0)
      <4>1. PICK m \in Loads : /\ load[m].landed # 0
                               /\ load[m].pc = "closing" => load[m].stamp > k.runs.finished
        BY <2>2, <3>2 DEF Unshown
      <4>2. load'[m] = load[m]
        BY <1>2, <2>1, <3>2, <4>1
      <4> QED
        BY <4>1, <4>2 DEF Unshown
    <3> QED
      BY <3>1, <3>2
  <2> QED
    BY <2>1, <2>2 DEF Dated, Version
<1> QED
  BY <1>3, <1>4, <1>5, <1>6, <1>7, <1>8, <1>9 DEF LoadStep

\* What the pipelines and the snapshot hold is typed.
LEMMA Holders ==
  ASSUME TInv
  PROVE  /\ Version \in Nat
         /\ \A s \in Servers :
               /\ server[s] \in Server /\ server[s].at \in Nat /\ server[s].since \in Nat
               /\ server[s].profile.fact \in Nat /\ server[s].profile.dims \in Nat
               /\ server[s].key # Null => server[s].key \in Key
         /\ snapshot # Null => /\ snapshot.key \in Key /\ snapshot.at \in Nat
                               /\ snapshot.profile \in Profile
                               /\ snapshot.profile.fact \in Nat /\ snapshot.profile.dims \in Nat
<1>1. \A s \in Servers : server[s] \in Server
  BY DEF TInv, TypeOK, Typed
<1>2. snapshot # Null => snapshot \in Snapshot
  BY DEF TInv, TypeOK, Typed
<1> QED
  BY <1>1, <1>2, VersionIsNat DEF TInv, TypeOK, Server, Profile, Snapshot

\* Steps of others leave the keys dated, and a snapshot may only go.
LEMMA OthersRInv ==
  ASSUME TInv, RInv, UNCHANGED server, snapshot' = snapshot \/ snapshot' = Null,
         Version' \in Nat, Version <= Version',
         \A k \in Key, at \in Nat : Dated(k, at) => Dated(k, at)'
  PROVE  RInv'
<1>1. \A s \in Servers : Good(server[s])'
  <2> SUFFICES ASSUME NEW s \in Servers PROVE Good(server[s])'
    OBVIOUS
  <2>1. Good(server[s]) /\ server'[s] = server[s]
    BY DEF RInv
  <2>2. server[s].key # Null => Dated(server[s].key, server[s].at)'
    BY <2>1, Holders DEF Good
  <2> QED
    BY <2>1, <2>2, Holders DEF Good
<1>2. Stored'
  <2>1. CASE snapshot' = Null
    BY <2>1 DEF Stored
  <2>2. CASE snapshot # Null /\ snapshot' = snapshot
    <3>1. Dated(snapshot.key, snapshot.at)'
      BY <2>2, Holders DEF RInv, Stored
    <3> QED
      BY <2>2, <3>1 DEF RInv, Stored
  <2> QED
    BY <2>1, <2>2
<1>3. Paired'
  BY DEF RInv, Paired, Follows
<1> QED
  BY <1>1, <1>2, <1>3 DEF RInv

\* What a pipeline's step leaves alone.
LEMMA GoodKept ==
  ASSUME NEW s \in Servers, UNCHANGED <<gold, audit, load>>
  PROVE  /\ Version' = Version
         /\ \A x \in Server : Good(x) => Good(x)'
         /\ \A k \in Key, at \in Nat : Dated(k, at) => Dated(k, at)'
<1>1. Version' = Version /\ UNCHANGED <<runs, load, unlogged>>
  BY DEF gold, audit, Version
<1>2. \A k, at : Dated(k, at)' <=> Dated(k, at)
  BY <1>1 DEF Dated, Unshown
<1> QED
  BY <1>1, <1>2 DEF Good

\* A step of a pipeline that keeps its key, or drops it.
LEMMA BecomeRInv ==
  ASSUME TInv, RInv, NEW s \in Servers, NEW new \in Server, Become(s, new), Good(new),
         UNCHANGED <<gold, audit, load, snapshot>>,
         \/ new.key = Null
         \/ /\ new.key = server[s].key /\ new.at = server[s].at
            /\ new.since = server[s].since /\ new.logged = server[s].logged
  PROVE  RInv'
<1>1. /\ server'[s] = new
      /\ \A q \in Servers \ {s} : server'[q] = server[q]
      /\ \A q \in Servers : server[q] \in Server /\ Good(server[q])
      /\ snapshot' = snapshot
  BY DEF Become, RInv, TInv, TypeOK, Typed
<1>2. \A q \in Servers : Good(server[q])'
  <2> SUFFICES ASSUME NEW q \in Servers PROVE Good(server[q])'
    OBVIOUS
  <2>1. \E x \in Server : server'[q] = x /\ Good(x)
    BY <1>1
  <2>2. PICK x \in Server : server'[q] = x /\ Good(x)
    BY <2>1
  <2>3. Good(x)'
    BY <2>2, GoodKept
  <2> QED
    BY <2>2, <2>3 DEF Good
<1>3. Stored'
  <2>1. snapshot # Null => Dated(snapshot.key, snapshot.at)'
    BY Holders, GoodKept DEF RInv, Stored
  <2> QED
    BY <1>1, <2>1 DEF RInv, Stored
<1>4. Paired'
  BY <1>1 DEF RInv, Paired, Follows
<1> QED
  BY <1>2, <1>3, <1>4 DEF RInv

\* The record of a pipeline whose profile is complete.
LEMMA ProfiledGood ==
  ASSUME NEW s \in Servers, server[s] \in Server, NEW q \in Profile, NEW l \in {"check", "on"},
         server[s].since <= Version,
         server[s].logged => server[s].since <= q.fact /\ server[s].since <= q.dims
  PROVE  Profiled(s, l, q) \in Server /\ Good(Profiled(s, l, q)) /\ Profiled(s, l, q).key = Null
<1>1. l \in ServerPCs
  BY DEF ServerPCs
<1> QED
  BY <1>1, ProfiledTyped DEF Good

\* The key is complete once the runs are read.
LEMMA KeyRunsRInv ==
  ASSUME TInv, RInv, NEW s \in Servers, KeyRuns(s)
  PROVE  RInv'
<1> DEFINE key == [first |-> server[s].first, last |-> server[s].last, runs |-> runs]
           new == [server[s] EXCEPT !.pc = "read", !.first = Null, !.last = Null, !.key = key,
                                    !.at = Version, !.logged = Logged]
<1>1. /\ Become(s, new) /\ snapshot' = snapshot
      /\ UNCHANGED <<gold, audit, load>>
      /\ server[s].pc = "key_runs"
  BY DEF KeyRuns, RunsRead, Serving
<1>2. /\ server[s] \in Server /\ Version \in Nat /\ Good(server[s])
      /\ runs \in Runs /\ runs.id \in Nat /\ runs.finished \in Nat
  BY Holders DEF RInv, TInv, TypeOK, Typed, Runs
<1>3. key \in Key /\ key.runs = runs /\ key # Null /\ Logged \in BOOLEAN
  BY <1>2, ServeAssumption DEF Server, Key, Logged
<1> HIDE DEF key
<1>4. new \in Server
  BY <1>2, <1>3, KeySet
<1>5. /\ new.pc = "read" /\ new.key = key /\ new.at = Version /\ new.logged = Logged
      /\ new.since = server[s].since
  BY <1>2 DEF Server
<1> HIDE DEF new
<1>6. server[s].since <= Version /\ server[s].key = Null
  BY <1>1, <1>2 DEF Good
<1>7. Good(new)
  BY <1>2, <1>3, <1>5, <1>6 DEF Good, Dated
<1>8. /\ server'[s] = new
      /\ \A q \in Servers \ {s} : server'[q] = server[q]
  BY <1>1 DEF Become, TInv, TypeOK, Typed
\* When load_runs shows every change, a key that names the same runs is of this version.
<1>9. ASSUME Logged, NEW k \in Key, NEW at \in Nat, Dated(k, at), k.runs = runs
      PROVE  server[s].since <= at
  <2>1. ~Unshown(k)
    BY <1>9 DEF Logged, Unshown
  <2>2. at = Version
    BY <1>2, <1>9, <2>1 DEF Dated
  <2> QED
    BY <1>6, <2>2
<1>10. \A q \in Servers : Good(server[q])'
  <2> SUFFICES ASSUME NEW q \in Servers PROVE Good(server[q])'
    OBVIOUS
  <2>1. PICK x \in Server : server'[q] = x /\ Good(x)
    BY <1>4, <1>7, <1>8, Holders DEF RInv
  <2>2. Good(x)'
    BY <1>1, <2>1, GoodKept
  <2> QED
    BY <2>1, <2>2 DEF Good
<1>11. Stored'
  <2>1. snapshot # Null => Dated(snapshot.key, snapshot.at)'
    BY <1>1, Holders, GoodKept DEF RInv, Stored
  <2> QED
    BY <1>1, <2>1 DEF RInv, Stored
<1>12. Paired'
  <2>1. \A q \in Servers : server[q].key # Null => Follows(server[q].key, server[q].at, new)
    <3> SUFFICES ASSUME NEW q \in Servers, server[q].key # Null
                 PROVE  Follows(server[q].key, server[q].at, new)
      OBVIOUS
    <3>1. server[q].key \in Key /\ server[q].at \in Nat /\ Dated(server[q].key, server[q].at)
      BY Holders DEF RInv, Good
    <3> QED
      BY <1>3, <1>5, <1>9, <3>1 DEF Follows
  <2>2. snapshot # Null => Follows(snapshot.key, snapshot.at, new)
    <3> SUFFICES ASSUME snapshot # Null PROVE Follows(snapshot.key, snapshot.at, new)
      OBVIOUS
    <3>1. snapshot.key \in Key /\ snapshot.at \in Nat /\ Dated(snapshot.key, snapshot.at)
      BY Holders DEF RInv, Stored
    <3> QED
      BY <1>3, <1>5, <1>9, <3>1 DEF Follows
  <2>3. \A q \in Servers : Follows(new.key, new.at, server[q])
    BY <1>5, Holders DEF RInv, Good, Follows
  <2>4. Follows(new.key, new.at, new)
    BY <1>2, <1>5, <1>6 DEF Follows
  <2>5. \A t \in Servers : \A q \in Servers :
           server'[q].key # Null => Follows(server'[q].key, server'[q].at, server'[t])
    BY <1>8, <2>1, <2>3, <2>4 DEF RInv, Paired
  <2>6. \A t \in Servers : snapshot # Null => Follows(snapshot.key, snapshot.at, server'[t])
    BY <1>8, <2>2 DEF RInv, Paired
  <2> QED
    BY <1>1, <2>5, <2>6 DEF Paired, Follows
<1> QED
  BY <1>10, <1>11, <1>12 DEF RInv

\* A snapshot is written with the key it was measured under.
LEMMA WriteRInv ==
  ASSUME TInv, RInv, NEW s \in Servers, WriteSnapshot(s)
  PROVE  RInv'
<1> DEFINE new == Profiled(s, "check", server[s].profile)
<1>1. /\ Become(s, new) /\ server[s].pc = "write"
      /\ snapshot' = [key |-> server[s].key, profile |-> server[s].profile, at |-> server[s].at]
      /\ UNCHANGED <<gold, audit, load>>
  BY DEF WriteSnapshot, KeyWritten, Serving
<1>2. /\ server[s] \in Server /\ Good(server[s]) /\ server[s].key # Null
      /\ server[s].key \in Key /\ server[s].at \in Nat /\ server[s].profile \in Profile
      /\ server[s].since \in Nat /\ Version \in Nat
      /\ server[s].profile.fact \in Nat /\ server[s].profile.dims \in Nat
  BY <1>1, Holders DEF RInv, TInv, Keyed, Server
<1>3. /\ server[s].at <= server[s].profile.fact /\ server[s].at <= server[s].profile.dims
      /\ server[s].since <= server[s].at /\ server[s].since <= Version
      /\ Dated(server[s].key, server[s].at)
  BY <1>1, <1>2 DEF Good
<1>4. new \in Server /\ Good(new) /\ new.key = Null
  BY <1>2, <1>3, ProfiledGood
<1> HIDE DEF new
<1>5. /\ server'[s] = new
      /\ \A q \in Servers \ {s} : server'[q] = server[q]
  BY <1>1 DEF Become, TInv, TypeOK, Typed
<1>6. \A q \in Servers : Good(server[q])'
  <2> SUFFICES ASSUME NEW q \in Servers PROVE Good(server[q])'
    OBVIOUS
  <2>1. PICK x \in Server : server'[q] = x /\ Good(x)
    BY <1>4, <1>5, Holders DEF RInv
  <2>2. Good(x)'
    BY <1>1, <2>1, GoodKept
  <2> QED
    BY <2>1, <2>2 DEF Good
<1>7. Stored'
  <2>1. PICK k \in Key, at \in Nat : k = server[s].key /\ at = server[s].at
    BY <1>2
  <2>2. /\ snapshot'.key = k /\ snapshot'.at = at
        /\ snapshot'.profile = server[s].profile
    BY <1>1, <2>1
  <2>3. Dated(snapshot.key, snapshot.at)'
    <3>1. Dated(k, at)'
      BY <1>1, <1>3, <2>1, GoodKept
    <3> QED
      BY <2>2, <3>1 DEF Dated, Unshown
  <2> QED
    BY <1>3, <2>1, <2>2, <2>3 DEF Stored
<1>8. Paired'
  <2>1. \A t \in Servers : Follows(server[s].key, server[s].at, server[t])
    BY <1>2 DEF RInv, Paired
  <2>2. snapshot'.key = server[s].key /\ snapshot'.at = server[s].at
    BY <1>1
  <2>3. \A t \in Servers : Follows(snapshot'.key, snapshot'.at, server'[t])
    BY <1>4, <1>5, <2>1, <2>2 DEF Follows
  <2>4. \A t \in Servers : \A q \in Servers :
           server'[q].key # Null => Follows(server'[q].key, server'[q].at, server'[t])
    BY <1>4, <1>5 DEF RInv, Paired, Follows
  <2> QED
    BY <2>3, <2>4 DEF Paired, Follows
<1> QED
  BY <1>6, <1>7, <1>8 DEF RInv

\* The steps of a pipeline keep profiles recent.
LEMMA ServerRInv ==
  ASSUME TInv, RInv, NEW s \in Servers, Start(s) \/ ServerStep(s)
  PROVE  RInv'
<1>1. /\ server[s] \in Server /\ Good(server[s])
      /\ Version \in Nat /\ server[s].at \in Nat /\ server[s].since \in Nat
      /\ server[s].profile \in Profile
      /\ server[s].profile.fact \in Nat /\ server[s].profile.dims \in Nat
  BY Holders DEF RInv, Server
<1>2. UNCHANGED <<gold, audit, load>>
  BY ServerFrame
<1>3. \A p \in {"key", "key_runs", "read", "measure", "measure_dims", "write", "check",
                "check_first", "check_second", "on"} : p \in ServerPCs
  BY DEF ServerPCs
<1>4. NoServer \in Server /\ Good(NoServer) /\ NoServer.key = Null
  <2>1. NoServer.key = Null /\ NoServer.pc = "off" /\ NoServer.since = 0
    BY DEF NoServer
  <2>2. Good(NoServer)
    BY <1>1, <2>1 DEF Good
  <2> QED
    BY <2>1, <2>2, NoServerTyped
<1>5. ASSUME NEW new \in Server, Become(s, new), Good(new), new.key = Null,
             snapshot' = snapshot
      PROVE  RInv'
  BY <1>2, <1>5, BecomeRInv
<1>6. ASSUME NEW new \in Server, Become(s, new), Good(new), snapshot' = snapshot,
             new.key = server[s].key, new.at = server[s].at,
             new.since = server[s].since, new.logged = server[s].logged
      PROVE  RInv'
  BY <1>2, <1>6, BecomeRInv
<1>7. CASE Start(s)
  <2> DEFINE new == [NoServer EXCEPT !.pc = "key", !.since = Version]
  <2>1. new \in Server /\ new.key = Null /\ new.pc = "key"
    BY <1>1, NoServerTyped
  <2>2. new.since = Version
    BY DEF NoServer
  <2>3. Good(new)
    <3> HIDE DEF new
    <3> QED
      BY <1>1, <2>1, <2>2 DEF Good
  <2>4. Become(s, new) /\ snapshot' = snapshot
    BY <1>7 DEF Start
  <2> QED
    BY <1>5, <2>1, <2>3, <2>4
<1>8. CASE KeyDates(s)
  <2> DEFINE new == [server[s] EXCEPT !.pc = "key_runs", !.first = First(facts[Version]),
                                      !.last = Last(facts[Version])]
  <2>1. facts[Version] \in SUBSET Days
    BY DEF Version, TInv, TypeOK, Typed
  <2>2. new \in Server
    BY <1>1, <1>3, <2>1, DateTyped, ServerSet
  <2>3. /\ new.pc = "key_runs" /\ new.key = server[s].key /\ new.since = server[s].since
    BY <1>1 DEF Server
  <2>4. Become(s, new) /\ snapshot' = snapshot /\ server[s].pc = "key"
    BY <1>8 DEF KeyDates
  <2> HIDE DEF new
  <2>5. new.key = Null /\ Good(new)
    BY <1>1, <2>3, <2>4 DEF Good
  <2> QED
    BY <1>5, <2>2, <2>4, <2>5
<1>9. CASE KeyRuns(s)
  BY <1>9, KeyRunsRInv
<1>10. CASE NoKey(s)
  <2> DEFINE new == [server[s] EXCEPT !.pc = "measure", !.first = Null, !.last = Null,
                                      !.at = Version]
  <2>1. new \in Server
    BY <1>1, <1>3, ServerSet
  <2>2. /\ new.pc = "measure" /\ new.key = server[s].key /\ new.since = server[s].since
        /\ new.at = Version
    BY <1>1 DEF Server
  <2>3. Become(s, new) /\ snapshot' = snapshot /\ server[s].pc \in {"key", "key_runs"}
    BY <1>10 DEF NoKey
  <2> HIDE DEF new
  <2>4. new.key = Null /\ Good(new)
    BY <1>1, <2>2, <2>3 DEF Good
  <2> QED
    BY <1>5, <2>1, <2>3, <2>4
<1>11. ASSUME server[s].pc = "read", Become(s, [server[s] EXCEPT !.pc = "measure"]),
              snapshot' = snapshot
       PROVE  RInv'
  <2> DEFINE new == [server[s] EXCEPT !.pc = "measure"]
  <2>1. new \in Server
    BY <1>1, <1>3, ServerSet
  <2>2. /\ new.pc = "measure" /\ new.key = server[s].key /\ new.since = server[s].since
        /\ new.at = server[s].at /\ new.logged = server[s].logged
    BY <1>1 DEF Server
  <2>3. Become(s, new)
    BY <1>11
  <2> HIDE DEF new
  <2>4. Good(new)
    BY <1>1, <1>11, <2>2 DEF Good
  <2> QED
    BY <1>6, <1>11, <2>1, <2>2, <2>3, <2>4
<1>12. ASSUME NEW q \in Profile, NEW l \in {"check", "on"}, Become(s, Profiled(s, l, q)),
              snapshot' = snapshot,
              server[s].logged => server[s].since <= q.fact /\ server[s].since <= q.dims
       PROVE  RInv'
  <2>1. server[s].since <= Version
    BY <1>1 DEF Good
  <2> QED
    BY <1>1, <1>5, <1>12, <2>1, ProfiledGood
<1>13. CASE ReadSnapshot(s)
  <2>1. server[s].pc = "read" /\ snapshot' = snapshot
    BY <1>13 DEF ReadSnapshot
  <2>2. CASE snapshot # Null /\ snapshot.key = server[s].key
    <3>1. Become(s, Profiled(s, "check", snapshot.profile))
      BY <1>13, <2>2 DEF ReadSnapshot
    <3>2. /\ snapshot.profile \in Profile /\ snapshot.at \in Nat
          /\ snapshot.profile.fact \in Nat /\ snapshot.profile.dims \in Nat
          /\ snapshot.at <= snapshot.profile.fact /\ snapshot.at <= snapshot.profile.dims
      BY <2>2, Holders DEF RInv, Stored
    <3>3. server[s].key # Null
      BY <2>1 DEF TInv, Keyed
    <3>4. server[s].logged => server[s].since <= snapshot.at
      BY <2>2, <3>3 DEF RInv, Paired, Follows
    <3>5. server[s].logged => /\ server[s].since <= snapshot.profile.fact
                              /\ server[s].since <= snapshot.profile.dims
      BY <1>1, <3>2, <3>4
    <3> QED
      BY <1>12, <2>1, <3>1, <3>2, <3>5
  <2>3. CASE ~(snapshot # Null /\ snapshot.key = server[s].key)
    <3>1. Become(s, [server[s] EXCEPT !.pc = "measure"])
      BY <1>13, <2>3 DEF ReadSnapshot
    <3> QED
      BY <1>11, <2>1, <3>1
  <2> QED
    BY <2>2, <2>3
<1>14. CASE Unreadable(s)
  BY <1>11, <1>14 DEF Unreadable
<1>15. CASE MeasureFact(s)
  <2> DEFINE profile == [server[s].profile EXCEPT !.fact = Version]
             new == [server[s] EXCEPT !.pc = "measure_dims", !.profile = profile]
  <2>1. profile \in Profile /\ profile.fact = Version
    BY <1>1, ProfileSet DEF Profile
  <2>2. Become(s, new) /\ snapshot' = snapshot /\ server[s].pc = "measure"
    BY <1>15 DEF MeasureFact
  <2> HIDE DEF profile
  <2>3. new \in Server
    BY <1>1, <1>3, <2>1, ServerSet
  <2>4. /\ new.pc = "measure_dims" /\ new.key = server[s].key /\ new.since = server[s].since
        /\ new.at = server[s].at /\ new.logged = server[s].logged /\ new.profile = profile
    BY <1>1 DEF Server
  <2> HIDE DEF new
  <2>5. Good(new)
    BY <1>1, <2>1, <2>2, <2>4 DEF Good
  <2> QED
    BY <1>6, <2>2, <2>3, <2>4, <2>5
<1>16. CASE MeasureDims(s)
  <2> DEFINE profile == [server[s].profile EXCEPT !.dims = Version]
             new == [server[s] EXCEPT !.pc = "write", !.profile = profile]
  <2>1. /\ profile \in Profile /\ profile.dims = Version
        /\ profile.fact = server[s].profile.fact
    BY <1>1, ProfileSet DEF Profile
  <2>2. snapshot' = snapshot /\ server[s].pc = "measure_dims"
    BY <1>16 DEF MeasureDims
  <2>3. /\ server[s].since <= server[s].at /\ server[s].at <= Version
        /\ server[s].at <= server[s].profile.fact
    BY <1>1, <2>2 DEF Good
  <2>4. CASE server[s].key = Null
    <3>1. Become(s, Profiled(s, "check", profile))
      BY <1>16, <2>4 DEF MeasureDims
    <3> HIDE DEF profile
    <3>2. server[s].since <= profile.fact /\ server[s].since <= profile.dims
      BY <1>1, <2>1, <2>3
    <3> QED
      BY <1>12, <2>1, <2>2, <3>1, <3>2
  <2>5. CASE server[s].key # Null
    <3>1. Become(s, new)
      BY <1>16, <2>5 DEF MeasureDims
    <3> HIDE DEF profile
    <3>2. new \in Server
      BY <1>1, <1>3, <2>1, ServerSet
    <3>3. /\ new.pc = "write" /\ new.key = server[s].key /\ new.since = server[s].since
          /\ new.at = server[s].at /\ new.logged = server[s].logged /\ new.profile = profile
      BY <1>1 DEF Server
    <3> HIDE DEF new
    <3>4. Good(new)
      BY <1>1, <2>1, <2>2, <2>3, <3>3 DEF Good
    <3> QED
      BY <1>6, <2>2, <3>1, <3>2, <3>3, <3>4
  <2> QED
    BY <2>4, <2>5
<1>17. CASE WriteSnapshot(s)
  BY <1>17, WriteRInv
<1>18. CASE Unwritten(s)
  <2>1. /\ Become(s, Profiled(s, "check", server[s].profile)) /\ snapshot' = snapshot
        /\ server[s].pc = "write"
    BY <1>18 DEF Unwritten
  <2>2. /\ server[s].since <= server[s].profile.fact
        /\ server[s].since <= server[s].profile.dims
    BY <1>1, <2>1 DEF Good
  <2> QED
    BY <1>1, <1>12, <2>1, <2>2
<1>19. CASE CheckFact(s)
  <2> DEFINE new == [server[s] EXCEPT !.pc = "check_first", !.ends = Last(facts[Version])]
  <2>1. facts[Version] \in SUBSET Days
    BY DEF Version, TInv, TypeOK, Typed
  <2>2. new \in Server
    BY <1>1, <1>3, <2>1, DateTyped, ServerSet
  <2>3. /\ new.pc = "check_first" /\ new.key = server[s].key /\ new.since = server[s].since
        /\ new.logged = server[s].logged /\ new.profile = server[s].profile
    BY <1>1 DEF Server
  <2>4. Become(s, new) /\ snapshot' = snapshot /\ server[s].pc = "check"
    BY <1>19 DEF CheckFact
  <2> HIDE DEF new
  <2>5. new.key = Null /\ Good(new)
    BY <1>1, <2>3, <2>4 DEF Good
  <2> QED
    BY <1>5, <2>2, <2>4, <2>5
<1>20. CASE CheckFirst(s)
  <2> DEFINE stale == Disagrees(s, CheckOrder[1])
             new == [server[s] EXCEPT !.pc = "check_second", !.stale = stale]
  <2>1. stale \in BOOLEAN
    BY DEF Disagrees
  <2>2. Become(s, new) /\ snapshot' = snapshot /\ server[s].pc = "check_first"
    BY <1>20 DEF CheckFirst
  <2> HIDE DEF stale
  <2>3. new \in Server
    BY <1>1, <1>3, <2>1, ServerSet
  <2>4. /\ new.pc = "check_second" /\ new.key = server[s].key /\ new.since = server[s].since
        /\ new.logged = server[s].logged /\ new.profile = server[s].profile
    BY <1>1 DEF Server
  <2> HIDE DEF new
  <2>5. new.key = Null /\ Good(new)
    BY <1>1, <2>2, <2>4 DEF Good
  <2> QED
    BY <1>5, <2>2, <2>3, <2>5
<1>21. CASE CheckSecond(s)
  <2>1. snapshot' = snapshot /\ server[s].pc = "check_second"
    BY <1>21 DEF CheckSecond
  <2>2. \/ Become(s, NoServer)
        \/ Become(s, Profiled(s, "on", server[s].profile))
    BY <1>21 DEF CheckSecond
  <2>3. server[s].logged => /\ server[s].since <= server[s].profile.fact
                            /\ server[s].since <= server[s].profile.dims
    BY <1>1, <2>1 DEF Good
  <2> QED
    BY <1>1, <1>4, <1>5, <1>12, <2>1, <2>2, <2>3
<1>22. CASE StartFails(s)
  BY <1>4, <1>5, <1>22 DEF StartFails
<1> QED
  BY <1>7, <1>8, <1>9, <1>10, <1>13, <1>14, <1>15, <1>16, <1>17, <1>18, <1>19, <1>20, <1>21, <1>22
     DEF ServerStep

\* Every step keeps profiles recent.
LEMMA NextRInv == TInv /\ RInv /\ [Next]_vars => RInv'
<1> SUFFICES ASSUME TInv, RInv, [Next]_vars PROVE RInv'
  OBVIOUS
<1>0. Version \in Nat
  BY VersionIsNat DEF TInv, TypeOK
<1>1. ASSUME NEW l \in Loads, TakeId(l) \/ LoadStep(l) PROVE RInv'
  BY <1>1, LoadFrame, DatedKept, OthersRInv
<1>2. ASSUME UNCHANGED <<gold, audit, load, server, snapshot>> PROVE RInv'
  <2>1. Version' = Version /\ UNCHANGED <<runs, load, unlogged>>
    BY <1>2 DEF gold, audit, Version
  <2>2. \A k \in Key, at \in Nat : Dated(k, at) => Dated(k, at)'
    BY <2>1 DEF Dated, Unshown
  <2> QED
    BY <1>0, <1>2, <2>1, <2>2, OthersRInv
<1>3. ASSUME NEW r \in Refreshers,
         BeginRefresh(r) \/ BeginFinalize(r) \/ RefreshStep(r) \/ RefreshStops(r)
      PROVE  RInv'
  <2>1. CASE DeriveActivity(r)
    <3>1. Version' = Version + 1
      BY <2>1, ActivityFrame
    <3>2. UNCHANGED <<runs, server, snapshot>> /\ unlogged'
      BY <2>1 DEF DeriveActivity, audit
    <3>3. \A k \in Key, at \in Nat : Dated(k, at) => Dated(k, at)'
      BY <1>0, <3>1, <3>2 DEF Dated, Unshown
    <3> QED
      BY <1>0, <3>1, <3>2, <3>3, OthersRInv
  <2>2. CASE ~DeriveActivity(r)
    BY <1>2, <1>3, <2>2 DEF RefreshStep, BeginRefresh, BeginFinalize, Truncate, FillFirst, FillLast,
       RefreshFails, RefreshStops, RolledBack
  <2> QED
    BY <2>1, <2>2
<1>4. ASSUME NEW s \in Servers, Start(s) \/ ServerStep(s) PROVE RInv'
  BY <1>4, ServerRInv
<1>5. CASE DbDrop
  <2>1. Version' = Version + 1
    BY <1>5, DropFrame
  <2>2. UNCHANGED <<runs, server>> /\ snapshot' = Null /\ unlogged'
    BY <1>5 DEF DbDrop, audit
  <2>3. \A k \in Key, at \in Nat : Dated(k, at) => Dated(k, at)'
    BY <1>0, <2>1, <2>2 DEF Dated, Unshown
  <2> QED
    BY <1>0, <2>1, <2>2, <2>3, OthersRInv
<1>6. CASE DbInit
  <2>1. Version' = Version /\ UNCHANGED <<runs, load, unlogged, server, snapshot>>
    BY <1>6 DEF DbInit, Version, audit
  <2>2. \A k \in Key, at \in Nat : Dated(k, at) => Dated(k, at)'
    BY <2>1 DEF Dated, Unshown
  <2> QED
    BY <1>0, <2>1, <2>2, OthersRInv
<1>7. CASE UNCHANGED vars
  BY <1>2, <1>7 DEF vars, gold, audit
<1> QED
  BY <1>1, <1>3, <1>4, <1>5, <1>6, <1>7 DEF Next

\* Any number of loads, pipelines, rebuilds and resets: a pipeline that read its key
\* when load_runs showed every change of Gold serves no profile older than its own
\* start, whoever measured and stored it (load_profile, _snapshot_key, _write_snapshot).
THEOREM ProfilesAreRecent == Spec => []ServedIsRecent
<1>1. TInv /\ RInv => ServedIsRecent
  <2> SUFFICES ASSUME TInv, RInv, NEW s \in Servers,
                      server[s].pc \in {"check", "check_first", "check_second", "on"},
                      server[s].logged
               PROVE  /\ server[s].profile.fact >= server[s].since
                      /\ server[s].profile.dims >= server[s].since
    BY DEF ServedIsRecent
  <2>1. Good(server[s])
    BY DEF RInv
  <2> QED
    BY <2>1, Holders DEF Good
<1> QED
  BY <1>1, InitTInv, NextTInv, InitRInv, NextRInv, PTL DEF Spec
=============================================================================

----------------------------- MODULE GoldServe -----------------------------
(***************************************************************************)
(* What is derived from Gold and served: the stored profile and the daily  *)
(* rollups, against loads that land meanwhile.                             *)
(*                                                                         *)
(* Loads are those of WindowLoad: they open an entry of ops.load_runs,     *)
(* replace a window, and close the entry, in three commits. A pipeline     *)
(* that starts reads or measures the profile and checks the rollups;       *)
(* refresh-rollups, which finalize ends with, rebuilds them.               *)
(***************************************************************************)
EXTENDS Integers, Sequences, FiniteSets

CONSTANTS Null,       \* SQL NULL, or nothing read
          Days,       \* service dates
          Landings,   \* what a load may replace: [window, days], the days it then holds
          Loads,      \* processes that run load-dims and load-fact
          Refreshers, \* processes that run finalize and refresh-rollups
          Servers,    \* processes that build an AnswerPipeline
          Faults,     \* "vanish", "stop", "db_error"
          MaxCommands \* bound: commands given

\* max(id) and max(finished_at) of ops.load_runs, 0 for NULL.
Runs == [id : Nat, finished : Nat]

\* The validity key. sample_size and the format are constants of the code.
Key == [first : Days \cup {Null}, last : Days \cup {Null}, runs : Runs]

\* The versions that the fact's aggregates, and the dimensions, were read from.
Profile == [fact : Nat, dims : Nat]

\* The profile, and the auxiliary version at which its key was read.
Snapshot == [key : Key, profile : Profile, at : Nat]

ASSUME ServeAssumption ==
    /\ Days \subseteq Int
    /\ Null \notin Int \cup Key \cup Snapshot
    \* The dates are finitely many.
    /\ \A S \in (SUBSET Days) \ {{}} : \E d, e \in S : \A f \in S : d <= f /\ f <= e
    /\ Landings \subseteq [window : SUBSET Days, days : SUBSET Days]
    /\ \A w \in Landings : w.days \subseteq w.window
    /\ Faults \subseteq {"vanish", "stop", "db_error"}
    /\ MaxCommands \in Nat

VARIABLES there,     \* whether the Gold schema is there
          facts,     \* the days that Gold held, one set for each commit; a commit's
                     \* number is the version of all of Gold's content
          rollup,    \* the version each rollup was built from, 0 when it is empty
          runs,      \* max(id) and max(finished_at) of ops.load_runs
          sequence,  \* the last id that the identity of ops.load_runs gave out
          now,       \* the server's clock, which a transaction's now() reads
          snapshot,  \* the row of ops.profile_snapshot
          load,      \* where each load is
          refresher, \* where each rebuild of the rollups is
          server,    \* where each pipeline is, and its profile
          promised,  \* auxiliary: what successful rebuilds owe the rollups
          unlogged,  \* auxiliary: Gold changed, and load_runs does not show it
          commands   \* commands given so far

vars == <<there, facts, rollup, runs, sequence, now, snapshot, load, refresher, server, promised,
          unlogged, commands>>
gold == <<there, facts, unlogged>>
audit == <<runs, sequence, now>>
derived == <<rollup, promised>>

Version == Len(facts)

First(S) == IF S = {} THEN Null ELSE CHOOSE d \in S : \A e \in S : d <= e
Last(S) == IF S = {} THEN Null ELSE CHOOSE d \in S : \A e \in S : e <= d

\* MAX(date_key) of a rollup built from version v.
LastOf(v) == IF v = 0 THEN Null ELSE Last(facts[v])

-----------------------------------------------------------------------------
(* Types                                                                   *)

Rollups == {"station", "relation"}

\* `id' is given and its entry not committed yet. `landed' is auxiliary: the version
\* this load made and has not closed its entry for.
Load == [pc : {"idle", "opening", "loading", "ended", "closing"}, id : Nat, stamp : Nat,
         landed : Nat]

\* Rebuilding the `at'-th rollup; `built' is uncommitted. `from' is auxiliary: the
\* version when the command began.
Refresher == [pc : {"idle", "activity", "truncate", "fill"}, at : 1..2, built : [Rollups -> Nat],
              from : Nat]

ServerPCs == {"off", "key", "key_runs", "read", "measure", "measure_dims", "write",
              "check", "check_first", "check_second", "on"}

\* `since', `at' and `logged' are auxiliary: the versions when the start began and
\* when its key was read, and whether load_runs then showed every change.
Server == [pc : ServerPCs, first : Days \cup {Null}, last : Days \cup {Null},
           key : Key \cup {Null}, profile : Profile, ends : Days \cup {Null},
           stale : BOOLEAN, since : Nat, at : Nat, logged : BOOLEAN]

NoLoad == [pc |-> "idle", id |-> 0, stamp |-> 0, landed |-> 0]
NoRefresh == [pc |-> "idle", at |-> 1, built |-> [t \in Rollups |-> 0], from |-> 0]
NoServer == [pc |-> "off", first |-> Null, last |-> Null, key |-> Null,
             profile |-> [fact |-> 0, dims |-> 0], ends |-> Null, stale |-> FALSE,
             since |-> 0, at |-> 0, logged |-> FALSE]

Init ==
    /\ there = TRUE
    /\ facts = <<{}>>
    /\ rollup = [t \in Rollups |-> 0]
    /\ runs = [id |-> 0, finished |-> 0]
    /\ sequence = 0
    /\ now = 0
    /\ snapshot = Null
    /\ load = [l \in Loads |-> NoLoad]
    /\ refresher = [r \in Refreshers |-> NoRefresh]
    /\ server = [s \in Servers |-> NoServer]
    /\ promised = 0
    /\ unlogged = FALSE
    /\ commands = 0

Command ==
    /\ commands < MaxCommands
    /\ commands' = commands + 1

-----------------------------------------------------------------------------
(* Loads                                                                   *)

\* The INSERT of start_run takes an id, which is gone whatever becomes of the entry.
TakeId(l) ==
    /\ Command
    /\ load[l].pc = "idle"
    /\ sequence' = sequence + 1
    /\ load' = [load EXCEPT ![l].pc = "opening", ![l].id = sequence + 1]
    /\ UNCHANGED <<gold, derived, runs, now, snapshot, refresher, server>>

\* Mutant of Later: the entry closed last is taken for the one closed latest.
LastWritten(a, b) == b

Later(a, b) == IF a < b THEN b ELSE a

\* Its commit. Every key differs from those read before, unless a larger id was
\* committed first: then max(id) stays where it is.
OpenRun(l) ==
    /\ load[l].pc = "opening"
    /\ runs' = [runs EXCEPT !.id = Later(@, load[l].id)]
    /\ load' = [load EXCEPT ![l].pc = "loading", ![l].id = 0]
    /\ unlogged' = (unlogged /\ load[l].id <= runs.id)
    /\ UNCHANGED <<there, facts, derived, sequence, now, snapshot, refresher, server, commands>>

\* The commit of a window, or of a dimension, which is a window without days.
Land(l, w) ==
    /\ there
    /\ load[l].pc = "loading"
    /\ facts' = Append(facts, (facts[Version] \ w.window) \cup w.days)
    /\ load' = [load EXCEPT ![l].pc = "ended", ![l].landed = Version + 1]
    /\ UNCHANGED <<there, unlogged, derived, audit, snapshot, refresher, server, commands>>

LoadFails(l) ==
    /\ load[l].pc = "loading"
    /\ load' = [load EXCEPT ![l].pc = "ended"]
    /\ UNCHANGED <<gold, derived, audit, snapshot, refresher, server, commands>>

\* now() is the time at which the transaction of _close begins.
BeginClose(l) ==
    /\ load[l].pc = "ended"
    /\ now' = now + 1
    /\ load' = [load EXCEPT ![l].pc = "closing", ![l].stamp = now + 1]
    /\ UNCHANGED <<gold, derived, runs, sequence, snapshot, refresher, server, commands>>

\* The commit of finish_run or fail_run.
Close(l) ==
    /\ load[l].pc = "closing"
    /\ runs' = [runs EXCEPT !.finished = Later(@, load[l].stamp)]
    /\ load' = [load EXCEPT ![l] = NoLoad]
    /\ UNCHANGED <<gold, derived, sequence, now, snapshot, refresher, server, commands>>

\* The process dies, or the close of its entry fails: the entry stays running.
Vanish(l) ==
    /\ "vanish" \in Faults
    /\ load[l].pc # "idle"
    /\ load' = [load EXCEPT ![l] = NoLoad]
    /\ unlogged' = (unlogged \/ load[l].landed # 0)
    /\ UNCHANGED <<there, facts, derived, audit, snapshot, refresher, server, commands>>

\* load_runs shows every change of Gold as closed.
Logged == ~unlogged /\ \A l \in Loads : load[l].landed = 0

-----------------------------------------------------------------------------
(* refresh-rollups                                                         *)

\* Mutant of CheckOrder: the check reads the rollups the other way round.
CheckReversed == <<"relation", "station">>

\* The order in which refresh_rollups rebuilds, and assert_rollups_fresh reads.
RefreshOrder == <<"station", "relation">>
CheckOrder == <<"station", "relation">>

\* TRUNCATE keeps readers and other rebuilds out until the end of the transaction.
Rebuilds(r, t) ==
    /\ refresher[r].pc # "idle"
    /\ \E i \in 1..2 :
          /\ RefreshOrder[i] = t
          /\ \/ i < refresher[r].at
             \/ i = refresher[r].at /\ refresher[r].pc = "fill"

\* A reader's connection keeps what it has read from being truncated.
Reads(s, t) == server[s].pc = "check_second" /\ CheckOrder[1] = t

BeginRefresh(r) ==
    /\ Command
    /\ refresher[r].pc = "idle"
    /\ refresher' = [refresher EXCEPT ![r] = [NoRefresh EXCEPT !.pc = "truncate",
                                                               !.from = Version]]
    /\ UNCHANGED <<gold, derived, audit, snapshot, load, server>>

\* finalize derives the stations' activity, which is in the profile and not in
\* load_runs, and ends with a rebuild. Its checks and indexes in between change nothing.
BeginFinalize(r) ==
    /\ Command
    /\ refresher[r].pc = "idle"
    /\ refresher' = [refresher EXCEPT ![r] = [NoRefresh EXCEPT !.pc = "activity"]]
    /\ UNCHANGED <<gold, derived, audit, snapshot, load, server>>

DeriveActivity(r) ==
    /\ there
    /\ refresher[r].pc = "activity"
    /\ facts' = Append(facts, facts[Version])
    /\ unlogged' = TRUE
    /\ refresher' = [refresher EXCEPT ![r] = [NoRefresh EXCEPT !.pc = "truncate",
                                                               !.from = Version + 1]]
    /\ UNCHANGED <<there, derived, audit, snapshot, load, server, commands>>

\* Mutant of Free: rows are deleted instead, which waits for nobody.
AlwaysFree(r, t) == TRUE

Free(r, t) ==
    /\ \A q \in Refreshers \ {r} : ~Rebuilds(q, t)
    /\ \A s \in Servers : ~Reads(s, t)

Truncate(r) ==
    /\ there
    /\ refresher[r].pc = "truncate"
    /\ Free(r, RefreshOrder[refresher[r].at])
    /\ refresher' = [refresher EXCEPT ![r].pc = "fill"]
    /\ UNCHANGED <<gold, derived, audit, snapshot, load, server, commands>>

\* INSERT .. SELECT over the fact as it is now, and then the next rollup.
FillFirst(r) ==
    /\ refresher[r].pc = "fill" /\ refresher[r].at = 1
    /\ refresher' = [refresher EXCEPT ![r].pc = "truncate", ![r].at = 2,
                                      ![r].built = [@ EXCEPT ![RefreshOrder[1]] = Version]]
    /\ UNCHANGED <<gold, derived, audit, snapshot, load, server, commands>>

\* The same for the last one, and the commit of both.
FillLast(r) ==
    /\ refresher[r].pc = "fill" /\ refresher[r].at = 2
    /\ rollup' = [refresher[r].built EXCEPT ![RefreshOrder[2]] = Version]
    /\ promised' = Later(promised, refresher[r].from)
    /\ refresher' = [refresher EXCEPT ![r] = NoRefresh]
    /\ UNCHANGED <<gold, audit, snapshot, load, server, commands>>

\* The transaction is rolled back, with what it has rebuilt so far.
RolledBack(r) ==
    /\ refresher[r].pc # "idle"
    /\ refresher' = [refresher EXCEPT ![r] = NoRefresh]
    /\ UNCHANGED <<gold, derived, audit, snapshot, load, server, commands>>

\* A statement finds no table.
RefreshFails(r) == ~there /\ RolledBack(r)

\* A statement fails for another reason, or the process dies.
RefreshStops(r) == "stop" \in Faults /\ RolledBack(r)

-----------------------------------------------------------------------------
(* The start of a pipeline                                                 *)

Errors == ~there \/ "db_error" \in Faults

Become(s, new) == server' = [server EXCEPT ![s] = new]

Start(s) ==
    /\ Command
    /\ server[s].pc \in {"off", "on"}
    /\ Become(s, [NoServer EXCEPT !.pc = "key", !.since = Version])
    /\ UNCHANGED <<gold, derived, audit, snapshot, load, refresher>>

Serving == <<gold, derived, audit, load, refresher, commands>>

\* _snapshot_key: the fact's coverage, then the latest load run.
KeyDates(s) ==
    /\ there
    /\ server[s].pc = "key"
    /\ Become(s, [server[s] EXCEPT !.pc = "key_runs", !.first = First(facts[Version]),
                                   !.last = Last(facts[Version])])
    /\ UNCHANGED <<Serving, snapshot>>

RunsRead == runs

KeyRuns(s) ==
    /\ server[s].pc = "key_runs"
    /\ Become(s, [server[s] EXCEPT
          !.pc = "read", !.first = Null, !.last = Null,
          !.key = [first |-> server[s].first, last |-> server[s].last, runs |-> RunsRead],
          !.at = Version, !.logged = Logged])
    /\ UNCHANGED <<Serving, snapshot>>

\* Without a key the snapshot is neither read nor written.
NoKey(s) ==
    /\ Errors
    /\ server[s].pc \in {"key", "key_runs"}
    /\ Become(s, [server[s] EXCEPT !.pc = "measure", !.first = Null, !.last = Null,
                                   !.at = Version])
    /\ UNCHANGED <<Serving, snapshot>>

\* Where load_profile returns.
Profiled(s, l, profile) ==
    [NoServer EXCEPT !.pc = l, !.profile = profile, !.since = server[s].since,
                     !.logged = server[s].logged]

ReadSnapshot(s) ==
    /\ server[s].pc = "read"
    /\ IF snapshot # Null /\ snapshot.key = server[s].key
       THEN Become(s, Profiled(s, "check", snapshot.profile))
       ELSE Become(s, [server[s] EXCEPT !.pc = "measure"])
    /\ UNCHANGED <<Serving, snapshot>>

Unreadable(s) ==
    /\ Errors
    /\ server[s].pc = "read"
    /\ Become(s, [server[s] EXCEPT !.pc = "measure"])
    /\ UNCHANGED <<Serving, snapshot>>

\* _measure: the fact's aggregates, then what is read of the dimensions.
MeasureFact(s) ==
    /\ there
    /\ server[s].pc = "measure"
    /\ Become(s, [server[s] EXCEPT !.pc = "measure_dims",
                                   !.profile = [@ EXCEPT !.fact = Version]])
    /\ UNCHANGED <<Serving, snapshot>>

MeasureDims(s) ==
    /\ server[s].pc = "measure_dims"
    /\ LET profile == [server[s].profile EXCEPT !.dims = Version]
       IN  Become(s, IF server[s].key = Null THEN Profiled(s, "check", profile)
                     ELSE [server[s] EXCEPT !.pc = "write", !.profile = profile])
    /\ UNCHANGED <<Serving, snapshot>>

\* Mutant of KeyWritten: the key is read again once the profile is measured.
KeyReread(s) == [server[s].key EXCEPT !.runs = runs]

KeyWritten(s) == server[s].key

WriteSnapshot(s) ==
    /\ there
    /\ server[s].pc = "write"
    /\ snapshot' = [key |-> KeyWritten(s), profile |-> server[s].profile, at |-> server[s].at]
    /\ Become(s, Profiled(s, "check", server[s].profile))
    /\ UNCHANGED Serving

\* A snapshot that cannot be stored is a warning.
Unwritten(s) ==
    /\ Errors
    /\ server[s].pc = "write"
    /\ Become(s, Profiled(s, "check", server[s].profile))
    /\ UNCHANGED <<Serving, snapshot>>

\* assert_rollups_fresh: the last dates of the fact and of both rollups.
CheckFact(s) ==
    /\ there
    /\ server[s].pc = "check"
    /\ Become(s, [server[s] EXCEPT !.pc = "check_first", !.ends = Last(facts[Version])])
    /\ UNCHANGED <<Serving, snapshot>>

Readable(t) == \A r \in Refreshers : ~Rebuilds(r, t)

Disagrees(s, t) == server[s].ends # Null /\ LastOf(rollup[t]) # server[s].ends

CheckFirst(s) ==
    /\ server[s].pc = "check_first"
    /\ Readable(CheckOrder[1])
    /\ Become(s, [server[s] EXCEPT !.pc = "check_second",
                                   !.stale = Disagrees(s, CheckOrder[1])])
    /\ UNCHANGED <<Serving, snapshot>>

\* The second one and the verdict.
CheckSecond(s) ==
    /\ server[s].pc = "check_second"
    /\ Readable(CheckOrder[2])
    /\ Become(s, IF server[s].stale \/ Disagrees(s, CheckOrder[2]) THEN NoServer
                 ELSE Profiled(s, "on", server[s].profile))
    /\ UNCHANGED <<Serving, snapshot>>

\* A measurement or a check that cannot be made is the end of the start.
StartFails(s) ==
    /\ Errors
    /\ server[s].pc \in {"measure", "measure_dims", "check", "check_first", "check_second"}
    /\ Become(s, NoServer)
    /\ UNCHANGED <<Serving, snapshot>>

-----------------------------------------------------------------------------
(* db-drop and db-init                                                     *)

\* A transaction that has touched a table of Gold, which db-drop waits for.
Touching ==
    \/ \E r \in Refreshers, t \in Rollups : Rebuilds(r, t)
    \/ \E s \in Servers :
          server[s].pc \in {"key_runs", "measure_dims", "check_first", "check_second"}

\* Gold and the snapshot go, load_runs stays.
DbDrop ==
    /\ Command
    /\ there
    /\ ~Touching
    /\ there' = FALSE
    /\ facts' = Append(facts, {})
    /\ rollup' = [t \in Rollups |-> 0]
    /\ promised' = 0
    /\ snapshot' = Null
    /\ unlogged' = TRUE
    /\ UNCHANGED <<audit, load, refresher, server>>

DbInit ==
    /\ Command
    /\ ~there
    /\ there' = TRUE
    /\ UNCHANGED <<facts, unlogged, derived, audit, snapshot, load, refresher, server>>

-----------------------------------------------------------------------------
LoadStep(l) ==
    \/ OpenRun(l) \/ \E w \in Landings : Land(l, w)
    \/ LoadFails(l) \/ BeginClose(l) \/ Close(l) \/ Vanish(l)

RefreshStep(r) ==
    DeriveActivity(r) \/ Truncate(r) \/ FillFirst(r) \/ FillLast(r) \/ RefreshFails(r)

ServerStep(s) ==
    \/ KeyDates(s) \/ KeyRuns(s) \/ NoKey(s) \/ ReadSnapshot(s) \/ Unreadable(s)
    \/ MeasureFact(s) \/ MeasureDims(s) \/ WriteSnapshot(s) \/ Unwritten(s)
    \/ CheckFact(s) \/ CheckFirst(s) \/ CheckSecond(s) \/ StartFails(s)

Next ==
    \/ \E l \in Loads : TakeId(l) \/ LoadStep(l)
    \/ \E r \in Refreshers : BeginRefresh(r) \/ BeginFinalize(r) \/ RefreshStep(r) \/ RefreshStops(r)
    \/ \E s \in Servers : Start(s) \/ ServerStep(s)
    \/ DbDrop \/ DbInit

\* A process that was started runs; nobody has to start one.
Fairness ==
    /\ \A r \in Refreshers : WF_vars(RefreshStep(r))
    /\ \A s \in Servers : WF_vars(ServerStep(s))

Spec == Init /\ [][Next]_vars /\ Fairness

-----------------------------------------------------------------------------
(* Properties                                                              *)

Typed ==
    /\ there \in BOOLEAN
    /\ facts \in Seq(SUBSET Days) /\ Version > 0
    /\ rollup \in [Rollups -> Nat]
    /\ runs \in Runs
    /\ sequence \in Nat
    /\ now \in Nat
    /\ snapshot \in Snapshot \cup {Null}
    /\ load \in [Loads -> Load]
    /\ refresher \in [Refreshers -> Refresher]
    /\ server \in [Servers -> Server]
    /\ promised \in Nat
    /\ unlogged \in BOOLEAN
    /\ commands \in 0..MaxCommands

OfThePast ==
    /\ \A t \in Rollups : rollup[t] <= Version
    /\ runs.id <= sequence /\ runs.finished <= now
    /\ \A l \in Loads : load[l].id <= sequence /\ load[l].stamp <= now
    /\ \A s \in Servers :
          server[s].key # Null => /\ server[s].key.runs.id <= runs.id
                                  /\ server[s].key.runs.finished <= runs.finished

\* The types. The rollups never are of a version that is still to come, and a key
\* never names a load run that is still to be opened or closed.
TypeOK == Typed /\ OfThePast

\* "Reusing the stored one while the data is unchanged" (load_profile): a pipeline
\* that read its key when every change of Gold was closed in load_runs never serves
\* a profile older than its own start, wherever that was stored, whatever loads land
\* and close in whatever order while others measure and write.
ServedIsRecent ==
    \A s \in Servers :
        server[s].pc \in {"check", "check_first", "check_second", "on"} /\ server[s].logged =>
            /\ server[s].profile.fact >= server[s].since
            /\ server[s].profile.dims >= server[s].since

\* After a successful refresh both rollups hold what Gold held when it began, or
\* newer: a rebuild that was overtaken never puts an older fact back. Of the two, the
\* relation rollup may be of a later fact, never of an earlier one.
PromisedKept == promised <= rollup["station"] /\ rollup["station"] <= rollup["relation"]

\* A start that AnswerPipeline.__init__ began ends, with a pipeline or an error: it never
\* waits in a cycle with the rebuilds whose TRUNCATE keeps it out, for both take the
\* rollups in one order. The server's deadlock detection is not modelled: it never is
\* what ends them.
StartsEnd == \A s \in Servers : server[s].pc \notin {"off", "on"} ~> server[s].pc \in {"off", "on"}

\* A rebuild ends too (refresh_rollups), although it waits for readers and rebuilds.
RefreshesEnd == \A r \in Refreshers : refresher[r].pc # "idle" ~> refresher[r].pc = "idle"
=============================================================================

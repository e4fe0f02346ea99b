------------------------- MODULE DocPipelineProofs -------------------------
(***************************************************************************)
(* That the bytes at an artefact's path are those of a pin of its version, *)
(* for any number of fetches, versions, deaths and repins, as long as two  *)
(* downloads do not write one .part; and that what is parsed from them     *)
(* reaches a reader whole, or is refused, or is not vouched for.           *)
(***************************************************************************)
EXTENDS DocPipeline, ReadingProofs, SequenceTheorems, TLAPS

-----------------------------------------------------------------------------
(* The invariant                                                           *)

Byte == (Documents \X Nat) \cup {Null}

FetchPcs == {"idle", "verify", "request", "stream", "compare", "replace", "manifest",
             "provenance", "ok", "failed"}

Fetches == [pc : FetchPcs, version : Nat, pin : Documents \cup {Null}, inode : Nat,
            sent : Documents \cup {Null}, got : Seq(Byte)]

Inodes == 1..Len(disk)

Typed ==
    /\ scene \in Scenarios
    /\ registry.version \in Versions /\ registry.pin \in scene.pins
    /\ <<registry.version, registry.pin>> \in pinned
    /\ registry.spec \in scene.specs /\ <<registry.version, registry.spec>> \in declared
    /\ disk \in Seq(Seq(Byte))
    /\ part \in [Versions -> Inodes \cup {Null}]
    /\ raw \in [Versions -> Inodes \cup {Null}]
    /\ fetch \in [Fetchers -> Fetches]

\* A fetch is after a digest that its version has been pinned to; about to replace,
\* it has received just that document.
Asked(r) ==
    /\ r.pc # "idle" => r.version \in Versions /\ r.pin \in scene.pins
                        /\ <<r.version, r.pin>> \in pinned
    /\ r.pc \in {"stream", "compare", "replace"} => r.inode \in Inodes /\ r.sent \in Documents
    /\ r.pc = "request" => r.got = <<>>
    /\ r.pc = "replace" => r.got = Whole(r.pin)

\* No file belongs to two versions, or has both of a version's names.
Separate ==
    /\ \A v \in Versions : part[v] # Null => part[v] # raw[v]
    /\ \A v, w \in Versions : v # w =>
        /\ part[v] # Null => part[v] # part[w] /\ part[v] # raw[w]
        /\ raw[v] # Null => raw[v] # raw[w]
    /\ \A f \in Fetchers, w \in Versions : Downloading(f) /\ fetch[f].version # w =>
            fetch[f].inode # part[w] /\ fetch[f].inode # raw[w]
    /\ \A f, g \in Fetchers :
            Downloading(f) /\ Downloading(g) /\ fetch[f].version # fetch[g].version =>
                fetch[f].inode # fetch[g].inode

\* The one download of a version writes what it receives to the file at .part, as
\* long as that has its name: a request that fails before its response removes it.
Sole ==
    \A f \in Fetchers : Downloading(f) /\ fetch[f].version \notin shared =>
        /\ part[fetch[f].version] \in {fetch[f].inode, Null}
        /\ raw[fetch[f].version] # fetch[f].inode
        /\ disk[fetch[f].inode] = fetch[f].got
        /\ \A g \in Fetchers : Downloading(g) /\ fetch[g].version = fetch[f].version => g = f

\* What is published is a document its version has been pinned to.
Published ==
    \A v \in Versions : raw[v] # Null /\ v \notin shared =>
        \E doc \in scene.pins : <<v, doc>> \in pinned /\ disk[raw[v]] = Whole(doc)

FInv == Typed /\ (\A f \in Fetchers : Asked(fetch[f])) /\ Separate /\ Sole /\ Published

\* A file is a number, so Null is none.
LEMMA InodesFact == Typed => \A i \in Inodes : i \in Nat /\ i # Null
BY DocAssumption DEF Typed, Inodes

\* A first command finds the registry's first pin and no file (fetcher.py, fetch_source).
THEOREM InitFInv == Init => FInv
<1> SUFFICES ASSUME Init PROVE FInv
  OBVIOUS
<1>1. Typed
  <2>1. scene \in Scenarios /\ scene.first \in scene.pins /\ scene.spec \in scene.specs
    BY DocAssumption DEF Init
  <2>2. NoFetch \in Fetches
    BY DEF NoFetch, Fetches, FetchPcs
  <2> QED
    BY <2>1, <2>2, DocAssumption DEF Init, Typed, Inodes
<1>2. \A f \in Fetchers : fetch[f].pc = "idle"
  BY DEF Init, NoFetch
<1>3. (\A f \in Fetchers : Asked(fetch[f])) /\ Separate /\ Sole /\ Published
  BY <1>2 DEF Init, Asked, Separate, Sole, Published, Downloading
<1> QED
  BY <1>1, <1>3 DEF FInv

-----------------------------------------------------------------------------
(* Steps of a fetch                                                        *)

\* A fetch goes on to a stage in which it has no file open; it may take the name
\* .part with it.
LEMMA LeaveFInv ==
  ASSUME FInv, NEW f \in Fetchers, NEW r \in Fetches, Asked(r),
         r.pc \notin {"stream", "compare", "replace"}, fetch' = [fetch EXCEPT ![f] = r],
         \/ UNCHANGED part
         \/ part' = [part EXCEPT ![fetch[f].version] = Null],
         UNCHANGED <<scene, registry, disk, raw, pinned, declared, shared>>
  PROVE  FInv'
<1> USE DEF FInv
<1>1. Typed'
  BY DEF Typed, Inodes
<1>2. \A g \in Fetchers : fetch'[g] = IF g = f THEN r ELSE fetch[g]
  BY DEF Typed
<1>3. \A g \in Fetchers : Asked(fetch[g])'
  BY <1>2 DEF Asked, Inodes, Whole
<1>4. ~Downloading(f)' /\ \A g \in Fetchers \ {f} : Downloading(g)' <=> Downloading(g)
  BY <1>2 DEF Downloading
<1>5. \A v \in Versions : part'[v] \in {part[v], Null}
  BY DEF Typed
<1>6. Separate'
  <2>1. \A v \in Versions : part'[v] # Null => part'[v] # raw[v]
    BY <1>5 DEF Separate
  <2>2. \A v, w \in Versions : v # w =>
          /\ part'[v] # Null => part'[v] # part'[w] /\ part'[v] # raw[w]
          /\ raw[v] # Null => raw[v] # raw[w]
    BY <1>5 DEF Separate
  <2>3. \A g \in Fetchers : Downloading(g)' => Downloading(g) /\ fetch'[g] = fetch[g]
                                              /\ fetch[g].inode \in Inodes
    BY <1>2, <1>4 DEF Asked, Downloading
  <2>4. \A i \in Inodes : i # Null
    BY InodesFact
  <2>5. \A g \in Fetchers, w \in Versions : Downloading(g)' /\ fetch'[g].version # w =>
          fetch'[g].inode # part'[w] /\ fetch'[g].inode # raw[w]
    BY <1>5, <2>3, <2>4 DEF Separate
  <2>6. \A g, h \in Fetchers :
          Downloading(g)' /\ Downloading(h)' /\ fetch'[g].version # fetch'[h].version =>
              fetch'[g].inode # fetch'[h].inode
    BY <2>3 DEF Separate
  <2> QED
    BY <2>1, <2>2, <2>5, <2>6 DEF Separate
<1>7. Sole'
  <2> SUFFICES ASSUME NEW g \in Fetchers, Downloading(g)', fetch'[g].version \notin shared
               PROVE  /\ part'[fetch'[g].version] \in {fetch'[g].inode, Null}
                      /\ raw'[fetch'[g].version] # fetch'[g].inode
                      /\ disk[fetch'[g].inode] = fetch'[g].got
                      /\ \A h \in Fetchers :
                           Downloading(h)' /\ fetch'[h].version = fetch'[g].version => h = g
    BY DEF Sole
  <2>1. g # f /\ Downloading(g) /\ fetch'[g] = fetch[g] /\ fetch[g].version \in Versions
    BY <1>2, <1>4 DEF Asked, Downloading
  <2>3. part'[fetch[g].version] \in {part[fetch[g].version], Null}
    BY <1>5, <2>1
  <2> QED
    BY <1>2, <1>4, <2>1, <2>3 DEF Sole
<1>8. Published'
  BY DEF Published, Whole
<1> QED
  BY <1>1, <1>3, <1>6, <1>7, <1>8

\* Nothing but other files, counters and readers changes.
LEMMA QuietFInv ==
  ASSUME FInv, UNCHANGED <<scene, registry, disk, part, raw, fetch, pinned, declared, shared>>
  PROVE  FInv'
<1>1. Typed'
  BY DEF FInv, Typed, Inodes
<1>2. \A f \in Fetchers : Asked(fetch[f])'
  BY DEF FInv, Asked, Inodes, Whole
<1>3. Separate' /\ Sole'
  BY DEF FInv, Separate, Sole, Downloading
<1>4. Published'
  BY DEF FInv, Published, Whole
<1> QED
  BY <1>1, <1>2, <1>3, <1>4 DEF FInv

\* A fetch takes its version and its pin from the registry as it is then.
LEMMA StartFetchFInv ==
  ASSUME FInv, NEW f \in Fetchers, StartFetch(f) PROVE FInv'
<1> DEFINE v == registry.version
           r == [NoFetch EXCEPT !.version = v, !.pin = registry.pin,
                                !.pc = IF raw[v] = Null THEN "request" ELSE "verify"]
<1>1. v \in Nat
  BY DocAssumption DEF FInv, Typed
<1>4. registry.pin \in Documents
  <2>1. scene \in Scenarios /\ registry.pin \in scene.pins
    BY DEF FInv, Typed
  <2>2. scene.pins \cup scene.sends \in {s.pins \cup s.sends : s \in Scenarios}
    BY <2>1
  <2> QED
    BY <2>1, <2>2 DEF Documents
<1>2. r \in Fetches
  <2>1. NoFetch \in Fetches
    BY DEF NoFetch, Fetches, FetchPcs
  <2> QED
    BY <1>1, <1>4, <2>1 DEF Fetches, FetchPcs
<1>3. Asked(r)
  BY DEF NoFetch, Asked, FInv, Typed
<1> QED
  BY <1>2, <1>3, LeaveFInv DEF StartFetch, Sets, files, history, NoFetch

\* Any other stage a fetch leaves its download for.
LEMMA StageFInv ==
  ASSUME FInv, NEW f \in Fetchers, fetch[f].pc # "idle",
         NEW pc \in {"ok", "failed", "manifest", "provenance"}, Stage(f, pc),
         \/ UNCHANGED part
         \/ Unlink(f),
         UNCHANGED <<scene, registry, disk, raw, pinned, declared, shared>>
  PROVE  FInv'
<1> DEFINE r == [fetch[f] EXCEPT !.pc = pc]
<1>1. fetch[f] \in Fetches /\ Asked(fetch[f])
  BY DEF FInv, Typed
<1>2. r \in Fetches /\ Asked(r)
  BY <1>1 DEF Fetches, FetchPcs, Asked
<1>3. r.pc = pc
  BY <1>1 DEF Fetches
<1> QED
  BY <1>2, <1>3, LeaveFInv DEF Stage, Sets, Unlink

\* A fetch opens .part: the file of that name, emptied, or a new one.
LEMMA RequestFInv ==
  ASSUME FInv, NEW f \in Fetchers, Request(f) PROVE FInv'
<1> DEFINE v == fetch[f].version
           inode == IF part[v] = Null THEN Len(disk) + 1 ELSE part[v]
<1> USE DEF FInv
<1>1. v \in Versions /\ fetch[f] \in Fetches /\ fetch[f].got = <<>> /\ Asked(fetch[f])
  BY DEF Request, Asked, Typed
<1>2. /\ Len(disk) \in Nat /\ inode \in Nat /\ inode # Null
      /\ \A i \in Inodes : i \in Nat /\ i # Null
  <2>1. Len(disk) \in Nat /\ Len(disk) + 1 \in Nat
    BY DEF Typed
  <2>2. \A i \in Inodes : i \in Nat /\ i # Null
    BY InodesFact
  <2>3. part[v] \in Inodes \cup {Null}
    BY <1>1 DEF Typed
  <2> QED
    BY <2>1, <2>2, <2>3, DocAssumption
<1>3. /\ disk' \in Seq(Seq(Byte))
      /\ inode \in Inodes' /\ Inodes \subseteq Inodes'
      /\ disk'[inode] = <<>>
      /\ \A i \in Inodes : i # inode => disk'[i] = disk[i]
  <2>1. CASE part[v] = Null
    <3>1. disk' = Append(disk, <<>>)
      BY <2>1 DEF Request
    <3> QED
      BY <1>1, <1>2, <2>1, <3>1 DEF Typed, Inodes
  <2>2. CASE part[v] # Null
    <3>1. disk' = [disk EXCEPT ![part[v]] = <<>>]
      BY <2>2 DEF Request
    <3>2. part[v] \in Inodes
      BY <1>1, <2>2 DEF Typed
    <3> QED
      BY <1>1, <1>2, <2>2, <3>1, <3>2 DEF Typed, Inodes
  <2> QED
    BY <2>1, <2>2
<1>4. /\ \A w \in Versions : raw[w] # inode
      /\ \A w \in Versions : w # v => part[w] # inode
      /\ \A g \in Fetchers : Downloading(g) /\ fetch[g].version # v => fetch[g].inode # inode
  <2>1. \A w \in Versions : raw[w] \in Inodes \cup {Null} /\ part[w] \in Inodes \cup {Null}
    BY DEF Typed
  <2>2. \A g \in Fetchers : Downloading(g) => fetch[g].inode \in Inodes
    BY DEF Asked, Downloading
  <2>3. CASE part[v] = Null
    <3>1. inode \notin Inodes
      BY <1>2, <2>3 DEF Inodes
    <3> QED
      BY <1>2, <2>1, <2>2, <3>1
  <2>4. CASE part[v] # Null
    BY <1>1, <2>4 DEF Separate
  <2> QED
    BY <2>3, <2>4
<1>5. PICK doc \in scene.sends :
        fetch' = [fetch EXCEPT ![f] = [fetch[f] EXCEPT !.pc = "stream", !.inode = inode, !.sent = doc]]
  BY DEF Request, Sets
<1>6. doc \in Documents
  <2>1. scene \in Scenarios
    BY DEF Typed
  <2>2. scene.pins \cup scene.sends \in {s.pins \cup s.sends : s \in Scenarios}
    BY <2>1
  <2> QED
    BY <2>2 DEF Documents
<1> DEFINE r == [fetch[f] EXCEPT !.pc = "stream", !.inode = inode, !.sent = doc]
<1>7. /\ r \in Fetches /\ r.pc = "stream" /\ r.inode = inode /\ r.version = v /\ r.got = <<>>
      /\ r.pin = fetch[f].pin /\ r.sent = doc
  BY <1>1, <1>2, <1>6 DEF Fetches, FetchPcs
<1>8. \A g \in Fetchers : fetch'[g] = IF g = f THEN r ELSE fetch[g]
  BY <1>5 DEF Typed
<1>9. part' = [part EXCEPT ![v] = inode] /\ UNCHANGED <<scene, registry, raw, pinned, declared>>
  BY DEF Request, history
<1> HIDE DEF r, inode, v
<1>10. Typed'
  <2>1. fetch' \in [Fetchers -> Fetches]
    BY <1>5, <1>7 DEF Typed, r
  <2>2. part' \in [Versions -> Inodes' \cup {Null}] /\ raw' \in [Versions -> Inodes' \cup {Null}]
    BY <1>1, <1>3, <1>9 DEF Typed
  <2> QED
    BY <1>3, <1>9, <2>1, <2>2 DEF Typed
<1>11. \A g \in Fetchers : Asked(fetch[g])'
  <2> SUFFICES ASSUME NEW g \in Fetchers PROVE Asked(fetch[g])'
    OBVIOUS
  <2>1. CASE g = f
    BY <1>1, <1>3, <1>6, <1>7, <1>8, <1>9, <2>1 DEF Asked, Request, v
  <2>2. CASE g # f
    BY <1>3, <1>8, <1>9, <2>2 DEF Asked, Whole
  <2> QED
    BY <2>1, <2>2
<1>12. Downloading(f)' /\ \A g \in Fetchers : g # f => (Downloading(g)' <=> Downloading(g))
  BY <1>7, <1>8 DEF Downloading
<1>13. \A w \in Versions : part'[w] = IF w = v THEN inode ELSE part[w]
  BY <1>9 DEF Typed
<1>14. Separate'
  <2>1. \A w \in Versions : part'[w] # Null => part'[w] # raw[w]
    BY <1>4, <1>13 DEF Separate
  <2>2. \A w, x \in Versions : w # x =>
          /\ part'[w] # Null => part'[w] # part'[x] /\ part'[w] # raw[x]
          /\ raw[w] # Null => raw[w] # raw[x]
    BY <1>4, <1>13 DEF Separate
  <2>3. \A g \in Fetchers, w \in Versions : Downloading(g)' /\ fetch'[g].version # w =>
          fetch'[g].inode # part'[w] /\ fetch'[g].inode # raw[w]
    BY <1>4, <1>7, <1>8, <1>12, <1>13 DEF Separate
  <2>4. \A g, h \in Fetchers :
          Downloading(g)' /\ Downloading(h)' /\ fetch'[g].version # fetch'[h].version =>
              fetch'[g].inode # fetch'[h].inode
    BY <1>4, <1>7, <1>8, <1>12 DEF Separate
  <2> QED
    BY <1>9, <2>1, <2>2, <2>3, <2>4 DEF Separate
<1>15. /\ shared \subseteq shared'
       /\ v \notin shared' => \A g \in Fetchers : g # f => ~(Downloading(g) /\ fetch[g].version = v)
  BY DEF Request, v
<1>16. Sole'
  <2> SUFFICES ASSUME NEW g \in Fetchers, Downloading(g)', fetch'[g].version \notin shared'
               PROVE  /\ part'[fetch'[g].version] \in {fetch'[g].inode, Null}
                      /\ raw'[fetch'[g].version] # fetch'[g].inode
                      /\ disk'[fetch'[g].inode] = fetch'[g].got
                      /\ \A h \in Fetchers :
                           Downloading(h)' /\ fetch'[h].version = fetch'[g].version => h = g
    BY DEF Sole
  <2>1. CASE g = f
    BY <1>1, <1>3, <1>4, <1>7, <1>8, <1>9, <1>12, <1>13, <1>15, <2>1
  <2>2. CASE g # f
    <3>1. fetch'[g] = fetch[g] /\ Downloading(g) /\ fetch[g].version # v
      BY <1>8, <1>12, <1>15, <2>2
    <3>2. fetch[g].version \in Versions /\ fetch[g].inode \in Inodes
      BY <3>1 DEF Asked, Downloading
    <3>3. fetch[g].version \notin shared
      BY <1>15, <3>1
    <3>4. \A h \in Fetchers :
            Downloading(h)' /\ fetch'[h].version = fetch'[g].version => h = g
      BY <1>7, <1>8, <1>12, <3>1, <3>3 DEF Sole
    <3> QED
      BY <1>3, <1>4, <1>9, <1>13, <3>1, <3>2, <3>3, <3>4 DEF Sole
  <2> QED
    BY <2>1, <2>2
<1>17. Published'
  <2> SUFFICES ASSUME NEW w \in Versions, raw[w] # Null, w \notin shared'
               PROVE  \E d \in scene.pins : <<w, d>> \in pinned /\ disk'[raw[w]] = Whole(d)
    BY <1>9 DEF Published, Whole
  <2>1. raw[w] \in Inodes /\ disk'[raw[w]] = disk[raw[w]]
    BY <1>3, <1>4 DEF Typed
  <2> QED
    BY <1>15, <2>1 DEF Published
<1> QED
  BY <1>10, <1>11, <1>14, <1>16, <1>17

\* The larger of two lengths is a length.
LEMMA AtLeastNat ==
  ASSUME NEW n \in Nat, NEW least \in Nat
  PROVE  AtLeast(n, least) \in Nat /\ AtLeast(n, least) >= least /\ AtLeast(n, least) >= n
BY DEF AtLeast

\* A chunk at an offset of its own leaves bytes.
LEMMA WrittenBytes ==
  ASSUME NEW s \in Seq(Byte), NEW at \in Nat, NEW c \in Byte
  PROVE  Written(s, at, c) \in Seq(Byte)
<1>0. Len(s) \in Nat
  OBVIOUS
<1>1. AtLeast(Len(s), at) \in Nat
  BY <1>0, AtLeastNat
<1>2. \A i \in 1..AtLeast(Len(s), at) :
        (CASE i = at -> c [] i # at /\ i <= Len(s) -> s[i] [] OTHER -> Null) \in Byte
  <2> SUFFICES ASSUME NEW i \in 1..AtLeast(Len(s), at)
               PROVE  (CASE i = at -> c [] i # at /\ i <= Len(s) -> s[i] [] OTHER -> Null) \in Byte
    OBVIOUS
  <2>1. Null \in Byte
    BY DEF Byte
  <2>2. i \in Nat /\ i >= 1
    BY <1>1
  <2> QED
    BY <2>1, <2>2
<1>3. Written(s, at, c) \in [1..AtLeast(Len(s), at) -> Byte]
  BY <1>2 DEF Written
<1> QED
  BY <1>1, <1>3

\* At the end of the file, it is appended.
LEMMA WrittenAtEnd ==
  ASSUME NEW s \in Seq(Byte), NEW c \in Byte
  PROVE  Written(s, Len(s) + 1, c) = Append(s, c)
<1>1. Len(s) \in Nat /\ AtLeast(Len(s), Len(s) + 1) = Len(s) + 1
  BY DEF AtLeast
<1>2. /\ Len(Append(s, c)) = Len(s) + 1 /\ Append(s, c) \in Seq(Byte)
      /\ \A i \in 1..Len(s) : Append(s, c)[i] = s[i]
      /\ Append(s, c)[Len(s) + 1] = c
  BY AppendProperties
<1>3. Written(s, Len(s) + 1, c) \in Seq(Byte)
  BY <1>1, WrittenBytes
<1>4. /\ Len(Written(s, Len(s) + 1, c)) = Len(s) + 1
      /\ \A i \in 1..(Len(s) + 1) :
            Written(s, Len(s) + 1, c)[i] = IF i = Len(s) + 1 THEN c ELSE s[i]
  BY <1>1 DEF Written
<1> QED
  BY <1>1, <1>2, <1>3, <1>4, SeqEqual

\* A chunk goes to the file this fetch opened, whatever its names are by now.
LEMMA ReceiveFInv ==
  ASSUME FInv, NEW f \in Fetchers, Receive(f) PROVE FInv'
<1> DEFINE v == fetch[f].version
           inode == fetch[f].inode
           at == Len(fetch[f].got) + 1
           chunk == <<fetch[f].sent, at>>
           pc == IF at = Chunks THEN "compare" ELSE "stream"
           r == [fetch[f] EXCEPT !.got = Append(@, chunk), !.pc = pc]
<1> USE DEF FInv
<1>1. /\ fetch[f].pc = "stream" /\ Downloading(f)
      /\ v \in Versions /\ fetch[f] \in Fetches /\ Asked(fetch[f])
      /\ inode \in Inodes /\ fetch[f].sent \in Documents /\ fetch[f].got \in Seq(Byte)
  BY DEF Receive, Asked, Typed, Downloading, Fetches
<1>2. at \in Nat /\ chunk \in Byte
  BY <1>1 DEF Byte
<1>3. /\ disk' = [disk EXCEPT ![inode] = Written(@, at, chunk)]
      /\ fetch' = [fetch EXCEPT ![f] = r]
      /\ UNCHANGED <<scene, registry, part, raw, pinned, declared, shared>>
  BY DEF Receive, Sets, history
<1>4. /\ r \in Fetches /\ r.pc \in {"stream", "compare"} /\ r.version = v /\ r.inode = inode
      /\ r.sent = fetch[f].sent /\ r.pin = fetch[f].pin /\ r.got = Append(fetch[f].got, chunk)
  <2> HIDE DEF chunk, at
  <2>1. Append(fetch[f].got, chunk) \in Seq(Byte)
    BY <1>1, <1>2
  <2>2. pc \in {"stream", "compare"}
    OBVIOUS
  <2> HIDE DEF pc
  <2> QED
    BY <1>1, <2>1, <2>2 DEF Fetches, FetchPcs
<1>5. \A g \in Fetchers : fetch'[g] = IF g = f THEN r ELSE fetch[g]
  BY <1>3 DEF Typed
<1>6. /\ disk' \in Seq(Seq(Byte)) /\ Inodes' = Inodes
      /\ disk'[inode] = Written(disk[inode], at, chunk)
      /\ \A i \in Inodes : i # inode => disk'[i] = disk[i]
  <2>1. disk[inode] \in Seq(Byte)
    BY <1>1 DEF Typed, Inodes
  <2>2. Written(disk[inode], at, chunk) \in Seq(Byte)
    BY <1>2, <2>1, WrittenBytes
  <2> HIDE DEF at, chunk
  <2> QED
    BY <1>1, <1>3, <2>2 DEF Typed, Inodes
<1> HIDE DEF r, v, inode, at, chunk, pc
<1>7. Typed'
  BY <1>3, <1>4, <1>6 DEF Typed
<1>8. \A g \in Fetchers : Asked(fetch[g])'
  <2> SUFFICES ASSUME NEW g \in Fetchers PROVE Asked(fetch[g])'
    OBVIOUS
  <2>1. CASE g = f
    BY <1>1, <1>3, <1>4, <1>5, <1>6, <2>1 DEF Asked, v
  <2>2. CASE g # f
    BY <1>3, <1>5, <1>6, <2>2 DEF Asked, Whole
  <2> QED
    BY <2>1, <2>2
<1>9. \A g \in Fetchers : /\ Downloading(g)' <=> Downloading(g)
                          /\ fetch'[g].version = fetch[g].version
                          /\ fetch'[g].inode = fetch[g].inode
  BY <1>1, <1>4, <1>5 DEF Downloading, v, inode
<1>10. Separate'
  BY <1>3, <1>9 DEF Separate
<1>11. Sole'
  <2> SUFFICES ASSUME NEW g \in Fetchers, Downloading(g)', fetch'[g].version \notin shared
               PROVE  /\ part[fetch'[g].version] \in {fetch'[g].inode, Null}
                      /\ raw[fetch'[g].version] # fetch'[g].inode
                      /\ disk'[fetch'[g].inode] = fetch'[g].got
                      /\ \A h \in Fetchers :
                           Downloading(h)' /\ fetch'[h].version = fetch'[g].version => h = g
    BY <1>3 DEF Sole
  <2>1. /\ part[fetch[g].version] \in {fetch[g].inode, Null}
        /\ raw[fetch[g].version] # fetch[g].inode
        /\ disk[fetch[g].inode] = fetch[g].got
        /\ \A h \in Fetchers : Downloading(h) /\ fetch[h].version = fetch[g].version => h = g
    BY <1>9 DEF Sole
  <2>2. CASE g = f
    <3>1. disk'[inode] = Append(fetch[f].got, chunk)
      BY <1>1, <1>2, <1>6, <2>1, <2>2, WrittenAtEnd DEF inode, at
    <3> QED
      BY <1>4, <1>5, <1>9, <2>1, <2>2, <3>1 DEF inode
  <2>3. CASE g # f
    <3>1. fetch[g].version # v /\ fetch[g].inode \in Inodes
      BY <1>1, <1>9, <2>1, <2>3 DEF v, Asked, Downloading
    <3>2. fetch[g].inode # inode
      BY <1>1, <1>9, <3>1 DEF Separate, v, inode
    <3> QED
      BY <1>5, <1>6, <1>9, <2>1, <2>3, <3>1, <3>2
  <2> QED
    BY <2>2, <2>3
<1>12. Published'
  <2> SUFFICES ASSUME NEW w \in Versions, raw[w] # Null, w \notin shared
               PROVE  \E d \in scene.pins : <<w, d>> \in pinned /\ disk'[raw[w]] = Whole(d)
    BY <1>3 DEF Published, Whole
  <2>1. raw[w] # inode
    <3>1. CASE w = v
      BY <1>1, <3>1 DEF Sole, Separate, v, inode
    <3>2. CASE w # v
      BY <1>1, <3>2 DEF Separate, v, inode
    <3> QED
      BY <3>1, <3>2
  <2> QED
    BY <1>6, <2>1 DEF Published, Typed
<1> QED
  BY <1>7, <1>8, <1>10, <1>11, <1>12

\* Only a download that is its pin's document goes on to its replace.
LEMMA CompareFInv ==
  ASSUME FInv, NEW f \in Fetchers, Compare(f) PROVE FInv'
<1> DEFINE r == [fetch[f] EXCEPT !.pc = "replace"]
<1>1. CASE fetch[f].got # Whole(fetch[f].pin)
  BY <1>1, StageFInv DEF Compare, history
<1>2. CASE fetch[f].got = Whole(fetch[f].pin)
  <2> USE DEF FInv
  <2>1. /\ fetch[f].pc = "compare" /\ Downloading(f)
        /\ fetch[f] \in Fetches /\ Asked(fetch[f])
    BY DEF Compare, Typed, Downloading
  <2>2. /\ fetch' = [fetch EXCEPT ![f] = r]
        /\ UNCHANGED <<scene, registry, disk, part, raw, pinned, declared, shared>>
    BY <1>2 DEF Compare, Stage, Sets, history
  <2>3. /\ r \in Fetches /\ r.pc = "replace" /\ r.version = fetch[f].version
        /\ r.inode = fetch[f].inode /\ r.got = fetch[f].got /\ Asked(r)
    BY <1>2, <2>1 DEF Fetches, FetchPcs, Asked
  <2>4. \A g \in Fetchers : fetch'[g] = IF g = f THEN r ELSE fetch[g]
    BY <2>2 DEF Typed
  <2> HIDE DEF r
  <2>5. Typed'
    BY <2>2, <2>3 DEF Typed, Inodes
  <2>6. \A g \in Fetchers : Asked(fetch[g])'
    <3> SUFFICES ASSUME NEW g \in Fetchers PROVE Asked(fetch[g])'
      OBVIOUS
    <3>1. CASE g = f
      <4>1. fetch'[g] = r /\ Inodes' = Inodes
        BY <2>2, <2>4, <3>1 DEF Inodes
      <4>2. r.got = Whole(r.pin)
        BY <2>3 DEF Asked
      <4>3. (fetch[g].got = Whole(fetch[g].pin))'
        BY <4>1, <4>2
      <4> QED
        BY <2>2, <2>3, <4>1, <4>3 DEF Asked
    <3>2. CASE g # f
      BY <2>2, <2>4, <3>2 DEF Asked, Inodes, Whole
    <3> QED
      BY <3>1, <3>2
  <2>7. \A g \in Fetchers : /\ Downloading(g)' <=> Downloading(g)
                            /\ fetch'[g].version = fetch[g].version
                            /\ fetch'[g].inode = fetch[g].inode
                            /\ fetch'[g].got = fetch[g].got
    BY <2>1, <2>3, <2>4 DEF Downloading
  <2>8. Separate' /\ Sole'
    BY <2>2, <2>7 DEF Separate, Sole
  <2>9. Published'
    BY <2>2 DEF Published, Whole
  <2> QED
    BY <2>5, <2>6, <2>8, <2>9
<1> QED
  BY <1>1, <1>2

\* What the name .part stands for gets the artefact's name.
LEMMA ReplaceFInv ==
  ASSUME FInv, NEW f \in Fetchers, Replace(f) PROVE FInv'
<1> DEFINE v == fetch[f].version
           r == [fetch[f] EXCEPT !.pc = "manifest"]
<1>1. CASE part[v] = Null
  BY <1>1, StageFInv DEF Replace, history
<1>2. CASE part[v] # Null
  <2> USE DEF FInv
  <2>1. /\ fetch[f].pc = "replace" /\ Downloading(f)
        /\ fetch[f] \in Fetches /\ Asked(fetch[f]) /\ v \in Versions
    BY DEF Replace, Typed, Downloading, Asked
  <2>2. /\ fetch' = [fetch EXCEPT ![f] = r]
        /\ raw' = [raw EXCEPT ![v] = part[v]] /\ part' = [part EXCEPT ![v] = Null]
        /\ UNCHANGED <<scene, registry, disk, pinned, declared, shared>>
    BY <1>2 DEF Replace, Stage, Sets, Unlink, history
  <2>3. r \in Fetches /\ r.pc = "manifest" /\ Asked(r)
    BY <2>1 DEF Fetches, FetchPcs, Asked
  <2>4. \A g \in Fetchers : fetch'[g] = IF g = f THEN r ELSE fetch[g]
    BY <2>2 DEF Typed
  <2>5. \A w \in Versions : /\ part'[w] = IF w = v THEN Null ELSE part[w]
                            /\ raw'[w] = IF w = v THEN part[v] ELSE raw[w]
    BY <2>2 DEF Typed
  <2>6. Typed'
    BY <2>1, <2>2, <2>3 DEF Typed, Inodes
  <2> HIDE DEF r, v
  <2>7. \A g \in Fetchers : Asked(fetch[g])'
    BY <2>2, <2>3, <2>4 DEF Asked, Inodes, Whole
  <2>8. \A g \in Fetchers : Downloading(g)' => /\ g # f /\ Downloading(g) /\ fetch'[g] = fetch[g]
                                              /\ fetch[g].inode \in Inodes
                                              /\ fetch[g].version \in Versions
    BY <2>3, <2>4 DEF Asked, Downloading
  <2>9. \A i \in Inodes : i # Null
    BY InodesFact
  <2>10. Separate'
    <3>1. \A w \in Versions : part'[w] # Null => part'[w] # raw'[w]
      BY <2>5 DEF Separate
    <3>2. \A w, x \in Versions : w # x =>
            /\ part'[w] # Null => part'[w] # part'[x] /\ part'[w] # raw'[x]
            /\ raw'[w] # Null => raw'[w] # raw'[x]
      BY <2>1, <2>5 DEF Separate
    <3>3. \A g \in Fetchers, w \in Versions : Downloading(g)' /\ fetch'[g].version # w =>
            fetch'[g].inode # part'[w] /\ fetch'[g].inode # raw'[w]
      BY <2>5, <2>8, <2>9 DEF Separate
    <3>4. \A g, h \in Fetchers :
            Downloading(g)' /\ Downloading(h)' /\ fetch'[g].version # fetch'[h].version =>
                fetch'[g].inode # fetch'[h].inode
      BY <2>8 DEF Separate
    <3> QED
      BY <3>1, <3>2, <3>3, <3>4 DEF Separate
  <2>11. Sole'
    <3> SUFFICES ASSUME NEW g \in Fetchers, Downloading(g)', fetch'[g].version \notin shared
                 PROVE  /\ part'[fetch'[g].version] \in {fetch'[g].inode, Null}
                        /\ raw'[fetch'[g].version] # fetch'[g].inode
                        /\ disk[fetch'[g].inode] = fetch'[g].got
                        /\ \A h \in Fetchers :
                             Downloading(h)' /\ fetch'[h].version = fetch'[g].version => h = g
      BY <2>2 DEF Sole
    <3>1. fetch[g].version # v
      BY <2>1, <2>8 DEF Sole, v
    <3> QED
      BY <2>5, <2>8, <3>1 DEF Sole
  <2>12. Published'
    <3> SUFFICES ASSUME NEW w \in Versions, raw'[w] # Null, w \notin shared
                 PROVE  \E d \in scene.pins : <<w, d>> \in pinned /\ disk[raw'[w]] = Whole(d)
      BY <2>2 DEF Published, Whole
    <3>1. CASE w = v
      <4>1. raw'[w] = fetch[f].inode /\ disk[fetch[f].inode] = Whole(fetch[f].pin)
        BY <1>2, <2>1, <2>5, <3>1 DEF Sole, Asked, v
      <4>2. fetch[f].pin \in scene.pins /\ <<w, fetch[f].pin>> \in pinned
        BY <2>1, <3>1 DEF Asked, v
      <4> QED
        BY <4>1, <4>2
    <3>2. CASE w # v
      BY <2>5, <3>2 DEF Published
    <3> QED
      BY <3>1, <3>2
  <2> QED
    BY <2>6, <2>7, <2>10, <2>11, <2>12
<1> QED
  BY <1>1, <1>2

\* Every step of fetch_source keeps the invariant.
LEMMA FetchStepFInv ==
  ASSUME FInv, NEW f \in Fetchers, FetchStep(f) PROVE FInv'
<1>1. CASE StartFetch(f)
  BY <1>1, StartFetchFInv
<1>2. CASE Verify(f)
  BY <1>2, StageFInv DEF Verify, files, history
<1>3. CASE Request(f)
  BY <1>3, RequestFInv
<1>4. CASE Refused(f)
  BY <1>4, StageFInv DEF Refused, files, history
<1>5. CASE Receive(f)
  BY <1>5, ReceiveFInv
<1>6. CASE BreaksOff(f)
  BY <1>6, StageFInv DEF BreaksOff, history
<1>7. CASE Compare(f)
  BY <1>7, CompareFInv
<1>8. CASE Replace(f)
  BY <1>8, ReplaceFInv
<1>9. CASE OpenManifest(f)
  BY <1>9, StageFInv DEF OpenManifest, history
<1>10. CASE WriteManifest(f)
  BY <1>10, StageFInv DEF WriteManifest, history
<1> QED
  BY <1>1, <1>2, <1>3, <1>4, <1>5, <1>6, <1>7, <1>8, <1>9, <1>10 DEF FetchStep

-----------------------------------------------------------------------------
(* Deaths, and what a person does                                          *)

\* What a dead fetch leaves is its .part, and none writes to it any more.
LEMMA FetchDiesFInv ==
  ASSUME FInv, NEW f \in Fetchers, FetchDies(f) PROVE FInv'
<1>1. NoFetch \in Fetches /\ NoFetch.pc = "idle" /\ Asked(NoFetch)
  BY DEF NoFetch, Fetches, FetchPcs, Asked
<1> QED
  BY <1>1, LeaveFInv DEF FetchDies, Sets, files, history

\* An artefact deleted by hand takes only its own name away.
LEMMA DeleteArtefactFInv ==
  ASSUME FInv, NEW v \in Versions, DeleteArtefact(v) PROVE FInv'
<1> USE DEF FInv
<1>1. /\ raw' = [raw EXCEPT ![v] = Null]
      /\ UNCHANGED <<scene, registry, disk, part, fetch, pinned, declared, shared>>
  BY DEF DeleteArtefact, history
<1>2. Typed'
  BY <1>1 DEF Typed, Inodes
<1>3. \A f \in Fetchers : Asked(fetch[f])'
  BY <1>1 DEF Asked, Inodes, Whole
<1>4. \A w \in Versions : raw'[w] = IF w = v THEN Null ELSE raw[w]
  BY <1>1 DEF Typed
<1>5. Separate'
  <2>1. \A f \in Fetchers : Downloading(f) => fetch[f].inode # Null
    BY InodesFact DEF Asked, Downloading
  <2> QED
    BY <1>1, <1>4, <2>1 DEF Separate, Downloading
<1>6. Sole'
  <2>1. \A f \in Fetchers : Downloading(f) => fetch[f].inode # Null /\ fetch[f].version \in Versions
    BY InodesFact DEF Asked, Downloading
  <2> QED
    BY <1>1, <1>4, <2>1 DEF Sole, Downloading
<1>7. Published'
  <2> SUFFICES ASSUME NEW w \in Versions, raw'[w] # Null, w \notin shared
               PROVE  \E d \in scene.pins : <<w, d>> \in pinned /\ disk[raw'[w]] = Whole(d)
    BY <1>1 DEF Published, Whole
  <2>1. raw'[w] = raw[w] /\ raw[w] # Null
    BY <1>4
  <2> QED
    BY <2>1 DEF Published
<1> QED
  BY <1>2, <1>3, <1>5, <1>6, <1>7

\* A version's pins only grow.
LEMMA RepinFInv ==
  ASSUME FInv, Repin PROVE FInv'
<1> USE DEF FInv
<1>1. /\ registry'.version \in Versions /\ registry'.pin \in scene.pins
      /\ <<registry'.version, registry'.pin>> \in pinned' /\ pinned \subseteq pinned'
      /\ registry'.spec \in scene.specs /\ <<registry'.version, registry'.spec>> \in declared'
      /\ UNCHANGED <<scene, disk, part, raw, fetch, shared>>
  BY DEF Repin, files
<1>2. Typed'
  BY <1>1 DEF Typed, Inodes
<1>3. \A f \in Fetchers : Asked(fetch[f])'
  BY <1>1 DEF Asked, Inodes, Whole
<1>4. Separate' /\ Sole'
  BY <1>1 DEF Separate, Sole, Downloading
<1>5. Published'
  BY <1>1 DEF Published, Whole
<1> QED
  BY <1>2, <1>3, <1>4, <1>5

\* No step of a command, no death and no edit of the registry breaks the invariant.
THEOREM NextFInv == FInv /\ [Next]_vars => FInv'
<1> SUFFICES ASSUME FInv, [Next]_vars PROVE FInv'
  OBVIOUS
<1>1. scene.fetchers \subseteq Fetchers
  BY DocAssumption DEF FInv, Typed
<1>2. ASSUME NEW f \in scene.fetchers, FetchStep(f) PROVE FInv'
  BY <1>1, <1>2, FetchStepFInv
<1>3. ASSUME NEW f \in scene.fetchers, FetchDies(f) PROVE FInv'
  BY <1>1, <1>3, FetchDiesFInv
<1>4. CASE ParseStep \/ ParseDies
  BY <1>4, QuietFInv
     DEF ParseStep, ParseDies, StartParse, ReadPdf, OpenStream, WriteBlock, OpenMeta, WriteMeta,
         files, history
<1>5. CASE Load
  BY <1>5, QuietFInv DEF Load, files, history
<1>6. ASSUME NEW v \in Versions, DeleteArtefact(v) PROVE FInv'
  BY <1>6, DeleteArtefactFInv
<1>7. CASE Repin
  BY <1>7, RepinFInv
<1>8. CASE UNCHANGED vars
  BY <1>8, QuietFInv DEF vars, files, history
<1> QED
  BY <1>2, <1>3, <1>4, <1>5, <1>6, <1>7, <1>8 DEF Next

-----------------------------------------------------------------------------
(* From the bytes to their digest                                          *)

\* A document's bytes have its digest and no other's: there is one chunk at least.
LEMMA DigestOfWhole ==
  ASSUME NEW doc \in scene.pins PROVE DigestOf(Whole(doc)) = doc
<1>1. ASSUME NEW d, Whole(d) = Whole(doc) PROVE d = doc
  <2>1. 1 \in 1..Chunks
    BY DocAssumption
  <2>2. Whole(d)[1] = <<d, 1>> /\ Whole(doc)[1] = <<doc, 1>>
    BY <2>1 DEF Whole
  <2> QED
    BY <1>1, <2>2
<1> QED
  BY <1>1 DEF DigestOf

\* Bytes reach the artefact's path only when they are those of a document its version
\* has been pinned to (fetcher.py, fetch_source), whatever fetches fail, die, or run
\* at once for other versions, and however the registry is edited meanwhile.
THEOREM ArtefactIsPinned == Spec => []ArtefactPinned
<1>1. FInv => ArtefactPinned
  <2> SUFFICES ASSUME FInv, NEW v \in Versions, raw[v] # Null, v \notin shared
               PROVE  <<v, DigestOf(Bytes(raw[v]))>> \in pinned
    BY DEF ArtefactPinned
  <2>1. PICK doc \in scene.pins : <<v, doc>> \in pinned /\ disk[raw[v]] = Whole(doc)
    BY DEF FInv, Published
  <2> QED
    BY <2>1, DigestOfWhole DEF Bytes
<1> QED
  BY <1>1, InitFInv, NextFInv, PTL DEF Spec

-----------------------------------------------------------------------------
(* The stream and its manifest                                             *)

\* What the registry may say: a document, and how it is parsed.
Entries == Documents \X Specs

\* What may stand on a line of a stream.
Line == {CutLine} \cup UNION {ToSet(BlocksOf[e]) : e \in {d \in Entries : BlocksOf[d] # Null}}

ParsePcs == {"idle", "read", "open", "write", "meta", "record", "ok", "failed"}

Parses == [pc : ParsePcs, version : Nat, spec : Specs \cup {Null}, digest : Documents \cup {Null},
           source : Entries \cup {Null}, blocks : Seq(Line) \cup {Null}]

Metas == [source_sha256 : Documents \cup {Null}, block_count : Nat] \cup {Null, Torn}

\* The start of b, up to all of it.
Prefix(s, b) == Len(s) <= Len(b) /\ s = SubSeq(b, 1, Len(s))

\* What docs-parse has written is what it has come to, of a document's blocks.
Writing(p, s) ==
    /\ p \in Parses
    /\ p.pc # "idle" => p.version \in Versions /\ p.spec \in Specs
    /\ p.pc \in {"open", "write", "meta", "record"} =>
            /\ p.source \in Entries
            /\ BlocksOf[p.source] # Null /\ p.blocks = BlocksOf[p.source]
    /\ p.pc \in {"write", "meta", "record"} =>
            s[p.version] \in Seq(Line) /\ Prefix(s[p.version], p.blocks)
    /\ p.pc \in {"meta", "record"} => s[p.version] = p.blocks

\* The files of docs-parse, and the parse that writes them.
PInv ==
    /\ stream \in [Versions -> Seq(Line) \cup {Null}]
    /\ meta \in [Versions -> Metas]
    /\ deaths \in Nat
    /\ Writing(parse, stream)

\* A document's blocks are lines of a stream, none of them cut.
LEMMA BlocksAreLines ==
  ASSUME NEW e \in Entries, BlocksOf[e] # Null
  PROVE  /\ BlocksOf[e] \in Seq(Line)
         /\ CutLine \notin ToSet(BlocksOf[e])
<1>1. ToSet(BlocksOf[e]) \subseteq Line
  BY DEF Line
<1>2. BlocksOf[e] \in Seq(ToSet(BlocksOf[e])) /\ CutLine \notin ToSet(BlocksOf[e])
  <2>1. e[1] \in Documents /\ e[2] \in Specs
    BY DEF Entries
  <2>2. IsDocument(Pages[e[1]]) /\ IsParseSpec(Sections[e[2]])
    BY <2>1, DocumentAssumption, SectionAssumption
  <2>3. BlocksOf[e] = ParseDocument(Pages[e[1]], Sections[e[2]])
    BY DEF BlocksOf, Entries
  <2>4. /\ BlocksOf[e] \in Seq(ToSet(BlocksOf[e]))
        /\ \A b \in ToSet(BlocksOf[e]) : b.type \in Types
    BY <2>2, <2>3, ParsedBlocks
  <2>5. CutLine.type \notin Types
    BY DEF CutLine, Types
  <2> QED
    BY <2>4, <2>5
<1> HIDE DEF Line
<1>3. \A S, T : S \subseteq T => Seq(S) \subseteq Seq(T)
  OBVIOUS
<1> QED
  BY <1>1, <1>2, <1>3

\* One more block of a sequence keeps what is written a prefix.
LEMMA PrefixGrows ==
  ASSUME NEW S, NEW b \in Seq(S), NEW s \in Seq(S), Prefix(s, b), Len(s) < Len(b)
  PROVE  /\ b[Len(s) + 1] \in S
         /\ Append(s, b[Len(s) + 1]) \in Seq(S)
         /\ Prefix(Append(s, b[Len(s) + 1]), b)
<1> DEFINE n == Len(s)
           t == Append(s, b[n + 1])
<1>1. n \in Nat /\ n + 1 \in 1..Len(b) /\ b[n + 1] \in S
  OBVIOUS
<1>2. t \in Seq(S) /\ Len(t) = n + 1
  BY <1>1
<1>3. SubSeq(b, 1, n + 1) \in Seq(S) /\ Len(SubSeq(b, 1, n + 1)) = n + 1
  BY <1>1
<1>4. \A i \in 1..(n + 1) : t[i] = SubSeq(b, 1, n + 1)[i]
  <2> SUFFICES ASSUME NEW i \in 1..(n + 1) PROVE t[i] = b[i]
    BY <1>1
  <2>1. CASE i = n + 1
    BY <1>1, <2>1
  <2>2. CASE i # n + 1
    <3>1. i \in 1..n /\ t[i] = s[i]
      BY <1>1, <2>2
    <3>2. s[i] = SubSeq(b, 1, n)[i]
      BY DEF Prefix
    <3>3. SubSeq(b, 1, n)[i] = b[i]
      BY <1>1, <3>1
    <3> QED
      BY <3>1, <3>2, <3>3
  <2> QED
    BY <2>1, <2>2
<1>5. t = SubSeq(b, 1, n + 1)
  BY <1>2, <1>3, <1>4, SeqEqual
<1> QED
  BY <1>1, <1>2, <1>5 DEF Prefix

\* What is as long as the whole is the whole.
LEMMA PrefixWhole ==
  ASSUME NEW S, NEW b \in Seq(S), NEW s, Prefix(s, b), Len(s) = Len(b)
  PROVE  s = b
<1>1. SubSeq(b, 1, Len(b)) = b
  OBVIOUS
<1> QED
  BY <1>1 DEF Prefix

\* Nothing is parsed when the first command starts.
LEMMA InitPInv == Init => PInv
<1> SUFFICES ASSUME Init PROVE PInv
  OBVIOUS
<1>1. NoParse \in Parses /\ NoParse.pc = "idle"
  BY DEF NoParse, Parses, ParsePcs
<1>2. parse = NoParse /\ deaths \in Nat
  BY DEF Init
<1>3. stream \in [Versions -> Seq(Line) \cup {Null}] /\ meta \in [Versions -> Metas]
  BY DEF Init, Metas
<1> QED
  BY <1>1, <1>2, <1>3 DEF PInv, Writing

\* A command of another kind.
LEMMA OtherPInv ==
  ASSUME PInv, UNCHANGED <<stream, meta, parse>>, deaths' \in Nat PROVE PInv'
BY DEF PInv, Writing

\* A digest is one of a document the registry pins or the server sends.
LEMMA DigestType ==
  ASSUME FInv, NEW bytes PROVE DigestOf(bytes) \in Documents \cup {Null}
<1>1. scene \in Scenarios
  BY DEF FInv, Typed
<1>2. scene.pins \cup scene.sends \in {s.pins \cup s.sends : s \in Scenarios}
  BY <1>1
<1>3. scene.sends \cup scene.pins \subseteq Documents
  BY <1>2 DEF Documents
<1> QED
  BY <1>3 DEF DigestOf

\* docs-parse takes the version the registry has then (manage.py, _cmd_docs_parse).
LEMMA StartParsePInv == ASSUME FInv, PInv, StartParse PROVE PInv'
<1> DEFINE v == registry.version
           digest == IF raw[v] = Null THEN Null ELSE DigestOf(Bytes(raw[v]))
           pc == IF digest # Null /\ manifest[v] = digest THEN "read" ELSE "failed"
           spec == registry.spec
           p == [NoParse EXCEPT !.version = v, !.spec = spec, !.digest = digest, !.pc = pc]
<1>1. v \in Versions /\ v \in Nat
  BY DocAssumption DEF FInv, Typed
<1>6. spec \in Specs
  BY DEF FInv, Typed, Specs
<1>2. digest \in Documents \cup {Null}
  BY DigestType
<1>3. parse' = p /\ UNCHANGED <<stream, meta, deaths>>
  BY DEF StartParse, files, Starts
<1>4. pc \in {"read", "failed"}
  OBVIOUS
<1> HIDE DEF v, spec, digest, pc
<1>5. p \in Parses /\ p.pc = pc /\ p.version = v /\ p.spec = spec
  BY <1>1, <1>2, <1>4, <1>6 DEF NoParse, Parses, ParsePcs
<1> HIDE DEF p
<1> QED
  BY <1>1, <1>3, <1>4, <1>5, <1>6 DEF PInv, Writing

\* What it goes on to write are the blocks of the document it has read.
LEMMA ReadPdfPInv == ASSUME FInv, PInv, ReadPdf PROVE PInv'
<1> DEFINE v == parse.version
           doc == IF raw[v] = Null THEN Null ELSE DigestOf(Bytes(raw[v]))
           source == IF doc = Null THEN Null ELSE <<doc, parse.spec>>
           blocks == IF source = Null THEN Null ELSE BlocksOf[source]
           pc == IF blocks \in {Null, <<>>} THEN "failed" ELSE "open"
           p == [parse EXCEPT !.source = source, !.blocks = blocks, !.pc = pc]
<1>1. parse \in Parses /\ v \in Versions /\ parse.pc = "read" /\ parse.spec \in Specs
  BY DEF PInv, Writing, ReadPdf
<1>2. source \in Entries \cup {Null}
  <2>1. doc \in Documents \cup {Null}
    BY DigestType
  <2> HIDE DEF doc
  <2> QED
    BY <1>1, <2>1 DEF Entries
<1>3. blocks # Null => source \in Entries /\ blocks = BlocksOf[source]
  BY <1>2
<1>4. blocks \in Seq(Line) \cup {Null}
  BY <1>3, BlocksAreLines
<1>5. pc \in {"failed", "open"} /\ (pc = "open" => blocks # Null)
  OBVIOUS
<1>6. parse' = p /\ UNCHANGED <<stream, meta, deaths>>
  BY DEF ReadPdf, files, counts
<1> HIDE DEF doc, source, blocks, pc
<1>7. /\ p \in Parses /\ p.pc = pc /\ p.version = v /\ p.blocks = blocks /\ p.source = source
      /\ p.spec = parse.spec
  BY <1>1, <1>2, <1>4, <1>5 DEF Parses, ParsePcs
<1> HIDE DEF p, v
<1> QED
  BY <1>1, <1>3, <1>5, <1>6, <1>7 DEF PInv, Writing

\* An emptied stream is the start of anything.
LEMMA OpenStreamPInv == ASSUME PInv, OpenStream PROVE PInv'
<1> DEFINE v == parse.version
           p == [parse EXCEPT !.pc = "write"]
<1>1. /\ parse \in Parses /\ parse.spec \in Specs /\ v \in Versions
      /\ parse.source \in Entries /\ BlocksOf[parse.source] # Null
      /\ parse.blocks = BlocksOf[parse.source]
  BY DEF PInv, Writing, OpenStream
<1>2. /\ parse' = p /\ stream' = [stream EXCEPT ![v] = <<>>]
      /\ UNCHANGED <<meta, deaths>>
  BY DEF OpenStream, counts
<1>3. /\ p \in Parses /\ p.pc = "write" /\ p.version = v /\ p.blocks = parse.blocks
      /\ p.source = parse.source /\ p.spec = parse.spec
  BY <1>1 DEF Parses, ParsePcs
<1>4. parse.blocks \in Seq(Line)
  BY <1>1, BlocksAreLines
<1>5. <<>> \in Seq(Line) /\ Prefix(<<>>, parse.blocks)
  BY <1>4 DEF Prefix
<1>6. stream' \in [Versions -> Seq(Line) \cup {Null}] /\ stream'[v] = <<>>
  BY <1>1, <1>2, <1>5 DEF PInv
<1> HIDE DEF p, v
<1> QED
  BY <1>1, <1>2, <1>3, <1>5, <1>6 DEF PInv, Writing

\* The writer ends when it has written as many lines as there are blocks.
LEMMA WriteBlockPInv == ASSUME PInv, WriteBlock PROVE PInv'
<1> DEFINE v == parse.version
           done == Len(stream[v])
           next == parse.blocks[done + 1]
<1>1. /\ parse \in Parses /\ parse.spec \in Specs /\ v \in Versions /\ parse.pc = "write"
      /\ parse.source \in Entries /\ BlocksOf[parse.source] # Null
      /\ parse.blocks = BlocksOf[parse.source]
      /\ stream[v] \in Seq(Line) /\ Prefix(stream[v], parse.blocks)
  BY DEF PInv, Writing, WriteBlock
<1>2. parse.blocks \in Seq(Line)
  BY <1>1, BlocksAreLines
<1>3. UNCHANGED <<meta, deaths>>
  BY DEF WriteBlock, counts
<1>4. CASE done < Len(parse.blocks)
  <2>1. stream' = [stream EXCEPT ![v] = Append(@, next)] /\ UNCHANGED parse
    BY <1>4 DEF WriteBlock, More
  <2>2. Append(stream[v], next) \in Seq(Line) /\ Prefix(Append(stream[v], next), parse.blocks)
    BY <1>1, <1>2, <1>4, PrefixGrows
  <2>3. stream' \in [Versions -> Seq(Line) \cup {Null}] /\ stream'[v] = Append(stream[v], next)
    BY <1>1, <2>1, <2>2 DEF PInv
  <2> QED
    BY <1>1, <1>3, <2>1, <2>2, <2>3 DEF PInv, Writing
<1>5. CASE ~(done < Len(parse.blocks))
  <2> DEFINE p == [parse EXCEPT !.pc = "meta"]
  <2>1. parse' = p /\ UNCHANGED stream
    BY <1>5 DEF WriteBlock, More
  <2>2. /\ p \in Parses /\ p.pc = "meta" /\ p.version = v /\ p.blocks = parse.blocks
        /\ p.source = parse.source /\ p.spec = parse.spec
    BY <1>1 DEF Parses, ParsePcs
  <2>3. Len(stream[v]) = Len(parse.blocks)
    BY <1>1, <1>2, <1>5 DEF Prefix
  <2>4. stream[v] = parse.blocks
    BY <1>1, <1>2, <2>3, PrefixWhole
  <2> HIDE DEF p, v
  <2> QED
    BY <1>1, <1>3, <2>1, <2>2, <2>4 DEF PInv, Writing
<1> QED
  BY <1>4, <1>5

\* The manifest is written beside a stream that is whole.
LEMMA MetaPInv == ASSUME PInv, OpenMeta \/ WriteMeta PROVE PInv'
<1> DEFINE v == parse.version
           next == IF parse.pc = "meta" THEN "record" ELSE "ok"
           p == [parse EXCEPT !.pc = next]
           said == [source_sha256 |-> parse.digest, block_count |-> Len(parse.blocks)]
<1>1. /\ parse \in Parses /\ parse.spec \in Specs /\ v \in Versions /\ parse.pc \in {"meta", "record"}
      /\ parse.source \in Entries /\ BlocksOf[parse.source] # Null
      /\ parse.blocks = BlocksOf[parse.source]
      /\ stream[v] \in Seq(Line) /\ Prefix(stream[v], parse.blocks) /\ stream[v] = parse.blocks
  BY DEF PInv, Writing, OpenMeta, WriteMeta
<1>2. said \in Metas /\ Torn \in Metas
  BY <1>1 DEF Metas, Parses
<1>3. /\ parse' = p /\ UNCHANGED <<stream, deaths>>
      /\ \E m \in {said, Torn} : meta' = [meta EXCEPT ![v] = m]
  BY DEF OpenMeta, WriteMeta, counts
<1>4. /\ p \in Parses /\ p.pc = next /\ p.version = v /\ p.blocks = parse.blocks
      /\ p.source = parse.source /\ p.spec = parse.spec
  BY <1>1 DEF Parses, ParsePcs
<1>5. meta' \in [Versions -> Metas]
  BY <1>1, <1>2, <1>3 DEF PInv
<1> HIDE DEF p, v
<1> QED
  BY <1>1, <1>3, <1>4, <1>5 DEF PInv, Writing

\* A death leaves the stream as it is, or with a line that is cut.
LEMMA ParseDiesPInv == ASSUME PInv, ParseDies PROVE PInv'
<1>1. NoParse \in Parses /\ NoParse.pc = "idle"
  BY DEF NoParse, Parses, ParsePcs
<1>2. parse' = NoParse /\ deaths' \in Nat /\ UNCHANGED meta
  BY DEF ParseDies, Dead, PInv
<1>3. stream' \in [Versions -> Seq(Line) \cup {Null}]
  <2>1. CASE UNCHANGED stream
    BY <2>1 DEF PInv
  <2>2. CASE /\ parse.pc = "write"
             /\ stream' = [stream EXCEPT ![parse.version] = Append(@, CutLine)]
    <3>1. parse.version \in Versions /\ stream[parse.version] \in Seq(Line)
      BY <2>2 DEF PInv, Writing
    <3>2. CutLine \in Line
      BY DEF Line
    <3>3. Append(stream[parse.version], CutLine) \in Seq(Line)
      BY <3>1, <3>2
    <3> QED
      BY <2>2, <3>1, <3>3 DEF PInv
  <2> QED
    BY <2>1, <2>2 DEF ParseDies
<1> QED
  BY <1>1, <1>2, <1>3 DEF PInv, Writing

\* Every step keeps the stream in step with its writer.
LEMMA NextPInv == FInv /\ PInv /\ [Next]_vars => PInv'
<1> SUFFICES ASSUME FInv, PInv, [Next]_vars PROVE PInv'
  OBVIOUS
<1>1. deaths \in Nat
  BY DEF PInv
<1>2. ASSUME NEW f \in scene.fetchers, FetchStep(f) PROVE PInv'
  BY <1>1, <1>2, OtherPInv
     DEF FetchStep, StartFetch, Verify, Request, Refused, Receive, BreaksOff, Compare, Replace,
         OpenManifest, WriteManifest, files, counts, Starts
<1>3. ASSUME NEW f \in scene.fetchers, FetchDies(f) PROVE PInv'
  BY <1>1, <1>3, OtherPInv DEF FetchDies, files, Dead
<1>4. CASE ParseStep
  BY <1>4, StartParsePInv, ReadPdfPInv, OpenStreamPInv, WriteBlockPInv, MetaPInv DEF ParseStep
<1>5. CASE ParseDies
  BY <1>5, ParseDiesPInv
<1>6. CASE Load \/ Repin \/ \E v \in Versions : DeleteArtefact(v)
  BY <1>1, <1>6, OtherPInv DEF Load, Repin, DeleteArtefact, Starts, files, counts
<1>7. CASE UNCHANGED vars
  BY <1>1, <1>7, OtherPInv DEF vars, files, counts
<1> QED
  BY <1>2, <1>3, <1>4, <1>5, <1>6, <1>7 DEF Next

-----------------------------------------------------------------------------
(* What a fetch has received, and what its manifest says                   *)

\* The first chunk of a download is of the document it is sent; a manifest is of a pin.
RInv ==
    /\ manifest \in [Versions -> scene.pins \cup {Null, Torn}]
    /\ \A f \in Fetchers : Downloading(f) /\ fetch[f].got # <<>> =>
            fetch[f].got[1] = <<fetch[f].sent, 1>>

\* There is no download and no manifest at first.
LEMMA InitRInv == Init => RInv
BY DEF Init, RInv, Downloading, NoFetch

\* A fetch goes on to a stage of which the first chunk is its document's.
LEMMA SetsRInv ==
  ASSUME FInv, RInv, NEW f \in Fetchers, NEW r, fetch' = [fetch EXCEPT ![f] = r],
         r.pc \in {"stream", "compare", "replace"} /\ r.got # <<>> => r.got[1] = <<r.sent, 1>>,
         UNCHANGED scene, manifest' \in [Versions -> scene.pins \cup {Null, Torn}]
  PROVE  RInv'
<1>1. \A g \in Fetchers : fetch'[g] = IF g = f THEN r ELSE fetch[g]
  BY DEF FInv, Typed
<1> QED
  BY <1>1 DEF RInv, Downloading

\* It goes on with what it has received.
LEMMA StageRInv ==
  ASSUME FInv, RInv, NEW f \in Fetchers, NEW pc, Stage(f, pc),
         Downloading(f) \/ pc \notin {"stream", "compare", "replace"},
         UNCHANGED scene, manifest' \in [Versions -> scene.pins \cup {Null, Torn}]
  PROVE  RInv'
<1> DEFINE r == [fetch[f] EXCEPT !.pc = pc]
<1>1. fetch[f] \in Fetches
  BY DEF FInv, Typed
<1>2. r.pc = pc /\ r.got = fetch[f].got /\ r.sent = fetch[f].sent
  BY <1>1 DEF Fetches
<1>3. fetch' = [fetch EXCEPT ![f] = r]
  BY DEF Stage, Sets
<1> HIDE DEF r
<1> QED
  BY <1>2, <1>3, SetsRInv DEF RInv, Downloading

\* The first chunk is of the document that is sent; later ones come after it.
LEMMA ReceiveRInv ==
  ASSUME FInv, RInv, NEW f \in Fetchers, Receive(f) PROVE RInv'
<1> DEFINE at == Len(fetch[f].got) + 1
           chunk == <<fetch[f].sent, at>>
           pc == IF at = Chunks THEN "compare" ELSE "stream"
           r == [fetch[f] EXCEPT !.got = Append(@, chunk), !.pc = pc]
<1>1. fetch[f] \in Fetches /\ fetch[f].got \in Seq(Byte) /\ Downloading(f)
  BY DEF FInv, Typed, Fetches, Receive, Downloading
<1>2. Asked(fetch[f]) /\ fetch[f].pc = "stream"
  BY DEF FInv, Receive
<1>3. chunk \in Byte
  BY <1>1, <1>2 DEF Byte, Asked
<1>4. fetch' = [fetch EXCEPT ![f] = r] /\ UNCHANGED <<scene, manifest>>
  BY DEF Receive, Sets
<1>5. r.got = Append(fetch[f].got, chunk) /\ r.sent = fetch[f].sent
  BY <1>1 DEF Fetches
<1>6. Append(fetch[f].got, chunk)[1] = <<fetch[f].sent, 1>>
  <2>1. CASE fetch[f].got = <<>>
    BY <1>1, <1>3, <2>1
  <2>2. CASE fetch[f].got # <<>>
    <3>1. 1 \in 1..Len(fetch[f].got)
      BY <1>1, <2>2
    <3> HIDE DEF chunk
    <3>2. Append(fetch[f].got, chunk)[1] = fetch[f].got[1]
      BY <1>1, <1>3, <3>1
    <3> QED
      BY <1>1, <2>2, <3>2 DEF RInv
  <2> QED
    BY <2>1, <2>2
<1> HIDE DEF r, chunk, at, pc
<1> QED
  BY <1>4, <1>5, <1>6, SetsRInv DEF RInv

\* A download starts with nothing received.
LEMMA RequestRInv ==
  ASSUME FInv, RInv, NEW f \in Fetchers, Request(f) PROVE RInv'
<1> DEFINE inode == IF part[fetch[f].version] = Null THEN Len(disk) + 1
                    ELSE part[fetch[f].version]
<1>1. fetch[f] \in Fetches /\ fetch[f].got = <<>>
  BY DEF FInv, Typed, Request, Asked
<1>2. PICK doc \in scene.sends :
        fetch' = [fetch EXCEPT ![f] = [fetch[f] EXCEPT !.pc = "stream", !.inode = inode,
                                                       !.sent = doc]]
  BY DEF Request, Sets
<1> DEFINE r == [fetch[f] EXCEPT !.pc = "stream", !.inode = inode, !.sent = doc]
<1>3. r.got = <<>> /\ UNCHANGED <<scene, manifest>>
  BY <1>1 DEF Fetches, Request
<1> QED
  BY <1>2, <1>3, SetsRInv DEF RInv

\* Every step of fetch_source keeps it, also those that write the manifest.
LEMMA FetchStepRInv ==
  ASSUME FInv, RInv, NEW f \in Fetchers, FetchStep(f) PROVE RInv'
<1>1. manifest \in [Versions -> scene.pins \cup {Null, Torn}]
  BY DEF RInv
<1>2. CASE StartFetch(f)
  <2> DEFINE r == [NoFetch EXCEPT !.version = registry.version, !.pin = registry.pin,
                                  !.pc = IF raw[registry.version] = Null THEN "request"
                                         ELSE "verify"]
  <2>1. r.got = <<>> /\ fetch' = [fetch EXCEPT ![f] = r] /\ UNCHANGED <<scene, manifest>>
    BY <1>2 DEF StartFetch, Sets, NoFetch, files
  <2> HIDE DEF r
  <2> QED
    BY <1>1, <2>1, SetsRInv
<1>3. CASE Verify(f) \/ Refused(f) \/ BreaksOff(f) \/ Compare(f) \/ Replace(f)
  BY <1>1, <1>3, StageRInv
     DEF Verify, Refused, BreaksOff, Compare, Replace, files, Downloading
<1>4. CASE Request(f)
  BY <1>4, RequestRInv
<1>5. CASE Receive(f)
  BY <1>5, ReceiveRInv
<1>6. CASE OpenManifest(f)
  <2>1. manifest' \in [Versions -> scene.pins \cup {Null, Torn}]
    BY <1>1, <1>6 DEF OpenManifest
  <2> QED
    BY <1>6, <2>1, StageRInv DEF OpenManifest
<1>7. CASE WriteManifest(f)
  <2>1. fetch[f].pin \in scene.pins
    BY <1>7 DEF FInv, Asked, WriteManifest
  <2>2. manifest' \in [Versions -> scene.pins \cup {Null, Torn}]
    BY <1>1, <1>7, <2>1 DEF WriteManifest
  <2> QED
    BY <1>7, <2>2, StageRInv DEF WriteManifest
<1> QED
  BY <1>2, <1>3, <1>4, <1>5, <1>6, <1>7 DEF FetchStep

\* And so does every other step.
LEMMA NextRInv == FInv /\ RInv /\ [Next]_vars => RInv'
<1> SUFFICES ASSUME FInv, RInv, [Next]_vars PROVE RInv'
  OBVIOUS
<1>1. scene.fetchers \subseteq Fetchers /\ manifest \in [Versions -> scene.pins \cup {Null, Torn}]
  BY DocAssumption DEF FInv, Typed, RInv
<1>2. ASSUME NEW f \in scene.fetchers, FetchStep(f) PROVE RInv'
  BY <1>1, <1>2, FetchStepRInv
<1>3. ASSUME NEW f \in scene.fetchers, FetchDies(f) PROVE RInv'
  BY <1>1, <1>3, SetsRInv DEF FetchDies, Sets, files, NoFetch
<1>4. CASE ParseStep \/ ParseDies \/ Load \/ Repin \/ \E v \in Versions : DeleteArtefact(v)
  <2>1. UNCHANGED <<scene, manifest, fetch>>
    BY <1>4 DEF ParseStep, ParseDies, StartParse, ReadPdf, OpenStream, WriteBlock, OpenMeta,
                WriteMeta, Load, Repin, DeleteArtefact, files
  <2> QED
    BY <2>1 DEF RInv, Downloading
<1>5. CASE UNCHANGED vars
  BY <1>5 DEF RInv, Downloading, vars, files
<1> QED
  BY <1>2, <1>3, <1>4, <1>5 DEF Next

\* The states of fetches, of the parse, and of their files fit each other.
THEOREM TypeIsSound == Spec => []TypeOK
<1>1. FInv /\ PInv /\ RInv => TypeOK
  <2> SUFFICES ASSUME FInv, PInv, RInv PROVE TypeOK
    OBVIOUS
  <2>1. \A v \in Versions : /\ {part[v], raw[v]} \subseteq DOMAIN disk \cup {Null}
                            /\ part[v] # Null => part[v] # raw[v]
                            /\ manifest[v] \in scene.pins \cup {Null, Torn}
    BY DEF FInv, Typed, Inodes, Separate, RInv
  <2>2. \A f \in Fetchers : fetch[f].pc \in FetchPcs
    <3>1. \A f \in Fetchers : fetch[f] \in Fetches
      BY DEF FInv, Typed
    <3> QED
      BY <3>1 DEF Fetches
  <2>3. \A f \in Fetchers : Downloading(f) => fetch[f].inode \in DOMAIN disk
    <3>1. DOMAIN disk = Inodes
      BY DEF FInv, Typed, Inodes
    <3> QED
      BY <3>1 DEF FInv, Asked, Downloading
  <2>4. \A f \in Fetchers : fetch[f].pc = "replace" => fetch[f].sent = fetch[f].pin
    <3> SUFFICES ASSUME NEW f \in Fetchers, fetch[f].pc = "replace"
                 PROVE  fetch[f].sent = fetch[f].pin
      OBVIOUS
    <3>1. fetch[f].got = Whole(fetch[f].pin) /\ fetch[f].got \in Seq(Byte)
      BY DEF FInv, Typed, Asked, Fetches
    <3>2. 1 \in 1..Chunks
      BY DocAssumption
    <3>3. fetch[f].got[1] = <<fetch[f].pin, 1>> /\ 1 \in DOMAIN fetch[f].got
      BY <3>1, <3>2 DEF Whole
    <3>4. fetch[f].got # <<>>
      BY <3>3
    <3>5. fetch[f].got[1] = <<fetch[f].sent, 1>>
      BY <3>4 DEF RInv, Downloading
    <3> QED
      BY <3>3, <3>5
  <2>5. /\ parse.pc \in ParsePcs
        /\ parse.pc \in {"open", "write", "meta", "record"} => parse.blocks # Null
        /\ parse.pc \in {"write", "meta", "record"} =>
                stream[parse.version] = SubSeq(parse.blocks, 1, Len(stream[parse.version]))
    BY DEF PInv, Writing, Parses, Prefix
  <2> QED
    BY <2>1, <2>2, <2>3, <2>4, <2>5 DEF TypeOK, FInv, Typed, FetchPcs, ParsePcs
<1> QED
  BY <1>1, InitFInv, NextFInv, InitPInv, NextPInv, InitRInv, NextRInv, PTL DEF Spec

-----------------------------------------------------------------------------
(* What a parse was started for                                            *)

\* A parse keeps to a parse block its version has had.
SInv == parse.pc # "idle" => <<parse.version, parse.spec>> \in declared

LEMMA InitSInv == Init => SInv
BY DEF Init, SInv, NoParse

LEMMA NextSInv == FInv /\ PInv /\ SInv /\ [Next]_vars => SInv'
<1> SUFFICES ASSUME FInv, PInv, SInv, [Next]_vars PROVE SInv'
  OBVIOUS
<1>1. ASSUME UNCHANGED parse, declared \subseteq declared' PROVE SInv'
  BY <1>1 DEF SInv
<1>2. ASSUME NEW f \in scene.fetchers, FetchStep(f) PROVE SInv'
  BY <1>1, <1>2
     DEF FetchStep, StartFetch, Verify, Request, Refused, Receive, BreaksOff, Compare, Replace,
         OpenManifest, WriteManifest, history
<1>3. ASSUME NEW f \in scene.fetchers, FetchDies(f) PROVE SInv'
  BY <1>1, <1>3 DEF FetchDies, history
<1>4. CASE StartParse
  <2>1. <<registry.version, registry.spec>> \in declared
    BY DEF FInv, Typed
  <2>2. parse'.version = registry.version /\ parse'.spec = registry.spec /\ UNCHANGED declared
    BY <1>4 DEF StartParse, NoParse, history
  <2> QED
    BY <2>1, <2>2 DEF SInv
<1>5. CASE ReadPdf \/ OpenStream \/ WriteBlock \/ OpenMeta \/ WriteMeta
  <2>1. parse.pc # "idle" /\ parse \in Parses
    BY <1>5 DEF ReadPdf, OpenStream, WriteBlock, OpenMeta, WriteMeta, PInv, Writing
  <2>2. parse'.version = parse.version /\ parse'.spec = parse.spec /\ UNCHANGED declared
    BY <1>5, <2>1 DEF ReadPdf, OpenStream, WriteBlock, OpenMeta, WriteMeta, Parses, history
  <2> QED
    BY <2>1, <2>2 DEF SInv
<1>6. CASE ParseDies
  BY <1>6 DEF ParseDies, NoParse, SInv
<1>7. CASE Load \/ Repin \/ \E v \in Versions : DeleteArtefact(v)
  BY <1>1, <1>7 DEF Load, Repin, DeleteArtefact, history
<1>8. CASE UNCHANGED vars
  BY <1>1, <1>8 DEF vars, history
<1> QED
  BY <1>2, <1>3, <1>4, <1>5, <1>6, <1>7, <1>8 DEF Next, ParseStep

-----------------------------------------------------------------------------
(* What a reader is given                                                  *)

\* No two downloads have written this version at once, and it has had this entry alone.
Settled(v, e) ==
    /\ v \notin shared
    /\ \A p \in pinned : p[1] = v => p[2] = e[1]
    /\ \A p \in declared : p[1] = v => p[2] = e[2]

\* The reader makes blocks of it.
IsParsed(e) == e \in Entries /\ BlocksOf[e] # Null

\* Without a cut line, what the stream of a settled version has is the start of its
\* document, all of it unless it is being written or a death has come; its
\* manifest has the number of the document's blocks.
Parsed ==
    \A v \in Versions, e \in Entries : Settled(v, e) =>
        /\ parse.version = v /\ parse.pc \in {"open", "write", "meta", "record"} =>
                IsParsed(e) /\ parse.blocks = BlocksOf[e]
        /\ stream[v] # Null /\ CutLine \notin ToSet(stream[v]) =>
                IsParsed(e) /\ Prefix(stream[v], BlocksOf[e])
        /\ meta[v] \notin {Null, Torn} =>
                IsParsed(e) /\ meta[v].block_count = Len(BlocksOf[e])
        /\ deaths = 0 /\ stream[v] # Null =>
                stream[v] = BlocksOf[e] \/ (parse.version = v /\ parse.pc = "write")

\* What the last reader was given is of a version and of an entry of it.
Given ==
    loaded # Null => /\ loaded.version \in Versions
                     /\ <<loaded.version, loaded.pin>> \in pinned
                     /\ <<loaded.version, loaded.spec>> \in declared
                     /\ <<loaded.pin, loaded.spec>> \in Entries

\* What readers are promised, with what it takes.
DInv == Parsed /\ Given /\ VouchedIsWhole /\ CutOnlyByDeath

\* No reader has been given anything at first.
LEMMA InitDInv == Init => DInv
BY DEF Init, DInv, Parsed, Given, VouchedIsWhole, CutOnlyByDeath, NoParse

\* Deaths, pins and shared downloads only become more.
LEMMA SettledBefore ==
  ASSUME NEW v, NEW e, shared \subseteq shared', pinned \subseteq pinned',
         declared \subseteq declared', Settled(v, e)'
  PROVE  Settled(v, e)
BY DEF Settled

\* What was given stays what it was: the premises of both promises only get harder.
LEMMA ReadersDInv ==
  ASSUME Given, VouchedIsWhole, CutOnlyByDeath, UNCHANGED loaded, deaths \in Nat,
         shared \subseteq shared', pinned \subseteq pinned',
         declared \subseteq declared', deaths' \in {deaths, deaths + 1}
  PROVE  Given' /\ VouchedIsWhole' /\ CutOnlyByDeath'
<1>1. deaths' = 0 => deaths = 0
  OBVIOUS
<1>2. \A v : PinnedOnce(v)' => PinnedOnce(v)
  BY DEF PinnedOnce, NamedOnce
<1>3. Given'
  BY DEF Given
<1>4. VouchedIsWhole'
  BY <1>2 DEF VouchedIsWhole
<1>5. CutOnlyByDeath'
  BY <1>1, <1>2 DEF CutOnlyByDeath
<1> QED
  BY <1>3, <1>4, <1>5

\* A command of another kind.
LEMMA OtherDInv ==
  ASSUME DInv, UNCHANGED <<stream, meta, parse, loaded>>, deaths \in Nat,
         shared \subseteq shared', pinned \subseteq pinned',
         declared \subseteq declared', deaths' \in {deaths, deaths + 1}
  PROVE  DInv'
<1>1. deaths' = 0 => deaths = 0
  OBVIOUS
<1>2. Parsed'
  BY <1>1, SettledBefore DEF DInv, Parsed
<1> QED
  BY <1>2, ReadersDInv DEF DInv

\* What is at the artefact's path of a settled version is its pin.
LEMMA ArtefactOfSettled ==
  ASSUME FInv, NEW v \in Versions, NEW e, Settled(v, e), raw[v] # Null
  PROVE  DigestOf(Bytes(raw[v])) = e[1]
<1>1. PICK d \in scene.pins : <<v, d>> \in pinned /\ disk[raw[v]] = Whole(d)
  BY DEF FInv, Published, Settled
<1>2. d = e[1]
  BY <1>1 DEF Settled
<1> QED
  BY <1>1, <1>2, DigestOfWhole DEF Bytes

\* A parse that starts has written nothing.
LEMMA StartParseDInv == ASSUME PInv, DInv, StartParse PROVE DInv'
<1>1. /\ parse'.pc \in {"read", "failed"} /\ parse.pc # "write"
      /\ UNCHANGED <<stream, meta, deaths, loaded, shared, pinned, declared>>
  BY DEF StartParse, files, history, Starts, NoParse
<1>2. Parsed'
  BY <1>1 DEF DInv, Parsed, Settled
<1> QED
  BY <1>1, <1>2, ReadersDInv DEF DInv, PInv

\* The blocks are those of the pin: between the digest and the reading, the artefact
\* of a settled version can be deleted or replaced only by the same document.
LEMMA ReadPdfDInv == ASSUME FInv, PInv, SInv, DInv, ReadPdf PROVE DInv'
<1> DEFINE v == parse.version
           doc == IF raw[v] = Null THEN Null ELSE DigestOf(Bytes(raw[v]))
           source == IF doc = Null THEN Null ELSE <<doc, parse.spec>>
           blocks == IF source = Null THEN Null ELSE BlocksOf[source]
           pc == IF blocks \in {Null, <<>>} THEN "failed" ELSE "open"
           p == [parse EXCEPT !.source = source, !.blocks = blocks, !.pc = pc]
<1>1. parse \in Parses /\ v \in Versions /\ parse.pc = "read"
  BY DEF PInv, Writing, ReadPdf
<1>2. parse' = p /\ UNCHANGED <<stream, meta, deaths, loaded, shared, pinned, declared>>
  BY DEF ReadPdf, files, counts, history
<1>3. pc = "open" => blocks # Null
  OBVIOUS
<1>4. blocks # Null => /\ doc # Null /\ raw[v] # Null
                       /\ source = <<doc, parse.spec>> /\ blocks = BlocksOf[source]
  OBVIOUS
<1>5. raw[v] # Null => doc = DigestOf(Bytes(raw[v]))
  OBVIOUS
<1>6. pc \in {"open", "failed"}
  OBVIOUS
<1> HIDE DEF doc, source, blocks, pc
<1>7. p.pc = pc /\ p.version = v /\ p.blocks = blocks
  BY <1>1 DEF Parses
<1> HIDE DEF p, v
<1>8. ASSUME NEW d \in Entries, Settled(v, d), pc = "open"
      PROVE  IsParsed(d) /\ blocks = BlocksOf[d]
  <2>1. doc = d[1]
    BY <1>1, <1>3, <1>4, <1>5, <1>8, ArtefactOfSettled
  <2>2. <<v, parse.spec>> \in declared
    BY <1>1 DEF SInv, v
  <2>3. parse.spec = d[2]
    BY <1>8, <2>2 DEF Settled
  <2>4. d = <<d[1], d[2]>>
    BY DEF Entries
  <2>5. source = d
    BY <1>3, <1>4, <1>8, <2>1, <2>3, <2>4
  <2> QED
    BY <1>3, <1>4, <1>8, <2>5 DEF IsParsed
<1>9. Parsed'
  <2> SUFFICES ASSUME NEW w \in Versions, NEW d \in Entries, Settled(w, d)
      PROVE
        /\ p.version = w /\ p.pc \in {"open", "write", "meta", "record"} =>
                IsParsed(d) /\ p.blocks = BlocksOf[d]
        /\ stream[w] # Null /\ CutLine \notin ToSet(stream[w]) =>
                IsParsed(d) /\ Prefix(stream[w], BlocksOf[d])
        /\ meta[w] \notin {Null, Torn} =>
                IsParsed(d) /\ meta[w].block_count = Len(BlocksOf[d])
        /\ deaths = 0 /\ stream[w] # Null =>
                stream[w] = BlocksOf[d] \/ (p.version = w /\ p.pc = "write")
    BY <1>2 DEF Parsed, Settled
  <2>1. p.version = w /\ p.pc \in {"open", "write", "meta", "record"} =>
            IsParsed(d) /\ p.blocks = BlocksOf[d]
    BY <1>6, <1>7, <1>8
  <2> QED
    BY <1>1, <2>1 DEF DInv, Parsed
<1> QED
  BY <1>2, <1>9, ReadersDInv DEF DInv, PInv

\* From here on the stream is being written, and its manifest is the old one.
LEMMA OpenStreamDInv == ASSUME PInv, DInv, OpenStream PROVE DInv'
<1> DEFINE v == parse.version
           p == [parse EXCEPT !.pc = "write"]
<1>1. parse \in Parses /\ v \in Versions /\ parse.pc = "open"
  BY DEF PInv, Writing, OpenStream
<1>2. /\ parse' = p /\ stream' = [stream EXCEPT ![v] = <<>>]
      /\ UNCHANGED <<meta, deaths, loaded, shared, pinned, declared>>
  BY DEF OpenStream, counts, history
<1>3. p.pc = "write" /\ p.version = v /\ p.blocks = parse.blocks
  BY <1>1 DEF Parses
<1>4. \A w \in Versions : stream'[w] = IF w = v THEN <<>> ELSE stream[w]
  BY <1>1, <1>2 DEF PInv
<1>5. ASSUME NEW d \in Entries, IsParsed(d) PROVE Prefix(<<>>, BlocksOf[d])
  BY <1>5, BlocksAreLines DEF Prefix, IsParsed
<1> HIDE DEF p, v
<1>6. Parsed'
  <2> SUFFICES ASSUME NEW w \in Versions, NEW d \in Entries, Settled(w, d)
      PROVE
        /\ p.version = w => IsParsed(d) /\ p.blocks = BlocksOf[d]
        /\ stream'[w] # Null /\ CutLine \notin ToSet(stream'[w]) =>
                IsParsed(d) /\ Prefix(stream'[w], BlocksOf[d])
        /\ meta[w] \notin {Null, Torn} =>
                IsParsed(d) /\ meta[w].block_count = Len(BlocksOf[d])
        /\ deaths = 0 /\ stream'[w] # Null => stream'[w] = BlocksOf[d] \/ p.version = w
    BY <1>2, <1>3 DEF Parsed, Settled
  <2>1. CASE w = v
    <3>1. IsParsed(d) /\ parse.blocks = BlocksOf[d]
      BY <1>1, <2>1 DEF DInv, Parsed, v
    <3> QED
      BY <1>3, <1>4, <1>5, <2>1, <3>1 DEF DInv, Parsed
  <2>2. CASE w # v
    BY <1>1, <1>3, <1>4, <2>2 DEF DInv, Parsed
  <2> QED
    BY <2>1, <2>2
<1> QED
  BY <1>2, <1>6, ReadersDInv DEF DInv, PInv

\* A stream that is being written is the start of its document.
LEMMA WriteBlockDInv == ASSUME PInv, PInv', DInv, WriteBlock PROVE DInv'
<1> DEFINE v == parse.version
<1>1. /\ parse \in Parses /\ v \in Versions /\ parse.pc = "write"
      /\ Prefix(stream[v], parse.blocks)
  BY DEF PInv, Writing, WriteBlock
<1>2. /\ UNCHANGED <<meta, deaths, loaded, shared, pinned, declared>>
      /\ parse'.version = v /\ parse'.blocks = parse.blocks
      /\ \A w \in Versions : w # v => stream'[w] = stream[w]
      /\ parse'.pc \in {"write", "meta"} /\ (parse'.pc = "meta" => UNCHANGED stream)
  BY <1>1 DEF WriteBlock, counts, history, PInv, Parses
<1>3. Prefix(stream'[v], parse.blocks) /\ (parse'.pc = "meta" => stream'[v] = parse.blocks)
  BY <1>2 DEF PInv, Writing
<1> HIDE DEF v
<1>4. Parsed'
  <2> SUFFICES ASSUME NEW w \in Versions, NEW d \in Entries, Settled(w, d)
      PROVE
        /\ v = w => IsParsed(d) /\ parse.blocks = BlocksOf[d]
        /\ stream'[w] # Null /\ CutLine \notin ToSet(stream'[w]) =>
                IsParsed(d) /\ Prefix(stream'[w], BlocksOf[d])
        /\ meta[w] \notin {Null, Torn} =>
                IsParsed(d) /\ meta[w].block_count = Len(BlocksOf[d])
        /\ deaths = 0 /\ stream'[w] # Null =>
                stream'[w] = BlocksOf[d] \/ (v = w /\ parse'.pc = "write")
    BY <1>2 DEF Parsed, Settled
  <2>1. v = w => IsParsed(d) /\ parse.blocks = BlocksOf[d]
    BY <1>1 DEF DInv, Parsed, v
  <2>2. CASE w = v
    BY <1>2, <1>3, <2>1, <2>2 DEF DInv, Parsed
  <2>3. CASE w # v
    BY <1>1, <1>2, <2>1, <2>3 DEF DInv, Parsed, v
  <2> QED
    BY <2>2, <2>3
<1> QED
  BY <1>2, <1>4, ReadersDInv DEF DInv, PInv

\* The count is that of the document's blocks.
LEMMA MetaDInv == ASSUME PInv, DInv, OpenMeta \/ WriteMeta PROVE DInv'
<1> DEFINE v == parse.version
<1>1. /\ parse \in Parses /\ v \in Versions /\ parse.pc \in {"meta", "record"}
      /\ stream[v] = parse.blocks
  BY DEF PInv, Writing, OpenMeta, WriteMeta
<1>2. /\ UNCHANGED <<stream, deaths, loaded, shared, pinned, declared>>
      /\ parse'.version = v /\ parse'.blocks = parse.blocks
      /\ \A w \in Versions : w # v => meta'[w] = meta[w]
      /\ parse'.pc \in {"record", "ok"}
      /\ meta'[v] = Torn \/ meta'[v].block_count = Len(parse.blocks)
  <2>1. CASE OpenMeta
    BY <1>1, <2>1 DEF OpenMeta, counts, history, PInv, Parses
  <2>2. CASE WriteMeta
    BY <1>1, <2>2 DEF WriteMeta, counts, history, PInv, Parses
  <2> QED
    BY <2>1, <2>2
<1> HIDE DEF v
<1>3. Parsed'
  <2> SUFFICES ASSUME NEW w \in Versions, NEW d \in Entries, Settled(w, d)
      PROVE
        /\ v = w => IsParsed(d) /\ parse.blocks = BlocksOf[d]
        /\ stream[w] # Null /\ CutLine \notin ToSet(stream[w]) =>
                IsParsed(d) /\ Prefix(stream[w], BlocksOf[d])
        /\ meta'[w] \notin {Null, Torn} =>
                IsParsed(d) /\ meta'[w].block_count = Len(BlocksOf[d])
        /\ deaths = 0 /\ stream[w] # Null => stream[w] = BlocksOf[d]
    BY <1>2 DEF Parsed, Settled
  <2>1. v = w => IsParsed(d) /\ parse.blocks = BlocksOf[d]
    BY <1>1 DEF DInv, Parsed, v
  <2>2. deaths = 0 /\ stream[w] # Null => stream[w] = BlocksOf[d]
    BY <1>1 DEF DInv, Parsed
  <2> QED
    BY <1>2, <2>1, <2>2 DEF DInv, Parsed
<1> QED
  BY <1>2, <1>3, ReadersDInv DEF DInv, PInv

\* Whatever a death cuts, no line that is whole is another document's.
LEMMA ParseDiesDInv == ASSUME PInv, DInv, ParseDies PROVE DInv'
<1> DEFINE v == parse.version
<1>1. /\ parse'.pc = "idle" /\ deaths' = deaths + 1 /\ deaths \in Nat
      /\ UNCHANGED <<meta, loaded, shared, pinned, declared>>
  BY DEF ParseDies, Dead, NoParse, PInv, history
<1>2. \A w \in Versions : stream'[w] = stream[w] \/ CutLine \in ToSet(stream'[w])
  <2>1. CASE UNCHANGED stream
    BY <2>1
  <2>2. CASE /\ parse.pc = "write"
             /\ stream' = [stream EXCEPT ![v] = Append(@, CutLine)]
    <3>1. v \in Versions /\ stream[v] \in Seq(Line)
      BY <2>2 DEF PInv, Writing
    <3>2. CutLine \in Line
      BY DEF Line
    <3>3. LET s == Append(stream[v], CutLine)
          IN  Len(stream[v]) + 1 \in DOMAIN s /\ s[Len(stream[v]) + 1] = CutLine
      BY <3>1, <3>2
    <3>4. CutLine \in ToSet(Append(stream[v], CutLine))
      BY <3>3 DEF ToSet
    <3> QED
      BY <2>2, <3>1, <3>4 DEF PInv
  <2> QED
    BY <2>1, <2>2 DEF ParseDies
<1>3. deaths' # 0
  BY <1>1
<1>4. Parsed'
  BY <1>1, <1>2, <1>3 DEF DInv, Parsed, Settled
<1> QED
  BY <1>1, <1>4, ReadersDInv DEF DInv

\* A reader gets every line of the stream or none.
LEMMA LoadDInv == ASSUME FInv, PInv, DInv, Load PROVE DInv'
<1> DEFINE v == registry.version
           e == <<registry.pin, registry.spec>>
<1>1. /\ UNCHANGED <<stream, meta, parse, deaths, shared, pinned, declared>>
      /\ loaded'.version = v /\ loaded'.pin = e[1] /\ loaded'.spec = e[2] /\ loaded'.meta = meta[v]
      /\ loaded'.glossary = GlossaryOf(ReadBlocks(stream[v]), e[2])
      /\ loaded'.lines = IF stream[v] = Null THEN 0 ELSE Len(stream[v])
      /\ loaded'.writing <=> parse.version = v /\ parse.pc \in {"write", "meta"}
  BY DEF Load, files, history, Starts
<1>2. v \in Versions /\ <<v, e[1]>> \in pinned /\ <<v, e[2]>> \in declared
  BY DEF FInv, Typed
<1>3. e \in Entries /\ e = <<e[1], e[2]>>
  <2>1. scene \in Scenarios /\ registry.pin \in scene.pins /\ registry.spec \in scene.specs
    BY DEF FInv, Typed
  <2>2. scene.pins \cup scene.sends \in {s.pins \cup s.sends : s \in Scenarios}
    BY <2>1
  <2> QED
    BY <2>1, <2>2 DEF Documents, Specs, Entries
<1>4. v \notin shared /\ PinnedOnce(v) => Settled(v, e)
  <2> SUFFICES ASSUME PinnedOnce(v)
               PROVE  /\ \A p \in pinned : p[1] = v => p[2] = e[1]
                      /\ \A p \in declared : p[1] = v => p[2] = e[2]
    BY DEF Settled
  <2> HIDE DEF v, e
  <2> QED
    BY <1>2 DEF PinnedOnce, NamedOnce
<1>5. Parsed'
  BY <1>1 DEF DInv, Parsed, Settled
<1>6. Given'
  BY <1>1, <1>2, <1>3 DEF Given
<1>7. ASSUME loaded'.glossary # Null
      PROVE  /\ stream[v] # Null /\ CutLine \notin ToSet(stream[v])
             /\ loaded'.glossary = GlossaryOf(stream[v], e[2])
  BY <1>1, <1>7 DEF GlossaryOf, ReadBlocks
<1>8. PassagesOf[e] = GlossaryOf(BlocksOf[e], e[2])
  BY <1>3 DEF PassagesOf, Entries
<1> HIDE DEF v, e
<1>9. VouchedIsWhole'
  <2> SUFFICES ASSUME loaded'.glossary # Null, meta[v] \notin {Null, Torn}, Settled(v, e),
                      meta[v].block_count = loaded'.lines
               PROVE  loaded'.glossary = PassagesOf[e]
    BY <1>1, <1>3, <1>4 DEF VouchedIsWhole, PinnedOnce, NamedOnce
  <2>1. IsParsed(e) /\ Prefix(stream[v], BlocksOf[e])
    BY <1>2, <1>3, <1>7 DEF DInv, Parsed
  <2>2. Len(stream[v]) = Len(BlocksOf[e])
    BY <1>1, <1>2, <1>3, <1>7 DEF DInv, Parsed
  <2>3. BlocksOf[e] \in Seq(Line)
    BY <2>1, BlocksAreLines DEF IsParsed
  <2>4. stream[v] = BlocksOf[e]
    BY <2>1, <2>2, <2>3, PrefixWhole
  <2> QED
    BY <1>7, <1>8, <2>4
<1>10. CutOnlyByDeath'
  <2> SUFFICES ASSUME loaded'.glossary # Null, ~loaded'.writing, deaths = 0, Settled(v, e)
               PROVE  loaded'.glossary = PassagesOf[e]
    BY <1>1, <1>3, <1>4 DEF CutOnlyByDeath, PinnedOnce, NamedOnce
  <2>1. stream[v] = BlocksOf[e]
    BY <1>1, <1>2, <1>3, <1>7 DEF DInv, Parsed
  <2> QED
    BY <1>7, <1>8, <2>1
<1> QED
  BY <1>5, <1>6, <1>9, <1>10 DEF DInv

\* Every step keeps what readers are promised.
LEMMA NextDInv == FInv /\ PInv /\ PInv' /\ SInv /\ DInv /\ [Next]_vars => DInv'
<1> SUFFICES ASSUME FInv, PInv, PInv', SInv, DInv, [Next]_vars PROVE DInv'
  OBVIOUS
<1>1. deaths \in Nat
  BY DEF PInv
<1>2. ASSUME NEW f \in scene.fetchers, FetchStep(f) PROVE DInv'
  BY <1>1, <1>2, OtherDInv
     DEF FetchStep, StartFetch, Verify, Request, Refused, Receive, BreaksOff, Compare, Replace,
         OpenManifest, WriteManifest, files, counts, history, Starts
<1>3. ASSUME NEW f \in scene.fetchers, FetchDies(f) PROVE DInv'
  BY <1>1, <1>3, OtherDInv DEF FetchDies, files, history, Dead
<1>4. CASE ParseStep
  BY <1>4, StartParseDInv, ReadPdfDInv, OpenStreamDInv, WriteBlockDInv, MetaDInv DEF ParseStep
<1>5. CASE ParseDies
  BY <1>5, ParseDiesDInv
<1>6. CASE Load
  BY <1>6, LoadDInv
<1>7. CASE Repin \/ \E v \in Versions : DeleteArtefact(v)
  BY <1>1, <1>7, OtherDInv DEF Repin, DeleteArtefact, files, counts, history
<1>8. CASE UNCHANGED vars
  BY <1>1, <1>8, OtherDInv DEF vars, files, counts, history
<1> QED
  BY <1>2, <1>3, <1>4, <1>5, <1>6, <1>7, <1>8 DEF Next

\* A parse manifest that agrees with the pin and with the number of lines vouches for
\* the whole document (manage.py, _cmd_docs_parse; canonical.py), whatever died.
THEOREM ManifestVouches == Spec => []VouchedIsWhole
<1>1. DInv => VouchedIsWhole
  BY DEF DInv
<1> QED
  BY <1>1, InitFInv, NextFInv, InitPInv, NextPInv, InitSInv, NextSInv, InitDInv,
     NextDInv, PTL DEF Spec

\* As long as nothing has died, a stream that is not being written gives a reader all
\* the passages of the registry's document (glossary.py, load_declared_glossaries).
THEOREM ReaderIsGivenAll == Spec => []CutOnlyByDeath
<1>1. DInv => CutOnlyByDeath
  BY DEF DInv
<1> QED
  BY <1>1, InitFInv, NextFInv, InitPInv, NextPInv, InitSInv, NextSInv, InitDInv,
     NextDInv, PTL DEF Spec

-----------------------------------------------------------------------------
(* The corpus                                                              *)

\* What a reader has made of the corpus is its chunks.
Chunked ==
    /\ scene \in Scenarios
    /\ loaded # Null => loaded.corpus = ChunkMarkdown(scene.corpus)

LEMMA NextChunked == Chunked /\ [Next]_vars => Chunked'
<1> SUFFICES ASSUME Chunked, [Next]_vars PROVE Chunked'
  OBVIOUS
<1>1. CASE Load
  BY <1>1 DEF Load, Chunked
<1>2. ASSUME NEW f \in Fetchers, FetchStep(f) PROVE UNCHANGED <<scene, loaded>>
  BY <1>2 DEF FetchStep, StartFetch, Verify, Request, Refused, Receive, BreaksOff, Compare,
              Replace, OpenManifest, WriteManifest
<1>3. ASSUME NEW f \in Fetchers, FetchDies(f) PROVE UNCHANGED <<scene, loaded>>
  BY <1>3 DEF FetchDies
<1>4. CASE ParseStep \/ ParseDies
  BY <1>4 DEF ParseStep, StartParse, ReadPdf, OpenStream, WriteBlock, OpenMeta, WriteMeta,
              ParseDies, Chunked
<1>5. CASE Repin \/ \E v \in Versions : DeleteArtefact(v)
  BY <1>5 DEF Repin, DeleteArtefact, Chunked
<1>6. CASE UNCHANGED vars
  BY <1>6 DEF vars, Chunked
<1>7. scene.fetchers \subseteq Fetchers
  BY DocAssumption DEF Chunked
<1> QED
  BY <1>1, <1>2, <1>3, <1>4, <1>5, <1>6, <1>7 DEF Next, Chunked

\* The chunks that kb-build makes of a corpus hold every character of it in order. Each
\* is under the heading of the section it begins in and holds less than the least size
\* of every other one, where two such pieces fit into one; and they are short or long
\* only where that is meant (chunking.py, chunk_markdown), for every text and every
\* pair of limits.
THEOREM CorpusIsKept == Spec => []CorpusKept
<1>1. Init => Chunked
  BY DEF Init, Chunked
<1>2. Chunked => CorpusKept
  <2> SUFFICES ASSUME Chunked, loaded # Null PROVE CorpusKept
    BY DEF CorpusKept
  <2>1. IsText(scene.corpus) /\ loaded.corpus = ChunkMarkdown(scene.corpus)
    BY DocAssumption DEF Chunked
  <2>2. Keeps(scene.corpus, loaded.corpus)
    BY <2>1, ChunksKeep
  <2> QED
    BY <2>2, Zenon DEF CorpusKept, Keeps
<1> QED
  BY <1>1, <1>2, NextChunked, PTL DEF Spec

\* What docs-parse is about to write keeps every character of the document it has read
\* (pdf_reader.py, parse_document), as its parse block has it cut up: each is in one
\* block, unless it is page furniture, of a header that a table repeats, on a line
\* across the edge of a table, or another character is returned in its place.
THEOREM CharactersAreKept == Spec => []NothingSilentlyLost
<1>1. PInv => NothingSilentlyLost
  <2> SUFFICES ASSUME PInv, parse.pc = "open"
               PROVE  KeepsEveryCharacter(Pages[parse.source[1]], Sections[parse.source[2]],
                                          parse.blocks)
    BY DEF NothingSilentlyLost
  <2>1. PICK e \in Entries : /\ e = parse.source
                             /\ BlocksOf[e] # Null /\ parse.blocks = BlocksOf[e]
    BY DEF PInv, Writing
  <2>2. e[1] \in Documents /\ e[2] \in Specs
    BY DEF Entries
  <2>3. IsDocument(Pages[e[1]]) /\ IsParseSpec(Sections[e[2]])
    BY <2>2, DocumentAssumption, SectionAssumption
  <2>4. BlocksOf[e] = ParseDocument(Pages[e[1]], Sections[e[2]])
    BY DEF BlocksOf, Entries
  <2>5. KeepsEveryCharacter(Pages[e[1]], Sections[e[2]], BlocksOf[e])
    BY <2>1, <2>3, <2>4, DocumentKeepsCharacters
  <2> QED
    BY <2>1, <2>5
<1> QED
  BY <1>1, InitFInv, NextFInv, InitPInv, NextPInv, PTL DEF Spec
=============================================================================

----------------------------- MODULE DocPipeline -----------------------------
(***************************************************************************)
(* docs-fetch, docs-parse and the reading half of kb-build: a document     *)
(* from the registry's pin to the passages of the knowledge base, through  *)
(* the files the commands leave for each other.                            *)
(*                                                                         *)
(* A file on disk is an inode: a fetch writes to the one it opened, also   *)
(* when another fetch truncates it or renames it. Its bytes are one chunk  *)
(* after another, and a digest is the bytes it is the digest of. Any       *)
(* command dies at any step; several downloads run at a time.              *)
(***************************************************************************)
EXTENDS Passages

CONSTANTS Torn,      \* a manifest that a crash, or a write under way, leaves empty
          Fetchers,
          Versions,
          Chunks,    \* bound: the chunks a download comes in
          Pages,     \* what each document is a sequence of
          Sections,  \* what each parse block of the registry declares
          Scenarios  \* what the registry pins and declares at first and later,
                     \* what the server may send, the corpus beside the documents,
                     \* whether requests fail, and bounds: the fetchers that
                     \* run, the commands started, the deaths, the repins

ASSUME DocAssumption ==
    /\ Versions \subseteq Nat /\ 1 \in Versions
    /\ Null \notin Nat
    /\ Chunks \in Nat \ {0}
    /\ \A s \in Scenarios :
        /\ s.first \in s.pins /\ s.spec \in s.specs /\ s.fetchers \subseteq Fetchers
        /\ s.commands \in Nat /\ s.deaths \in Nat /\ s.repins \in Nat
        /\ s.faults \in BOOLEAN
        /\ IsText(s.corpus)

VARIABLES scene,    \* the scenario; nothing changes it
          registry, \* the entry a command loads: its version, its pin, its parse block
          disk,     \* the bytes of each inode
          part,     \* by version, the inode at the .part path
          raw,      \* ... at the artefact's path
          manifest, \* ... the document whose digest the fetch manifest has
          stream,   \* ... the JSONL
          meta,     \* ... the parse manifest
          fetch,    \* the fetch under way in each fetcher
          parse,    \* the parse under way
          loaded,   \* what the last reader made of the documents and the corpus
          commands, deaths, repins,
          pinned,   \* auxiliary: the pins each version has had
          declared, \* auxiliary: the parse blocks each version has had
          shared    \* auxiliary: the versions two downloads wrote at once

files == <<disk, part, raw, manifest, stream, meta>>
counts == <<commands, deaths, repins>>
history == <<pinned, declared>>
vars == <<scene, registry, files, fetch, parse, loaded, counts, history, shared>>

Whole(doc) == [i \in 1..Chunks |-> <<doc, i>>]

\* The document whose digest a file has; Null for bytes of no document.
DigestOf(bytes) ==
    IF \E doc \in scene.sends \cup scene.pins : bytes = Whole(doc)
    THEN CHOOSE doc \in scene.sends \cup scene.pins : bytes = Whole(doc)
    ELSE Null

Bytes(inode) == disk[inode]

\* The documents and the parse blocks there are, and what the reader and the glossary
\* make of each document under each parse block.
Documents == UNION {s.pins \cup s.sends : s \in Scenarios}
Specs == UNION {s.specs : s \in Scenarios}

ASSUME DocumentAssumption == \A doc \in Documents : IsDocument(Pages[doc])
ASSUME SectionAssumption == \A spec \in Specs : IsParseSpec(Sections[spec])

BlocksOf == [entry \in Documents \X Specs |-> ParseDocument(Pages[entry[1]], Sections[entry[2]])]
GlossaryOf(blocks, spec) == IF blocks = Null THEN Null ELSE GlossaryChunks(blocks, Sections[spec])
PassagesOf == [entry \in Documents \X Specs |-> GlossaryOf(BlocksOf[entry], entry[2])]

\* A line that is cut is no block.
CutLine == [type |-> "cut"]

NoFetch == [pc |-> "idle", version |-> 0, pin |-> Null, inode |-> 0, sent |-> Null, got |-> <<>>]
\* source, auxiliary: the document the blocks are those of, and its parse block.
NoParse == [pc |-> "idle", version |-> 0, spec |-> Null, digest |-> Null, source |-> Null,
            blocks |-> Null]

Init ==
    /\ scene \in Scenarios
    /\ registry = [version |-> 1, pin |-> scene.first, spec |-> scene.spec]
    /\ disk = <<>>
    /\ part = [v \in Versions |-> Null] /\ raw = [v \in Versions |-> Null]
    /\ manifest = [v \in Versions |-> Null]
    /\ stream = [v \in Versions |-> Null] /\ meta = [v \in Versions |-> Null]
    /\ fetch = [f \in Fetchers |-> NoFetch]
    /\ parse = NoParse
    /\ loaded = Null
    /\ commands = 0 /\ deaths = 0 /\ repins = 0
    /\ pinned = {<<1, scene.first>>} /\ declared = {<<1, scene.spec>>}
    /\ shared = {}

Starts == commands < scene.commands /\ commands' = commands + 1 /\ UNCHANGED <<deaths, repins>>

-----------------------------------------------------------------------------
(* docs-fetch                                                              *)

Sets(f, r) == fetch' = [fetch EXCEPT ![f] = r]
Stage(f, pc) == Sets(f, [fetch[f] EXCEPT !.pc = pc])

\* An artefact that is there is verified, never downloaded again.
StartFetch(f) ==
    /\ fetch[f].pc \in {"idle", "ok", "failed"}
    /\ Starts
    /\ LET v == registry.version
       IN Sets(f, [NoFetch EXCEPT !.version = v, !.pin = registry.pin,
                                  !.pc = IF raw[v] = Null THEN "request" ELSE "verify"])
    /\ UNCHANGED <<scene, registry, files, parse, loaded, history, shared>>

\* _verified_outcome: the bytes against the pin, then the manifest for itself.
Verify(f) ==
    /\ fetch[f].pc = "verify"
    /\ LET v == fetch[f].version
       IN Stage(f, IF /\ raw[v] # Null
                      /\ DigestOf(Bytes(raw[v])) = fetch[f].pin
                      /\ manifest[v] \notin {Null, Torn}
                   THEN "ok"
                   ELSE "failed")
    /\ UNCHANGED <<scene, registry, files, parse, loaded, counts, history, shared>>

Downloading(f) == fetch[f].pc \in {"stream", "compare", "replace"}

\* A good response: the .part is truncated, or created, and written to.
Request(f) ==
    /\ fetch[f].pc = "request"
    /\ LET v == fetch[f].version
           inode == IF part[v] = Null THEN Len(disk) + 1 ELSE part[v]
       IN /\ disk' = IF part[v] = Null THEN Append(disk, <<>>) ELSE [disk EXCEPT ![inode] = <<>>]
          /\ part' = [part EXCEPT ![v] = inode]
          /\ \E doc \in scene.sends :
                Sets(f, [fetch[f] EXCEPT !.pc = "stream", !.inode = inode, !.sent = doc])
          /\ shared' = IF \E g \in Fetchers \ {f} : fetch[g].version = v /\ Downloading(g)
                       THEN shared \cup {v}
                       ELSE shared
    /\ UNCHANGED <<scene, registry, raw, manifest, stream, meta, parse, loaded, counts, history>>

\* A response that is no success leaves a .part that may be there alone.
Refused(f) ==
    /\ fetch[f].pc = "request" /\ scene.faults
    /\ Stage(f, "failed")
    /\ UNCHANGED <<scene, registry, files, parse, loaded, counts, history, shared>>

\* One more chunk, at the offset of this writer: a hole may come before it.
Written(bytes, at, chunk) ==
    [i \in 1..AtLeast(Len(bytes), at) |->
        CASE i = at -> chunk [] i # at /\ i <= Len(bytes) -> bytes[i] [] OTHER -> Null]

Receive(f) ==
    /\ fetch[f].pc = "stream"
    /\ LET at == Len(fetch[f].got) + 1
           chunk == <<fetch[f].sent, at>>
       IN /\ disk' = [disk EXCEPT ![fetch[f].inode] = Written(@, at, chunk)]
          /\ Sets(f, [fetch[f] EXCEPT !.got = Append(@, chunk),
                                      !.pc = IF at = Chunks THEN "compare" ELSE "stream"])
    /\ UNCHANGED <<scene, registry, part, raw, manifest, stream, meta, parse, loaded, counts,
                   history, shared>>

\* Mutant of Unlink: the name stays.
UnlinkNothing(f) == UNCHANGED part

\* The .part goes by its name, whoever wrote it.
Unlink(f) == part' = [part EXCEPT ![fetch[f].version] = Null]

\* A transport error, before the response or while it comes: whatever is at the
\* .part path goes, which may be what another fetch writes.
BreaksOff(f) ==
    /\ fetch[f].pc \in {"request", "stream"} /\ scene.faults
    /\ Unlink(f)
    /\ Stage(f, "failed")
    /\ UNCHANGED <<scene, registry, disk, raw, manifest, stream, meta, parse, loaded, counts,
                   history, shared>>

\* Mutant of Compare: a download of the right length will do.
CompareLength(f) ==
    /\ fetch[f].pc = "compare"
    /\ Len(fetch[f].got) = Chunks
    /\ Stage(f, "replace")
    /\ UNCHANGED <<scene, registry, files, parse, loaded, counts, history, shared>>

\* The digest is that of what was received, not of what is in the file.
Compare(f) ==
    /\ fetch[f].pc = "compare"
    /\ IF fetch[f].got = Whole(fetch[f].pin)
       THEN Stage(f, "replace") /\ UNCHANGED part
       ELSE Stage(f, "failed") /\ Unlink(f)
    /\ UNCHANGED <<scene, registry, disk, raw, manifest, stream, meta, parse, loaded, counts,
                   history, shared>>

\* os.replace, of whatever the name stands for; without it, an OSError.
Replace(f) ==
    /\ fetch[f].pc = "replace"
    /\ LET v == fetch[f].version
       IN IF part[v] = Null
          THEN Stage(f, "failed") /\ UNCHANGED <<raw, part>>
          ELSE /\ raw' = [raw EXCEPT ![v] = part[v]]
               /\ Unlink(f)
               /\ Stage(f, "manifest")
    /\ UNCHANGED <<scene, registry, disk, manifest, stream, meta, parse, loaded, counts, history,
                   shared>>

\* write_text empties the file before it fills it.
OpenManifest(f) ==
    /\ fetch[f].pc = "manifest"
    /\ manifest' = [manifest EXCEPT ![fetch[f].version] = Torn]
    /\ Stage(f, "provenance")
    /\ UNCHANGED <<scene, registry, disk, part, raw, stream, meta, parse, loaded, counts, history,
                   shared>>

WriteManifest(f) ==
    /\ fetch[f].pc = "provenance"
    /\ manifest' = [manifest EXCEPT ![fetch[f].version] = fetch[f].pin]
    /\ Stage(f, "ok")
    /\ UNCHANGED <<scene, registry, disk, part, raw, stream, meta, parse, loaded, counts, history,
                   shared>>

FetchStep(f) ==
    \/ StartFetch(f) \/ Verify(f) \/ Request(f) \/ Refused(f) \/ Receive(f) \/ BreaksOff(f)
    \/ Compare(f) \/ Replace(f) \/ OpenManifest(f) \/ WriteManifest(f)

-----------------------------------------------------------------------------
(* docs-parse                                                              *)

\* The artefact against its fetch manifest; the registry's pin is not looked at.
StartParse ==
    /\ parse.pc \in {"idle", "ok", "failed"}
    /\ Starts
    /\ LET v == registry.version
           digest == IF raw[v] = Null THEN Null ELSE DigestOf(Bytes(raw[v]))
       IN parse' = [NoParse EXCEPT !.version = v, !.spec = registry.spec,
                                   !.digest = digest,
                                   !.pc = IF digest # Null /\ manifest[v] = digest
                                          THEN "read"
                                          ELSE "failed"]
    /\ UNCHANGED <<scene, registry, files, fetch, loaded, history, shared>>

\* parse_document opens the artefact again; the manifest wants one block at least.
ReadPdf ==
    /\ parse.pc = "read"
    /\ LET v == parse.version
           doc == IF raw[v] = Null THEN Null ELSE DigestOf(Bytes(raw[v]))
           source == IF doc = Null THEN Null ELSE <<doc, parse.spec>>
           blocks == IF source = Null THEN Null ELSE BlocksOf[source]
       IN parse' = [parse EXCEPT !.source = source, !.blocks = blocks,
                                 !.pc = IF blocks \in {Null, <<>>} THEN "failed" ELSE "open"]
    /\ UNCHANGED <<scene, registry, files, fetch, loaded, counts, history, shared>>

\* The old stream is gone before the first block is written.
OpenStream ==
    /\ parse.pc = "open"
    /\ stream' = [stream EXCEPT ![parse.version] = <<>>]
    /\ parse' = [parse EXCEPT !.pc = "write"]
    /\ UNCHANGED <<scene, registry, disk, part, raw, manifest, meta, fetch, loaded, counts, history,
                   shared>>

\* Mutant of More: the last block is left out.
MoreButOne(done) == done + 1 < Len(parse.blocks)

\* Whether there are blocks to write.
More(done) == done < Len(parse.blocks)

WriteBlock ==
    /\ parse.pc = "write"
    /\ LET v == parse.version
           done == Len(stream[v])
       IN IF More(done)
          THEN stream' = [stream EXCEPT ![v] = Append(@, parse.blocks[done + 1])] /\ UNCHANGED parse
          ELSE parse' = [parse EXCEPT !.pc = "meta"] /\ UNCHANGED stream
    /\ UNCHANGED <<scene, registry, disk, part, raw, manifest, meta, fetch, loaded, counts, history,
                   shared>>

OpenMeta ==
    /\ parse.pc = "meta"
    /\ meta' = [meta EXCEPT ![parse.version] = Torn]
    /\ parse' = [parse EXCEPT !.pc = "record"]
    /\ UNCHANGED <<scene, registry, disk, part, raw, manifest, stream, fetch, loaded, counts,
                   history, shared>>

WriteMeta ==
    /\ parse.pc = "record"
    /\ meta' = [meta EXCEPT ![parse.version] =
                    [source_sha256 |-> parse.digest, block_count |-> Len(parse.blocks)]]
    /\ parse' = [parse EXCEPT !.pc = "ok"]
    /\ UNCHANGED <<scene, registry, disk, part, raw, manifest, stream, fetch, loaded, counts,
                   history, shared>>

ParseStep == StartParse \/ ReadPdf \/ OpenStream \/ WriteBlock \/ OpenMeta \/ WriteMeta

-----------------------------------------------------------------------------
(* kb-build, up to the store                                               *)

\* Mutant of ReadBlocks: what cannot be read is left out.
SkipUnreadable(lines) ==
    IF lines = Null THEN Null ELSE SelectSeq(lines, LAMBDA b : b # CutLine)

\* One line that cannot be read, and the whole stream is refused.
ReadBlocks(lines) == IF lines = Null \/ CutLine \in ToSet(lines) THEN Null ELSE lines

\* load_declared_glossaries and load_corpus: the declared version's stream, as it
\* is now; its meta file is not looked at. What it says is kept to compare with.
Load ==
    /\ Starts
    /\ LET v == registry.version
       IN loaded' = [version |-> v, pin |-> registry.pin, spec |-> registry.spec,
                     glossary |-> GlossaryOf(ReadBlocks(stream[v]), registry.spec),
                     corpus |-> ChunkMarkdown(scene.corpus),
                     lines |-> IF stream[v] = Null THEN 0 ELSE Len(stream[v]),
                     meta |-> meta[v],
                     writing |-> parse.version = v /\ parse.pc \in {"write", "meta"}]
    /\ UNCHANGED <<scene, registry, files, fetch, parse, history, shared>>

-----------------------------------------------------------------------------
(* Deaths, and what a person does                                          *)

Dead == deaths < scene.deaths /\ deaths' = deaths + 1 /\ UNCHANGED <<commands, repins>>

FetchDies(f) ==
    /\ fetch[f].pc \notin {"idle", "ok", "failed"}
    /\ Dead
    /\ Sets(f, NoFetch)
    /\ UNCHANGED <<scene, registry, files, parse, loaded, history, shared>>

\* The line it dies in is there whole, in part, or not at all.
ParseDies ==
    /\ parse.pc \notin {"idle", "ok", "failed"}
    /\ Dead
    /\ parse' = NoParse
    /\ \/ UNCHANGED stream
       \/ /\ parse.pc = "write" /\ Len(stream[parse.version]) < Len(parse.blocks)
          /\ stream' = [stream EXCEPT ![parse.version] = Append(@, CutLine)]
    /\ UNCHANGED <<scene, registry, disk, part, raw, manifest, meta, fetch, loaded, history, shared>>

\* What the error messages ask for; no fetch tells whether it is time to.
DeleteArtefact(v) ==
    /\ raw[v] # Null
    /\ raw' = [raw EXCEPT ![v] = Null]
    /\ UNCHANGED <<scene, registry, disk, part, manifest, stream, meta, fetch, parse, loaded,
                   counts, history, shared>>

\* A commit declares another version, or for the same one another digest, or
\* another parse block.
Repin ==
    /\ repins < scene.repins
    /\ repins' = repins + 1
    /\ \E v \in Versions, doc \in scene.pins, spec \in scene.specs :
            /\ v >= registry.version
            /\ registry' = [version |-> v, pin |-> doc, spec |-> spec]
            /\ pinned' = pinned \cup {<<v, doc>>}
            /\ declared' = declared \cup {<<v, spec>>}
    /\ UNCHANGED <<scene, files, fetch, parse, loaded, commands, deaths, shared>>

Next ==
    \/ \E f \in scene.fetchers : FetchStep(f) \/ FetchDies(f)
    \/ ParseStep \/ ParseDies
    \/ Load
    \/ \E v \in Versions : DeleteArtefact(v)
    \/ Repin

Spec == Init /\ [][Next]_vars

-----------------------------------------------------------------------------
(* Properties                                                              *)

\* Every command's state fits the files it has open.
TypeOK ==
    /\ scene \in Scenarios
    /\ registry.version \in Versions /\ registry.pin \in scene.pins
    /\ registry.spec \in scene.specs
    /\ \A v \in Versions :
        /\ {part[v], raw[v]} \subseteq DOMAIN disk \cup {Null}
        /\ part[v] # Null => part[v] # raw[v]
        /\ manifest[v] \in scene.pins \cup {Null, Torn}
    /\ \A f \in Fetchers :
        /\ fetch[f].pc \in {"idle", "verify", "request", "stream", "compare", "replace", "manifest",
                            "provenance", "ok", "failed"}
        /\ Downloading(f) => fetch[f].inode \in DOMAIN disk
        /\ fetch[f].pc = "replace" => fetch[f].sent = fetch[f].pin
    /\ parse.pc \in {"idle", "read", "open", "write", "meta", "record", "ok", "failed"}
    /\ parse.pc \in {"open", "write", "meta", "record"} => parse.blocks # Null
    /\ parse.pc \in {"write", "meta", "record"} =>
            stream[parse.version] = SubSeq(parse.blocks, 1, Len(stream[parse.version]))

\* Bytes reach their final path only when they are those of a pin: a fetch that
\* fails or dies leaves nothing to parse. Two downloads at once write one .part.
ArtefactPinned ==
    \A v \in Versions :
        raw[v] # Null /\ v \notin shared => <<v, DigestOf(Bytes(raw[v]))>> \in pinned

\* A document is parsed whole or not at all: each of its characters is in exactly
\* one block, unless it is page furniture, a repeated header, or on a line that lies
\* across the edge of a table, or another character is returned in its place.
NothingSilentlyLost ==
    parse.pc = "open" => KeepsEveryCharacter(Pages[parse.source[1]], Sections[parse.source[2]], parse.blocks)

\* What parse_document says of itself (pdf_reader.py, its docstring): "ParseError ...
\* if any text on any page would be dropped", page furniture and headers apart.
DroppedTextRaises ==
    parse.pc = "open" => DropsNoText(Pages[parse.source[1]], Sections[parse.source[2]], parse.blocks)

\* The registry has named one document only for this version, and one parse block.
NamedOnce(v, names) == \A p, q \in names : p[1] = v /\ q[1] = v => p = q
PinnedOnce(v) == NamedOnce(v, pinned) /\ NamedOnce(v, declared)

\* What the parse manifest vouches for, by its digest and by its count, is all the
\* registry's document, as long as the version has had no other entry: a reader that
\* compared them, and can read every line, loses no passage, whatever died.
VouchedIsWhole ==
    /\ loaded # Null /\ loaded.glossary # Null /\ loaded.meta \notin {Null, Torn}
    /\ loaded.version \notin shared /\ PinnedOnce(loaded.version)
    => (loaded.meta.source_sha256 = loaded.pin /\ loaded.meta.block_count = loaded.lines
            => loaded.glossary = PassagesOf[<<loaded.pin, loaded.spec>>])

\* The reader, which compares nothing, loses passages only of a stream that is
\* being written or whose writer died, that an older entry of the registry has left,
\* or that was parsed from what two downloads wrote.
CutOnlyByDeath ==
    /\ loaded # Null /\ loaded.glossary # Null /\ ~loaded.writing
    /\ deaths = 0 /\ loaded.version \notin shared /\ PinnedOnce(loaded.version)
    => loaded.glossary = PassagesOf[<<loaded.pin, loaded.spec>>]

\* The chunks of the corpus hold every character in order. A chunk is under the
\* heading of the section it begins in; of every other section it holds less than
\* the least size of a chunk, where two such pieces fit into one. None is short but
\* the first, and one over the limit ends in a short paragraph.
CorpusKept ==
    loaded # Null =>
        LET chunks == loaded.corpus
        IN /\ KeepsEveryChar(scene.corpus, chunks)
           /\ \A i \in DOMAIN chunks :
                /\ UnderItsHeading(scene.corpus, chunks[i])
                /\ i > 1 => SizeOf(chunks[i].content) >= MinChars
                /\ SizeOf(chunks[i].content) > MaxChars => Len(Last(chunks[i].content)) < MinChars
=============================================================================

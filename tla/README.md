# archivindex-warc: a TLA+ verification project

This directory holds TLA+ models of the archivindex-warc workspace, the TLC
configurations that check them on small instances, and TLAPS proofs about them.
Paths below are relative to the repository root. `PROJECT.json` lists, in a form
tools can read, the components, the runs, the mutants that show each property can
fail, the source lines each definition stands for, the hazards and the theorems.

- [1. The system and its parts](#1-the-system-and-its-parts)
- [2. Modules, and how they correspond to the code](#2-modules-and-how-they-correspond-to-the-code)
- [3. What the runs check](#3-what-the-runs-check)
- [4. What is proved](#4-what-is-proved)
- [5. Assumptions](#5-assumptions)
- [6. Findings](#6-findings)
- [7. What is not modelled](#7-what-is-not-modelled)
- [8. Plan](#8-plan)

## 1. The system and its parts

The workspace captures HTTP exchanges into WARC files, writes repeated payloads as
`revisit` records, keeps an index that makes this possible across archives, and
reads, transforms and checks WARC files.

    caller ──► archiver: session (crawl) ─┐
    caller ──► archiver: one-shot run ────┼─► collection ──► WARC writer ──► partial file ─► published archive
                (sequential or pool)      │      │  ▲
                                          │      ▼  │ rows, payloads
    progress sink ◄── called back ────────┘   revisit index (SQLite) ◄── ingestion ◄── record iteration ◄── archives
                                                                                             ▲
    warc-ops (merge, remove, propagate, rewrite, ...), id ──────────────────────────────────┘ ──► published file

    octets ◄─► raw header ◄─► untyped header ◄─► semantic record ◄── builders, records of a capture

| Part | Code | State | Operations | Interacts with | What is hard | What makes it correct |
|---|---|---|---|---|---|---|
| Concurrent capture pool | archiver `client/pool.rs` | counters of the dispatcher, task and outcome channels, reassembly buffer, workers | fill, receive, record, shut down | worker threads over channels, sink callbacks, collection | completion in any order, cancellation and failed records while captures are in flight, a bounded channel that nobody may be reading | input order, no loss, bounded look-ahead, no blocked worker, no needless idling, an end |
| Sequential capture | archiver `client/mod.rs` | position in the input | announce, capture, record | sink, collection | cancellation at three callbacks | the same promise with a window of one |
| Session | archiver `session/run.rs`, `session/mod.rs` | attempt, exchanges of earlier attempts, counts, pending cancellation | ask, fetch, back off, inspect, report, record, finish | driver, processor, sink, collection | cancellation at six callbacks, retries, rejected captures, failed records | resumable, nothing unarchived, no unsafe repeat, exact limit, honest summary, an end |
| Crawl driver | archiver `session/crawl.rs` | stack, current request, URLs seen | next, inspect, failed, recorded, unrequested | session, processor | remembering before requesting | depth-first order, each URL once |
| Collection | archiver `client/collection.rs`, `client/outcome.rs`, `client/warc_mapping.rs` | overlay of the index, original of the request in flight, exchanges not yet recorded, archive | prepare, respond, record, finish | revisit index, server, writer | a row that changes between a request and its 304, variants, chains of redirects, cut responses | a revisit stands for what the server answered, and names a full record that exists |
| Revisit index | `crates/archivindex-warc-revisit-index/src/db` | payload table, resource table | insert, observe, confirm, look up | collection, ingestion | observations out of order, variance | rows do not mix captures |
| Ingestion | revisit-index `ingest.rs` | two maps of requests per load, transaction | read request, read capture, commit, roll back | index, record iteration | links in either direction, repeated identities, archives out of order, a load that fails midway | only a GET's answers reach rows; rows are unmixed and newest; payloads canonical |
| Merge | warc-ops `merge.rs` | plan of the first pass, scopes of both files | build, merge a warcinfo, copy, refuse | transform, record iteration | implicit associations that move, references to dropped records, files that change between passes | every association and reference means what it did |
| Remove | warc-ops `remove.rs` | responses, revisits, links, identifiers removed | collect, walk, write | transform, record iteration | cycles of links, links and originals after the revisit | exactly the captures asked for |
| Transform and publication | warc-ops `file.rs`, archiver `client/collection.rs` | directory, partial files, what is synced | check, open, create, write, sync, rename, sync directory | file system, other runs | power failures, several runs, aliases of one file | outputs whole and durable, inputs whole, no input or archive replaced |
| Record iteration | `src/io/read.rs`, `src/io/gzip.rs` | members, header buffer, what was read ahead, placement | next (header, body, filter), locate, read at a frame | every reader of WARC files | members that end anywhere or hold nothing, errors met reading ahead, corrupt members | every record once, errors last, and a frame that reads it alone |
| WARC writer | `src/io/write.rs` | position, tap | write, finish | sinks | a sink that fails midway | frames are where records are |
| Linter | `crates/archivindex-warc-linter/src/lint` | what it remembers of earlier records, a record held back, results queued | check a record, skip one, finish, yield | record iteration, added rules, its caller | faults that only the next record or the end of the file shows; records that cannot be read; an end that is asked for twice | its report is what the rules say of the whole file |
| Other operations | warc-ops `propagate.rs`, `rewrite.rs`, `digest.rs`, `compress.rs`, `canonicalize.rs`, `header.rs`; archiver command line `id.rs` | what a first pass keeps; the file from one operation to the next | plan, copy a record, refuse, publish | transform, identifiers | one operation on what another made: respelled, reordered, renamed or colliding records | what an operation is not to change it leaves; references name what they named; running one again changes nothing |
| Header blocks | `src/parse`, `src/parsing.rs`, `src/version` | none | read, assemble, read values, respell, write | record iteration, record level | folds, quotes, bare LF, blocks cut off anywhere | what is accepted reads back as it was written |
| Record level | `src/record/mod.rs`, `lift.rs`, `render.rs`, `digest.rs`, `header`, `extension.rs` | the record, edited in memory | lift, pair with a block, edit, render, add digests, read back | header blocks, linter, operations | rules per type and version that an edit can break after they were checked | a record that can be written reads back as it was; its digests are those of what is written |
| Builders | `src/record/builder`, `capture.rs` | the record under construction | set, add digests, build, records of a capture | record level, collection | setters in any order and more than once | what is built can be written |
| Archive records | archiver `client/warc_mapping.rs`, `client/warc_fields.rs`, `client/record_id.rs` | records written, records of the exchange in hand, what later exchanges may refer to | open, map an exchange, write, fail | collection, builders, identifiers, writer | a name derived of a record that another record or the index refers to; a spool that fails midway | a record has the name of what is read; every reference is to a record before it, the one meant |
| Blocks of fields | `src/record/fields` | the lines, the fields and whether they changed | read, push, set, write, serialize, deserialize | record level, rewrite | undecodable and folded lines, optional and repeated values | a block that did not change is written as read, one that did reads back |
| Values, digests, identifiers | `src/value`, `crates/archivindex-warc-digest`, `crates/archivindex-warc-identifier` | none | parse, write, compare, derive | all | precision, years past the ends, three encodings, case | equal values read back equal; a record has one identifier however it is given |
| Tools, validator | `tools/`, `validator/` | none | | | | |

## 2. Modules, and how they correspond to the code

| Module | Stands for | Built on |
|---|---|---|
| `OrderedArchive` | the promise of a one-shot run (abstract) | |
| `CapturePool`, `CapturePoolProofs` | `client/pool.rs` | implements `OrderedArchive` |
| `SequentialCapture` | the loop of `archive_collection` in `client/mod.rs` | implements `OrderedArchive`; proofs in `CapturePoolProofs` |
| `OneShot` | `archive_collection`: the loop or the pool | `CapturePool`, `SequentialCapture` |
| `Agenda` | the promise of a depth-first crawl (abstract) | |
| `Crawl`, `Session`, `SessionProofs` | `session/crawl.rs` as operators; `session/run.rs` | implements `Agenda` |
| `MCArchiver` | a one-shot run or a session, one in each behaviour | `OneShot`, `Session` |
| `RevisitIndex`, `RevisitIndexProofs` | the two tables, as operators | |
| `Collection`, `CollectionProofs`, `MCCollection` | `client/collection.rs`, `client/outcome.rs`, `client/warc_mapping.rs` | `RevisitIndex` |
| `Ingestion`, `IngestionProofs`, `MCIngestion` | `ingest.rs` | `RevisitIndex` |
| `Merge`, `MergeProofs` | `merge.rs` | |
| `Remove`, `RemoveProofs` | `remove.rs` | |
| `Identifiers` | the identifier of a record as read and of a typed one, as operators | `Fields` |
| `Operations`, `MCOperations` | `propagate.rs`, `rewrite.rs`, `digest.rs`, `compress.rs`, `canonicalize.rs`, `header.rs`, `id.rs` | `Identifiers`; run beside `Merge` and `Remove`; proofs in `RemoveProofs` |
| `Publication`, `MCPublication` | `file.rs`, and the publication of a collection | proofs in `SessionProofs` |
| `Reader`, `MCReader` | `Reading`, `MemberReader` and `raw_record_at` | proofs in `CapturePoolProofs` |
| `Linter`, `LinterProofs`, `MCLinter` | the lint pass and its rules | |
| `Fields` | the tables of fields by record type and version | |
| `Lines`, `Values` | the scanning both grammars of named fields share; text and media types | |
| `Headers` | the raw and untyped levels of a header block | `Values`, `Fields` |
| `Records` | the semantic level: lifting, rules, rendering | `Identifiers` |
| `Builders` | the builders, and the records of one capture | `Records` |
| `Exchanges` | an archive's records: `warc_mapping.rs`, `warc_fields.rs`, `record_id.rs` | `Builders` |
| `FieldsBlocks` | blocks of warc-fields and their typed values | `Lines` |
| `Dates`, `Digests` | dates; labelled digests | |
| `Writer` | `src/io/write.rs` | proofs in `SessionProofs` |
| `MCFormats` | the parts of the library above, and `Reader`, one in each behaviour | all of these |

**CapturePool.** The main thread is `main` (filling, waiting, recording, joining,
returned) and each worker has a `pc`; one action is one step between
channel operations or callbacks. `tasks` and `outcomes` are the two channels, the
second with the capacity `sync_channel` gives it; `pending` is the reassembly
buffer; `dispatched`, `completed`, `nextToRecord` and `idle` are the counters. A
task is its index. Workers take the mutex around the receiver before they receive.
`OneShot` puts it beside the sequential loop, of which a run uses one; `sequential`
is the test of the configured concurrency.

**Session and Crawl.** `crawl` is the driver's state, an operator per `Driver`
method. `phase` follows the loop. The network, the processor and the sink are
choices: an attempt comes to a sound response, a retryable status, a response cut
short, a transient or a final failure, after any number of exchanges up to a
bound; the sink may cancel at every call. An exchange is the number of its request
and of its attempt. `plan` says what the session was given: its seeds, whether discoveries are
deduplicated, and its limit. `MCArchiver!subject` says which of `OneShot` and `Session` a
behaviour is of; the other one stays in an initial state.

**RevisitIndex, Collection, Ingestion.** A payload stands for its digest. `Content`
is the server: the payload a URI has at a version (named by its validator) for a
variant. Collection's `Prepare` chooses the row a conditional request is made from,
`Respond` receives any answer the server may give (with or without a validator or
`Vary`, complete or cut, a 304 only where the validator matches), `Lose` ends an
attempt without one, and a capture goes on after any of them: by a redirect, a challenge
or a retry, which is prepared before the exchanges of earlier attempts are recorded. `Record` writes the records of one exchange of it and updates the
overlay, `RecordFails` stops somewhere in it, and `Ingest` is another process
changing the durable index meanwhile. `late`, `doubtful` and `mixed` are auxiliary: they mark
a confirmation of a row that an earlier exchange of its own capture replaces, and what came of it. Ingestion's `byId` and `byCapture` are the
two maps of `Requests`; a load is a transaction (`Begin`, `ReadRequest`,
`ReadCapture`, `Commit`, `Abandon`), and `IndexRecord` indexes one record outside.

**Merge, Remove, Operations.** Each pass reads one record per action; a pass may fail at any
record. What a record is compared by (`key`) and its references are kept, the rest
of it abstracted. `Replace` is another program changing the inputs between the
passes of a merge. In `Operations` a file is a sequence of records with their lines in
order; a task is begun, planned where the code reads the file twice, copied record by
record, and published, refused or abandoned, and then another may begin on what it
made. An identifier that was derived is known by its preimage, and a length or digest
by what it is of, so that a stale one is a wrong one. In `MCOperations`, `subject` says
which of `Merge`, `Remove` and `Operations` a behaviour is of.

**Publication.** `dir` is what names hold now, `disk` what they would after a power
failure; `WriteBack` is the system writing the directory back when it likes, and
`PowerLoss` leaves what `disk` says. `whole` and `synced` are the files written to their end and safe.
Links are names that hold names.

**Reader.** A stream is a sequence of octets that stand for what the reader tells
apart: blank lines, a record's first line, the rest of its header block, its body
with the terminator, and what cannot be read. Members end anywhere. Positions in
the file count members, so a frame is a range of members. `source` is the
`MemberReader`, and every other variable a field of `Reading`. `verdict` is what the
level and the filter of an iterator make of a record: kept, skipped, or refused with
an error in its place.

**Linter.** An action is one turn of the iterator's loop: `Check`, `Skip` or
`Finish` on what the record reader gives, `Yield`, `YieldError` or `Exhaust` towards
the caller. The variables are the fields of `Linter`, with the identifier of
the last record represented by its position. A record has a field for everything a
rule compares (type, identifier, date, links, target, references) and, where a rule looks at
one record alone, the case it is of (its digests match or not, and so on). The
file also says which octets of a gzip file each record lies in, by where it begins and
the members it takes, and what the added rules report. `Report` restates every rule
over the whole file, with nothing remembered from record to record: it is what
`ReportExact` compares the pass with.

**Records, Builders.** `stage` says how far a record has come: lifted from `untyped`,
built, edited, rendered, read `again`. A name stands for all its spellings, and each of
the code's checks is a sequence of at most one fault, so that the checks of an operation
are their concatenation in the code's order and the first one is reported. A block is
known by what the code asks of it (its length, the payload in it, whether it reads as
fields); a digest by its algorithm and what it is of.

**Exchanges.** `archive` is what a reader finds, `queue` the records of an exchange that
are built and yet to be written, `targets` what later exchanges may be told of.
`RecordExchange` is `capture_records` and the start of `write_exchange`, `WriteQueued`
one `RecordWriter::write`. Which exchange revisits what is Collection's: here any that may.

**Headers, FieldsBlocks, Values.** A text is a sequence of symbols: tokens,
separators, control characters, stretches of others. `level` follows a header from
octets to raw, untyped and back. `FieldsBlocks` keeps the lines a body was read from
beside its fields, and the serde mapping in both directions as operators over
schemas.

**Dates, Digests, Writer.** An instant is its calendar numbers; a spelling is what it
gives. A digest is its label and an encoded value known by its digits, its padding and
the alphabets it fits. The writer's sink takes any part of what it is offered and may
fail at any unit; `sink` is what it took, `position` where the writer believes it to
be, and `store` the record being written, if there is one.

Beside some definitions stands one marked "Faulty:": what a plausible mistake in
that code would make of it. `PROJECT.json` lists which property each of them breaks;
nothing else uses them.

## 3. What the runs check

| Run | Configuration | Bounds | Properties | Shows |
|---|---|---|---|---|
| `archiver` | `MCArchiver.cfg` | one-shot: 7 URLs; 3 workers, or the sequential loop. Session: 3 URLs, 3 attempts, pages of 2 links, 1 exchange an attempt, three plans: one seed, discoveries deduplicated, no limit; a GET and a POST seed, deduplicated, limit 2; one URL posted to and fetched, not deduplicated, limit 2 and 3 requests at most | `NoWorkerHeldUp`, `NothingLost`, `ImplementsOrderedArchive`, `SequentialImplementsOrderedArchive`, `OneShotEnds`, `NothingForgotten`, `AttemptsAccounted`, `SummaryHonest`, `ImplementsAgenda`, `CrawlEnds` | a window of six is filled with input left; every interleaving, cancellation point and failed record; no worker blocked or idle without need; liveness with an unfair mutex; `OrderedArchive` also with a window of one. Resumption; archived, bounded and safe retries; an exact limit and an honest summary; depth-first order; pages that link to each other are each requested once and the crawl ends, with nothing but deduplication to end it |
| `collection` | `MCCollection.cfg` | 2 URIs (one varying), 2 versions, 2 variants, 3 payloads, GET, HEAD and POST; 3 exchanges, or 2 and an archive ingested meanwhile | `RevisitsFaithful`, `RowsSound`, `PayloadsStoredOnce` | every revisit names a complete earlier record of its digest; revisits faithful and rows sound but for what a late confirmation leaves; a payload stored once and its first copy named |
| `collection_late` | `MCCollectionLate.cfg` | the same | `ValidatorsTheirOwn` | a finding (section 6) |
| `ingestion_load` | `MCIngestionLoad.cfg` | 23 records, 3 loaded | `PairingExact`, `RowsUnmixed`, `OrderRespected` | pairing exact, rows unmixed and newest, payloads canonical |
| `ingestion_nameless` | `MCIngestionNameless.cfg` | 4 loaded | `RowsUnmixed` | a finding (section 6) |
| `operations` | `MCOperations.cfg` | merge: two files, up to 2 and 3 records of 9; removal: files of up to 4 records of 10; other operations: 21 files, up to 3 of 11 tasks in sequence | `AssociationsPreserved`, `ReferencesPreserved`, `EarliestWrittenOnce`, `CapturesRemoved`, `IdentifiersHold`, `RecordsPreserved`, `Ends`, `RunAgainChangesNothing` | a merge keeps associations, references and the earliest record, and repeats none; exactly the captures are left out and the walk ends; however operations follow each other, references name what they named, derived identifiers stay derived, the rest is as read, and running one again changes nothing |
| `operations_separator` | `MCOperationsSeparator.cfg` | the same | `NameAloneKeepsTail` | a finding (section 6) |
| `publication_concurrent` | `MCPublication.cfg` | 2 runs of 6 jobs, 3 names, every directory of links and files | `OutputsWhole`, `InputsWhole`, `SuccessIsDurable`, `NothingTakenAway` | whole outputs and inputs, durability, no archive and no own input replaced |
| `formats` | `MCFormats.cfg` | streams of up to 3 records and blank lines (8 octets), up to 3 members; records of each type and version, one line away from required, 1 edit or 2 setters; headers of 2 lines besides the length; blocks of 3 lines; 3 records and 2 failures of a sink; archives of 2 exchanges, of 2 resources | `StreamPlacedExactly`, `AllRead`, `RoundTrip`, `DigestsHold`, `Writable`, `RecordsIdentified`, `BlocksReadBack`, `ValuesReadBack`, `WrittenFramesExact` | every record is read once, in order, errors last, and its frame reads it alone, refused records included; what is written reads back as it was; digests and identifiers are those of what is written; a writer's frames lie where its records do, after a failure too; the records of an archive refer to each other by the names they have |
| `reader_corrupt` | `MCReaderCorrupt.cfg` | the same streams | `FramesCoverRecords` | a finding (section 6) |
| `linter` | `MCLinter.cfg` | sequences of up to 3 of 14 records and of 4 or 5 of fewer, 234 records alone, 3 in gzip members, 3 with added rules | `ReportExact`, `FaultedNotClean`, `Termination` | the report is exact, no faulted record is reported clean, an end |
| `linter_backward` | `MCLinterBackward.cfg` | 4 records, an added rule that looks one back | `FaultedNotClean` | a finding (section 6) |

Several properties are conjunctions of named parts that are also of use alone:
`NoWorkerHeldUp` (`ReportNeverBlocks`, `NoNeedlessIdling`), `AttemptsAccounted`
(`ExchangesArchived`, `RetriesBounded`), `SummaryHonest` (`LimitExact`,
`CompleteMeansComplete`), `PayloadsStoredOnce` (`StoredOnce`, `FirstCopyNamed`),
`OrderRespected` (`PayloadsCanonical`, `RowsNewest`), `EarliestWrittenOnce`
(`KeepsEarliest`, `WarcinfoWrittenOnce`), `CapturesRemoved` (`RemovesCaptures`,
`ResponsesKept`), `NothingTakenAway` (`ArchivesNotReplaced`, `OwnInputsKept`),
`StreamPlacedExactly` (`FramesReadAlone`, `FramesComplete`, `PlacementExact`),
`BlocksReadBack` (`FieldsReadBack`, `HeadersReadBack`), `RecordsIdentified`
(`IdentitiesAgree`, `ExchangesLinked`) and `ValuesReadBack`
(`DatesReadBack`, `DigestsReadBack`).

**Why the bounds are enough.** The pool's window is twice its concurrency: three
workers give a worker that is slow, one that overtakes it and one that idles, and
seven URLs exceed the window; the proof covers every other size. Of a session's plans, the one
without a limit has pages that link to themselves and to each other, in a cycle of any length up
to three, and discoveries in every position; the one with a limit reaches it with requests left;
and the one that repeats a URL has it retried under one method and not under the other. Three
attempts have a first, a middle and a last. Three exchanges of a
collection are one that stores, one that revisits and one that changes what a
later one would revisit, or a complete answer, the late confirmation after it and the request
prepared from what they leave; with a record in the durable index, two and an ingestion
between them. There all dates are equal; the proof covers any, and
`ingestion_load` the order of observations. Three loaded records pair a capture with two requests that disagree. A merge
needs two warcinfo records that match, one between them and a record after: the
longer file has three. In remove, four records make a cycle of links, an original
and a revisit in either order. Three tasks are one, another on what it made, and the
first again; each of the 21 files has something one of the tasks changes or refuses
(respelled or disordered headers, an identifier repeated, missing or one that two records
come to share, a digest that cannot be made again, a warcinfo record that cannot be rewritten). Two publishing runs suffice for any race on one
name. In the reader, a record of three octets with a blank line of two, cut twice,
has every cut within a line, a record and between them, with an empty member.
Records are one line away from those their type requires, since every rule of a record
relates at most two lines, or a line and the block; one edit after lifting is enough to
break any rule that was checked before it, and two setters to overwrite a value or contradict one.
Two header lines besides the length have every order, repetition and continuation, and three
lines of a block a field with two folds. Three records at a sink have one written before
a failure, one failing and one after it. Two exchanges are one that stores a payload and
one that revisits it, or a failure in the second. In the linter, a capture takes four records with its warcinfo record, so five have a
record after it; every rule that relates two records has records that
break it, and every rule of one record has all its cases. `RequireIds`, which only
chooses between two of those cases, is `FALSE`.
`MaxGiven`, `MaxHops`, `MaxLinks`, `MaxEvents`, `MaxLibrary`, `MaxRecords`, `MaxTasks`,
`MaxEdits`, `MaxSetters`, `MaxChanges`, `MaxStored`, `MaxExchanges` and `MaxFailures` are the bounds that
stand in guards; `MaxExtra` bounds the lines that records have besides those required.

**Fairness.** `OneShot!RunSpec` (`CapturePool!FairSpec`; `CallerStep` and each `PoolWorker` in
`MCArchiver`): the main thread and each worker keep running
(the operating system schedules them, and the HTTP client bounds every exchange by
timeouts). Nothing is assumed of the mutex: a worker may lose it to the others
forever. `Session!FairSessionSpec` (`CallerStep` too, of other behaviours): the loop's one thread keeps running; a fetch is one
step because timeouts bound it, and a delay is one because its length is finite. An
end is claimed only of crawls that deduplicate discoveries, as the code's comment on
`dedupe_discoveries` does. `MCOperations!MCSpec`: the one thread of a removal keeps running;
of the other operations and of a merge nothing is claimed to end.
`Linter!FairSpec`: the caller takes every result, as a `for` loop does.

**Deadlock** is checked except of Publication, the operations (merging among them) and the
formats, whose configurations say so: what has returned, or been read back, takes no further
step there.

## 4. What is proved

TLAPS checks these for every value of the constants that satisfies the named
assumptions. Each proof rests on an inductive invariant in the component's module
(`IInv` unless it is named below), which TLC found no counterexample to on the runs'
instances. `SessionProofs`, `CapturePoolProofs`
and `RemoveProofs` hold the proofs of several modules.

- **CapturePool** (`CapturePoolAssumption`: a finite, nonempty set of workers, any
  number of URLs). The invariant is an accounting: captures dispatched and not
  completed are in the task channel, in a worker's hands or in the outcome channel,
  so `idle` really is the number of workers with room to report (`Accounting`).
  From it: type correctness, `NoWorkerHeldUp` (`ReportNeverBlocks` and
  `NoNeedlessIdling`), `WindowBounded` (at most twice
  the concurrency in memory, the promise of `pool.rs`), `ArchiveInInputOrder`,
  `NothingLost` (through `Covered`: every index is archived, waiting or in flight),
  `StopsStarting`, and the refinement `ImplementsOrderedArchive`.
- **One-shot run** (`CapturePoolAssumption`). `LoopInv` says how far captures started and
  captures recorded may be apart wherever the sequential loop stands, and where it can be
  cancelled or failed; from it `SequentialImplementsOrderedArchive`. `RunsThePool`: with the
  pool configured, a run takes the pool's steps only, so that what is proved of the pool is
  so of the run.
- **Session** (`SessionAssumption`). Of all requests handed out only the one being made
  is not acknowledged, and it is the driver's current one; the archive is behind what
  was fetched by the exchanges of that request only; the attempts counted are those made;
  and the verdict of a session agrees with its counts and with what the driver has left. The
  driver's `Retain` (which of the discovered links `inspect` keeps) is a
  recursive function, and the lemmas about it say what it keeps, in which order.
  From it: `NothingForgotten`, `AttemptsAccounted` and `SummaryHonest`, for any plans,
  limits and numbers of attempts, and the refinement `ImplementsAgenda`.
- **Collection** (`ContentAssumption`: a server tells variants apart only where it
  says so). Whatever identifies a record names one that is there (`IndexKept`), and
  whatever revalidates a payload was given for it (`RowsSound`, `PendingSound`).
  The delicate conjunct is `RowStands`: the row a conditional request was made
  from is still the row of its URI when the 304 is recorded. It does, unless an exchange
  before it in the same capture replaces the row (`InTime`): a complete answer whose attempt
  ran out of time, and a retry's 304 to the row before it. Such a confirmation is `late`, and
  `mixed` is the set of URIs whose row one has updated since the row was last replaced. From
  it: `RowsSound`, that no other row mixes captures, and the durable index never;
  and `RevisitsFaithful`, that every revisit names a complete record written before it, of the
  digest it states, and that this is the digest of what the server meant unless the request was
  prepared from a mixed row. `CopiesInv` adds that the
  session index has an entry for every payload copied, that this is the first copy, and
  that every original kept for later (a row, the request in flight, the exchanges not yet
  recorded) names the entry: a second copy would need a lookup that misses one. From
  it: `PayloadsStoredOnce`, whatever another process ingests meanwhile.
- **Ingestion** (`RecordsAssumption`: records tell the truth about their captures).
  `MapsExact` says what the two maps of a load hold of the requests read so far,
  whatever they repeat or contradict; `PairingExact` follows, only captures made by
  a GET reach the rows, and so the rows are not mixed (`RowsUnmixed`), if
  confirmations name what they confirm (`Named`). `OrderInv` relates both indexes, the
  durable one and that of the load in progress, to the captures observed: a payload has the
  identifier of its first complete response, a row is of the newest capture observed, the
  last of them if several are. From it: `OrderRespected`, for loads in any order, committed or
  abandoned; the part about payloads (`PayloadsCanonical`) also without `Named`.
- **Merge** (`InputAssumption`). The second pass is in step with the plan of the
  first (`WarcinfosFollowPlan`) and follows the scope of each input, so that a
  record is made to name its warcinfo record exactly when the one it would fall
  under says something else. From it: `AssociationsPreserved`,
  `ReferencesPreserved` and `EarliestWrittenOnce`, which holds `WarcinfoWrittenOnce`
  even of inputs that change between the passes.
- **Remove** (`InputAssumption`). The walk stays within the least closed set of
  identifiers that holds the revisits and leaves no link of it out, so when nothing
  is pending it is that set: `CapturesRemoved` (`RemovesCaptures` and `ResponsesKept`).
- **Operations** (`ArchivesAssumption`: a file is a sequence of records and a header one of
  lines; `TasksAssumption`: the operations there are). Neither property is inductive: the next
  operation reads the file as the last one left it, with what it repeated, lost or gave. `OperationsInv`
  says in every state how the file stands to the one first read. Either no identifier and no reference has changed,
  or the file was identified: no identifier named two records then or names two now, every
  reference leads where it led (or, where it led nowhere, may lead to a record given that
  identifier since), and no record is left unnamed that could be named, so that identifying again
  changes nothing (`NamesFollowed`). A payload type is the record's own or that of the first
  response referred to, before identifiers changed or since (`TypeOf`). What no operation
  changes is as it was, and the block is measured by its length and digest (`Files`). Each
  operation has a lemma about what it does to one record, which rest on lemmas about the
  lines at given places of a header (`Picked`), about the stable sort of
  `canonicalize_header`, and about the plan of `id` (two records planned for one identifier are refused). From it:
  `IdentifiersHold` and `RecordsPreserved`, for any files and any number of operations,
  completed, refused or abandoned anywhere. Proving it showed that both had been stated too
  strongly: an identifier a record is given may be one that a
  reference already had in it, and types are then propagated along that reference. Three of the files
  of the run are such.
- **Publication** (`DisjointAssumption`, `PartialAssumption`, `JobAssumption`). A
  partial file is its own run's until published (`PartialOwned`), only whole and
  synced files are published (`Progress`), and the directory on disk is one the
  names had (`DiskBehind`). From it: `OutputsWhole`, `InputsWhole`,
  `SuccessIsDurable` and `NothingTakenAway` (`ArchivesNotReplaced`, `OwnInputsKept`).
- **Writer** (`WriterAssumption`, `WriterInv`). The tap holds what the sink took of the
  write in progress, and only writes that ended, whole or not, lie before the position. From it:
  `WrittenFramesExact`, for records of any size and a sink that fails anywhere.
- **Reader** (`FilesAssumption`, `NoneAssumption`, `ReaderInv`, `PlacedInv`). The blank lines counted and
  the line after them are those before the octet reached, whether they were read for the
  record at hand or ahead of it (`Standing`); of the octets read, every whole record was
  passed (`Passes`), and of what was passed everything not skipped was told, but for the record
  held back while the stream is read ahead (`Tells`). `MemberReader` knows what the stream is:
  it is done only where the stream ends sound, and keeps a failure that was met looking for
  a position (`Sound`). From it: `AllRead`, for streams of any length, cut into members
  anywhere, broken or not, and for any iterator's verdicts. `PlacedInv` relates the members to
  the octets: `MemberReader` is in the member of the octet read last and has counted those
  before it that held octets, however many are opened at once (`SourceExact`); the position
  it gives is that of the next octet (`PositionExact`); the member last begun within the
  padding is the last that holds nothing before the next record but whole blank lines
  (`BeganExact`), so that a record is said to begin a member exactly when it does but for
  these (`StartExact`); and while the padding after a record is read ahead, its placement
  counts the members of its octets, and ends with the last of them that ends with a line, or
  nowhere if none does yet (`IsPlaced`). From it: `StreamPlacedExactly`, for the same streams: a frame
  is read as its record alone, whatever is cut where, and the exception it makes for a member
  that is corrupt at its end (`EndsBroken`) is the only one.
- **Linter** (`FilesAssumption`, `NoneAssumption`). `ReportExact` compares the pass with
  `Report`, which looks at the whole file at once. `ScanInv` says of each
  thing the pass remembers (the identifiers and who had them first, the last date,
  the warcinfo record in force, the first record of the gzip member, what the capture still
  awaits) what it is in terms of the file before the position, and that what was
  yielded, queued and held back is what can be told of that part (`Told`). From it:
  `ReportExact`, for any file in any members, records that cannot be read
  included, and any added rules, those that look back too.
- **Linter, clean records** (and `ReachNothing`: added rules report only about the record they are
  shown; without it the property fails, see section 6). Only the record read last
  is waited on (`AwaitedIsLast`), nothing is reported of the one held back
  (`HeldUnreported`), and whatever is clean has another record after it or the end settled
  (`CleanIsSettled`). From it: `FaultedNotClean`, for files of any length.

Some theorems (`WindowBounded`, `ArchiveInInputOrder`, `StopsStarting`, the type
invariants and most of the `IInv`s) state formulas no run lists on their own:
they are parts of, or follow from, what the runs check.

**Only model-checked.** Liveness (`CrawlEnds` of the session, `Termination` of the linter,
`Ends` of a one-shot run and of a removal), which is out of the prover's reach, as is
`ENABLED`; the
property of `operations` that one run again changes nothing (`RunAgainChangesNothing`); and those of `formats` other than
the reader's and the writer's: the conversions of records, headers, blocks and values.
An induction theorem that takes a predicate as its parameter cannot be used, so each
recursive function that a proof meets (`Retain` of the driver, `Members` and `Reports` of
the linter) has an induction of its own, from the fact that a set of naturals that is not
empty has a least member. The conversions are many such functions, some of them RECURSIVE operators, whose modules
the prover cannot enter: what they compute is known on the runs' instances only.

## 5. Assumptions

What the models take from outside the code, beyond the bounds:

- *Server* (Collection): a validator names one version of a URI; two requests get
  different payloads for one validator only where the response declares `Vary`.
- *Records* (Ingestion): what a record states of its capture is so (`Truthful`); in
  particular a head without `Vary` is one of a representation that does not vary.
- *Dates of confirmations* (RevisitIndex): a confirmation that dates the record it names gives
  that record's date, and a row has the date of its record, so that `Confirms` compares
  payloads and identifiers only. One that gives a date and no identifier, or that confirms a
  row without a date (`ingest.rs:382-386`), is not modelled.
- *Identifiers* (Merge): an identifier names one record, perhaps in several copies
  (`Consistent`); inputs that break the standard in this are not modelled.
- *SQLite*: an immediate transaction excludes other writers, so loads are one after
  another. With `synchronous = NORMAL` the last commits may be lost with the power;
  the index stays consistent, and losing them is losing loads.
- *File system* (Publication): a rename is atomic, a synced file and directory are
  on disk, an unsynced name may or may not be. The publication crate, which is not
  in this repository, is modelled as `file.rs:118-125` and its other uses say it
  behaves. Outputs are not named like partial files, and partial files left by a
  run are discarded only after it ended.
- *One run of a collection* never writes the durable index; only ingestion does.
- *Calls on a record* (Records, Builders): a built record is not both edited and given
  setters; the payload of an HTTP message and an identified payload type come from
  libraries and are inputs. A value of an open kind holds what its documentation says:
  `TruncatedType::Unknown` no reason the standard names, `RevisitProfile::Other` no profile it
  names, and an extension's record type is none of the standard's (`extension.rs:144`); a profile
  that is no URI, and a reason or type that is no token, are offered and refused. `RoundTrip`
  compares what is read back with the record as a reader has it (`AsReaderHasIt`): a standard
  field that an extension's record keeps as read is written in the conventional order; white
  space around a kept value or a file name is not part of it, and a file name that is in quotes
  within it is read without them; a field the extension claims becomes the extension's; and a
  block is fields exactly where its type says so and it reads as such. Two records can be
  written and are then refused by their reader, and `RoundTrip` names both: a `WARC-Filename`
  that opens with a quote it does not close, after white space (`text.rs:71` looks for a quote at
  the very start only), and a raw block that an edit gave the type of fields without being such.
  `Padded`, `Requoted` and `Misquoted` each stand for all values of their kind.
- *Sinks* (Writer): a `BufWriter`'s own buffer is part of the sink.
- *Running again* (Operations): `RunAgainChangesNothing` exempts a name given alone with a
  separator in it, which the next run divides: section 6.
- *Aliases and partial files* (Publication): links are to files that exist, and the
  user removes a partial file only after its run ended, as `file.rs:124-125` says. What
  an alias of a file yet to be created could do is listed as a hazard.
- *Panics* are not modelled: a worker that panics leaves the pool waiting for as
  long as other workers live, which is listed as a hazard.

## 6. Findings

- **A confirmation that names nothing** (`ingestion_nameless`, `ingest.rs:377`). A
  server-not-modified revisit with neither `WARC-Payload-Digest` nor
  `WARC-Refers-To` confirms whichever row is stored, although `ingest.rs:370-371`
  says that a confirmation applies only to the original it names: archives loaded
  without that original leave a validator beside another payload. Archives written
  by this workspace always name the original.
- **The frame of a record whose member is corrupt at its end** (`reader_corrupt`,
  `gzip.rs:102`). The body is delivered before the member's checksum is read. The
  record is yielded as read, its error after it, and its placement ends with the
  member *before*: a frame of no octets and no members, or one that stops short,
  where `read.rs:157-159` promises the members holding the record.
- **A rule that looks back** (`linter_backward`, `lint/mod.rs:129`). The preceding
  record is released as clean before the added rules see the record after it, and
  only faults already queued hold it back. `Findings::fault` takes the position of
  any record, and `rule.rs:102` promises that "a record any rule faults is not
  reported clean, whichever record was being checked": a rule that faults an
  earlier record gets both results. The rules of the crate do not do this.
- **A validator put on another representation** (`collection_late`, `collection.rs:333`).
  The exchanges of a capture are recorded at its end, retries included. An attempt that
  runs out of time keeps a complete 200 it had received (`outcome.rs`, the test of this at its
  end), and the retry is prepared from the row there was before. Is it answered with a 304, the
  200 replaces the row and the 304 then updates the validator of the row by its own, that of the
  earlier representation, where `resource.rs:63` says that "the validators above describe
  this representation alone". A later 304 to that validator is written as a revisit of a payload
  the server did not mean. `collection` shows how far this goes: to the row of that URI, until
  it is replaced, and to revisits prepared from it.
- **A name that holds its separator** (`operations_separator`, `rewrite.rs:114`). A
  `software` name `a/b` given alone to a record without a version is written `a/b`, and
  divided at its first separator from then on: `rewrite.rs:31` says that "a name given alone keeps
  the version or email address the record already has", and setting the name again writes
  `a/b/b`. The same with an operator's name that holds ` <` and ends with `>`.

What the other runs check holds. Where a property names exceptions (`RowsSound`,
`RevisitsFaithful`, `RoundTrip`, `RunAgainChangesNothing`, `StreamPlacedExactly`), they are these
findings and the cases section 5 lists.

## 7. What is not modelled

- Characters within a token, a number or a URI: the grammars group them, and the
  repository has property-based tests of each. The hash functions, and the check of
  the trailing bits of an encoding. The constants for common media types are a fast path
  to the value their text reads as.
- Accessors of single fields in a metadata or warcinfo body (`via`, `hopsFromSeed`,
  `fetchTimeMs`, `ip`), and variants of a field's name that a caller builds to spell
  a known one. A refusal of an extension's own.
- The header-block limit and the arithmetic of windows in the reader: whether a
  line is too long is a choice. Of an archive's `warcinfo` and metadata blocks, their
  values but one a field cannot hold.
- What copying a file or renaming its compressed form does besides the records
  (`compress_path_keeping_filename` changes none), counts, warnings, and wording
  (the linter's `report.rs`).
- Opening an index: every statement that makes one is repeatable (`schema.sql` has `IF
  NOT EXISTS`), the version is written last, and each load waits for the write lock.
  Encodings of its columns.
- Configuration, capture summaries, command-line tools other than `id`, examples and the
  validator: they parse arguments, call the parts above and print. The graph tool draws
  the references of a file.
- The HTTP client, its challenge solvers, the publication and the test-support
  crates: separate repositories. The identification of payload types calls a file-format
  library.
- Hazards without a property: a worker that panics (`pool.rs:86`), a 304 that leaves out
  the `Vary` its 200 had (`ingest.rs:413`) and a dangling alias of an output
  (`file.rs:213`); section 5 has the assumptions that exclude them.

## 8. Plan

Done, in the order of importance: pool and sequential loop; session and driver;
collection over the index; ingestion; merge; remove; publication; record iteration; the
linter; the record level with its builders, header blocks, blocks of fields and values; the
writer; identifiers and the operations of warc-ops; an archive's records.

To extend the model further: writer and reader composed, so that the frame one reports is
the one the other reads; pool and collection composed, with captures prepared in one
order and recorded in another; the associations of a file as functions shared by the
linter, merge and remove.

To prove: `RunAgainChangesNothing`, one operation at a time; round
trips of the values whose conversions are not recursive.

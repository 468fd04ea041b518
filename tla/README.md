# Personal Second Brain: specifications, model checking and proofs

This directory specifies the behaviour of the personal second brain in TLA+,
checks it with TLC on small instances and proves the central theorems with
TLAPS. Paths below are relative to the repository root.

## 1. The system

A local-first knowledge store. Markdown notes and three JSONL event streams are
the sources of truth; a SQLite file and a retrieval index are disposable
projections of them. Every CLI command is an operating-system process of its
own; the dashboard is one process that serves concurrent asynchronous requests,
each of which opens its own SQLite connection. There is no daemon and no lock
file: whatever runs at the same time meets in the file system and in SQLite.

| Layer | Where | Written by |
|---|---|---|
| L0 raw notes (immutable) | `vault/00_Raw` | capture, media intake, bridges |
| L1 working notes | `vault/00_Inbox` | promote |
| L2 distilled notes | `vault/80_Wiki` | distill accept |
| L3 facts, entities, edges, tasks | `db/memory.sqlite` | fact commands, rebuild |
| L4 retrieval index | `indexes/retrieval.duckdb` | Python sidecar |
| L5 outputs | `vault/60_Outputs` | output create |
| event log | `events/{capture,memory,projection}_events.jsonl` | all of the above |
| secure references | `secure/` | secref, media intake |

### Components

| Component | State | Operations | Meets others through |
|---|---|---|---|
| fact store and rebuild (`packages/fact-store`, `memory-kernel`, `event-log`, `apps/cli/src/fact-command.ts`, `rebuild-command.ts`) | the memory log, the `facts` table, SQLite's write lock, the projection log | fact add / supersede / accept / list, rebuild | the log and SQLite, between processes |
| projection store (`packages/memory-kernel/src/store.ts`) | `schema_version`, the tables | open (create, migrate), transaction | SQLite, between processes |
| entity graph (`packages/entity-graph`) | `entity_nodes`, `entity_edges`, the merge map folded from the log | merge, project entities, project edges | the log, the vault listing |
| task store (`packages/task-store`) | `tasks` | project tasks | the vault listing |
| note vault (`packages/note-vault`) | note files, secure references | raw / working / distilled / output writers, readers | exclusive creation of files |
| capture, promote, distill, output commands (`apps/cli/src`) | a note file and an event | write, then append | two stores, no transaction |
| media intake (`apps/media-intake`) | a secure reference, a raw note, a working note | ingest, retried by its callers | a scan of the vault, then three commands |
| retrieval sidecar client (`packages/retrieval/src/sidecar-client.ts`) | a child process, its buffer, pending requests and their timers | request, close | JSON lines over stdio, callbacks |
| retrieval sidecar (`sidecars/retrieval`) | the index file, its temporary file | index, query, health | the memory log, the vault, a file rename |
| index and query commands | the projection log | index, query | the sidecar client |
| grants (`packages/interfaces`) | none (pure) | resolve, match, enforce | every command invoked by another app |
| dashboard (`apps/dashboard`) | a session token | list, capture, accept | grants, the command line's `main()`, called in process |
| chunking and ranking (`chunking.py`, `indexer.py`, `querying.py`) | the tables of one index | cut a note, derive links and dates, rank and filter chunks | called by the sidecar |
| media drive scanner (`scripts/media_drive_scan.sh`) | artifact directories, transcripts, markers | scan the inbox folder | a LaunchAgent, people, the media intake |
| domain apps, obsidian helper | none of their own | workflows of commands | the command line, under their own grant |
| workspace scripts (`scripts/init_workspace.ts`, `scripts/lib/workspace_env.ts`) | the directories, event logs and READMEs of a workspace | initialise, verify | run by hand, next to every other command |

### Behaviours that are hard

* Two stores, no transaction: a command appends an event and then writes a row
  (or writes a note and then appends an event). It may fail or die between the
  two, and another process may run between them.
* A rebuild deletes every row and replays the log inside one SQLite transaction
  while other processes append to the log that it has read.
* SQLite connections have no busy timeout: contention is an error, not a wait.
* The database is created and migrated by whoever opens it first, statement by
  statement and outside a transaction; `db/` may be deleted at any time.
* A workspace is made file by file; the run may die, another may run beside it,
  and a command that appends an event creates the same log.
* Appends are not atomic against a full disk, and a reader rejects the whole
  log for one bad line.
* The sidecar client multiplexes requests over a child that may die, answer
  late, answer garbage or hang; its callbacks share one buffer.
* Two index builds share the path of one temporary file; a client that gives up
  kills a child that may just be swapping its index in.
* Media intake checks, then writes three times, and is retried after failures.

## 2. What correct means here

| Component | Properties |
|---|---|
| fact store | the projection is a faithful view of the log; what a command confirmed stays there and can be replayed; corrections point backwards; reports are true; every command ends |
| sidecar client | each call is settled once, with its own answer or an error; no child outlives `close()` |
| entity graph | no duplicate or self edge; merges speak of projected entities; resolving settles; a rebuild stores exactly what the sources mean |
| vault commands and intake | events have their notes, working notes their raw notes, cited identifiers their targets, handles their references; one note per media id, and an intake reports what it was asked for |
| index | builds that do not overlap leave a whole index; an index once there stays; queries are no older than the last `index`; events tell of builds that took place |
| enforcement | a command works on a grant that its caller had when it was dispatched; apps change only what they may; nobody gets more than the command line; first-party surfaces are never turned away |
| drive scanner | what was ingested never changes; room tours are left alone; a file that stays put with its transcript is ingested |
| dashboard | the core gets only what passed the guard of this start, verbatim; each request is answered once; temporary files are removed |
| workspace | what is reported ready is whole; no log loses an event; a run that was cut off can be repeated; commands work where they were told |
| projection store | a store that counts as current is complete; nobody works on half a schema; versions never disagree, and a newer one stays |
| chunking and ranking | nothing lost, nothing twice, chunks filled; filters act before the ranking; pages are full and in order; the better hit is first |

## 3. Modules

| Module | Models | Kind |
|---|---|---|
| `FactLedger` | what the fact store promises, without processes, files or locks | abstract specification |
| `FactStore` | the fact commands and rebuild over the log and SQLite | detailed specification |
| `FactStoreProofs` | theorems about `FactStore` | proofs |
| `GraphProjection` | entity nodes, entity edges, tasks, merges; alone and in a rebuild | specification |
| `GraphProjectionProofs` | theorems about `GraphProjection` | proofs |
| `VaultFlow` | capture, promote, accept, output, media intake | specification |
| `VaultFlowProofs` | theorems about `VaultFlow` | proofs |
| `SidecarClient` | the stdio transport and its children | specification |
| `IndexRegister` | what `index` and `query` promise, without sidecars, files or timeouts | abstract specification |
| `IndexSwap` | `index` and `query` with their sidecars and the index files | specification |
| `IndexSwapProofs` | theorems about `IndexSwap` | proofs |
| `Workspace` | initialising and verifying a workspace, appending to one of its logs | specification |
| `ProjectionStore` | opening the store of a workspace; extends `Workspace` | specification |
| `ProjectionStoreProofs` | theorems about `ProjectionStore` | proofs |
| `Chunking` | cutting a note into chunks | specification of an algorithm |
| `Ranking` | the tables of an index, filters, lexical, vector and hybrid order | operators |
| `Retrieval` | a note is chunked, the vault indexed, the index queried; extends `Chunking` and `Ranking` | specification |
| `SidecarProofs` | theorems about `SidecarClient` and `Retrieval`, the two ends of the sidecar's pipe | proofs |
| `Grants` | scopes, the registry, the grant file | operators |
| `CallerGate` | dispatch and enforcement of every caller's commands; extends `Grants` | specification |
| `CallerGateProofs` | theorems about `CallerGate` | proofs |
| `DriveScan` | the scanner, its LaunchAgent, the people around it | specification |
| `Dashboard` | concurrent requests of the HTTP server | specification |
| `EdgeProofs` | theorems about `Dashboard` and `DriveScan`, the programs that call the core's commands from outside | proofs |
| `MC...` | each of these for TLC | model |

Modules meet where the code does, through a file or a command. A command that
one module takes apart is one step of the module above it: `Dashboard` and
`DriveScan` run a command in one action, `VaultFlow` and `FactStore` show what
happens inside one. `GraphProjection`'s rebuild has the tables that
`FactStore`'s leaves out. `ProjectionStore` is what `FactStore` does in the one
step `OpenStore`, and `Retrieval` is what `IndexSwap`'s version numbers stand for.

Where several small properties say one thing together they are checked as one,
and the type invariant of a module is among the parts of its first such bundle:
`ReportsTrue`, `Bookkeeping`, `AwaitsEnd`, `GraphSound`, `SourcesFound`,
`LoneBuildsSound`, `SummaryTrue`, `SettledStays`, `EndsClean`, `WritesTrue`,
`WorkspaceSound`, `SchemaWhole`, `VersionSound` and `ChunksSound` are conjunctions
of named parts.

A definition named `X_Something` is a plausible slip in `X` (a dropped check, a
swapped order). Nothing uses it: it is there to show that each property
notices the slip when it takes `X`'s place.

### FactStore

Every process has a location `pc`; an action is one step another process can
observe: an SQLite statement, an append, a read of the log or the end of an item.

| Code | Specification |
|---|---|
| lines of `memory_events.jsonl` | `log`, a sequence of facts and `Junk`; `openLine` when the file does not end in a newline |
| table `facts` | `rows`; a rebuild's uncommitted rows are `work[p]` |
| `BEGIN IMMEDIATE` | `lock` |
| a connection to a database that has been deleted | `orphans` |
| `recordFact` | `OpenStore`, `AppendEvent`, `InsertRow` and their failures |
| `runFactAccept` | `StartRecord` (the whole file is validated first), `EndItem` |
| `runRebuild` | `StartRebuild`, `Begin`, `ReadLog`, `Commit`, `RollBack`, `AppendReset`, `AppendRebuilt` |
| a killed process, a deleted `db/` | `Crash`, `DisposeDb` |

`DisposeDb` may happen before any step of any command. The next command that opens
the store makes a new database; a command that has it open keeps the old one, and
the two share neither rows nor lock. What SQLite does then was tried out with the
library: an insert that begins after the deletion fails (`SQLITE_READONLY_DBMOVED`),
while a transaction that has already written may commit, so a rebuild may report
success and have restored nothing (`Commit` with `p \in orphans`).

`outcome`, `forgotten` and `commits` are history variables: what a command
reported for each fact, which confirmed facts a deletion of `db/` took away and no
commit to the database in `db/` has brought back, and
the row counts of committed rebuilds. `fact list` only reads `Current`; that it may
create the database first is an `OpenStore` with nothing after it, which
`ProjectionStore` has step by step. Other memory events (`entity_merged`,
`note_created`) do not touch the facts and are left out; what a rebuild derives
from the vault may fail at any time (`RollBack` before `Commit`).

### GraphProjection

| Code | Specification |
|---|---|
| notes and their frontmatter | `notes`: entity or not, titled, with a status, references |
| `entity_merged` events | `merges` |
| `entity_nodes`, `entity_edges`, `tasks` | `tables`; uncommitted rows `work[p]` |
| `mergeEntities` | `StartMerge`, `FindCanonical`, `FindDuplicate`, `AppendMerge` |
| `rebuild`: one transaction, the vault listed for each table | `StartRebuild`, `ListNotes`, `DeriveNext`, `Commit`, `Abandon` |
| the exported projectors alone, each statement committing | `StartAlone`, `DeriveAlone`, `DeleteAll`, `InsertNext`, `FinishAlone` |
| `resolveMerges`, the edge builder | `Resolve`, `EdgeRows` |

Merges may form cycles, as the code allows. Ids stand for ULIDs in their order.

### VaultFlow

| Code | Specification |
|---|---|
| exclusive creation of a note, then its writes | `OpenNote`, `FillNote`, `FinishNote`; `part` is how much is on disk |
| secure references | `OpenSecref`, `WriteSecref`; `secrefs` |
| `media ingest`: scan, classify the pointer, record, capture, promote | `Scan...`, `RecordPublic`, `OpenSecref`, `EventThenPromote`, `FinishPromote` |
| promote, accept, output: read what is cited first | `ReadSource`, `ResolveSources` |
| capture and memory events | `captured`, `accepted`, appended by `EventThenAnswer`, `EventThenPromote` |
| a failure or a death at any step | `Abandon` |

Ids are numbers in the order of creation, while a scan may choose any note that
matches, since ULIDs of concurrent processes come in any order. A scan of the
vault and the reading of all citations are one step each. What an output cites
are notes, facts, an id that names nothing (`Ghost`), and links or titles (`Link`):
`assertSourcesResolve` looks up the ULIDs among them and accepts everything else as
it is, so `OutputsCite` speaks of the ULIDs only. That an output rests on something
that exists is not claimed; one that cites a link alone is written.

### SidecarClient

JavaScript runs one callback at a time, so each callback is one action:
`Request`, `OnStdout`, `OnSpawnError`, `OnExit`, `OnClose`, `Timeout`,
`CloseClient`, `KillAfterGrace`. `pending`, `buffer`, `seq` and `current` are
the client's private fields; `inbox` and `stdout` are the pipes of each child.
The child is external: `ChildStep` reads and answers in any order, writes half
a line, writes a line that is no response, hangs or dies. Node reports a death
in steps (`dead`, `exited`, `closed`), and other callbacks run between them.
`sent`, `noisy` and `got` are history. A kill is assumed to end the child and
whatever it started; `uv run` puts a process of its own between the two.

### IndexSwap

Files are inodes with names: `index` and `tmp` name files of `file`, and a file
that was unlinked or renamed is still written through the handle in `open`.
`cli` and `sidecar` are the two processes of a command; the command may give up
(`Timeout`) and kills a sidecar that has gone on. `ClearTmp`, `CreateTmp`,
`Write`, `CloseFile`, `Swap` are the builder's steps. A vault is a version
number: which notes are in an index is its version. `since`, `began`, `floor`,
`result`, `committed` and `crowded` are history; a command that is over forgets its own.

`IndexRegister` is the same system seen from outside, a register of versions: `Build`
replaces what it holds, `Look` takes what it holds and `Reply` answers with it later,
`Confirm` is the event. The refinement mapping reads the register from the file under
the index's name (`Current`) and a reader's view from the file it has open (`Views`),
whatever name that file still has. `since` is what the register assures a reader of,
and `crowded` what frees it from that. That a swap is the only step that changes the
register, that it never empties it, and that a query which began before a swap goes on
with the old version, is what the refinement says of the code.

### Grants and CallerGate

`Grants` translates the scope matcher, the hard denials, the first-party
registry, and the parsing of the grant file with each of its errors.
`CallerGate` runs each caller's workflow as a sequence of commands: `Dispatch`
loads the file when the caller is a domain app (`FailDispatch` when it is
faulty), `Enforce` checks the scopes the handler checks, in their order, or
`Deny`. A person may `Save` another file between any two steps. An absent
`deny` list is an empty one, and unknown keys are one flag, `extra`. What a command may
change (`Changes`) is what it is for (`Writes`) and, for the commands that open the
projection store (`Opening`), the schema of `db/`, which `openProjectionStore` creates or
migrates. `fact list` is one of them, under `read:facts` alone, so `ChangesOwned` says that
who may only read changes nothing but that schema.

### DriveScan

`StartScan`, then for each file of the inbox `Hash`, the marker check, the
search for a transcript, whisper, and the intake with its promotion, as the
script orders them. `Environment` is what people, the sync program and the
transcriber do: files appear, are renamed or removed, transcripts and markers
are put into directories. `Kill` cuts a scan off. One scan runs at a time.
Index symlinks, `manifest.json`, logs and notifications are left out; nothing
reads them back.

### Dashboard

Each request has a location (`at`) and runs from await to await: `Serve` is the route
and its guard, the body, the temporary file of a proposal, the command, the
answer and the removal. `StartServer`, `StopServer` and a fault that nothing
catches begin and end a process; each start draws a token of its own, and an
open page keeps the one it was served with. Static files are left out. The
module's names (`ServerInit`, `ServerNext`, `ServerSpec`) differ from those of
`DriveScan`, so that one module can state theorems about both.

### Workspace and ProjectionStore

| Code | Specification |
|---|---|
| `WORKSPACE_PLAN`, entries of the file system | `Plan` (root, directories, logs, READMEs), `tree` |
| `readRawWorkspaceValue`, `.env` | `Setting`, `Raw`, `Resolves` |
| `createDirectories`, `createEventFiles`, `createReadmeFiles` | `LookFinds`, `LookMisses` (`existsSync`), `Make`, `Open` (the `wx` flag), `Fill`, `Initialized` |
| `--verify` | `Inspect`, `VerifiedOk`, `VerifyFails` |
| `appendMemoryEvent` | `Ensure`, `AppendEvent` |
| `openProjectionStore` | `MakeDb`, `Connect`, `CreateTable`, `CreateIndex`, `SelectVersion`, `InsertVersion`, `UpdateVersion`, `CloseStore` |
| a deleted `db/`, a death or an error | `DisposeStore`, `Abandon`, `CloseStore` |

A database is a file with a number (`store`), which a name (`link`) and processes
(`held`) refer to: after `db/` is deleted, an opener goes on with a file that has
no name. `ready` remembers what a command reported until something is deleted,
`disturbed` whether a command ran alone, `told` whether its environment named
another workspace. `--dry-run` and `--help` only print and are left out, as is a
path inside the repository or one of several forms, which are one `Unfit` value.

### Chunking, Ranking and Retrieval

A body is a sequence of characters of three kinds; sections, paragraphs, pieces
and chunks are spans of it, so that "nothing is lost" is a statement about
positions. Whitespace other than line breaks is left out.

| Code | Specification |
|---|---|
| `chunk_note` and its helpers | `TakeSection`, `TakeParagraph`, `CutParagraph`, `PackNext`, `Finish` |
| `_build_into` with `_graph_edges`, `_temporal_rows` | `Indexable`, `GraphEdges`, `TemporalRows`, `Index` |
| `_allowed_note_ids` | `Neighbourhood`, `InRange`, `AllowedNotes`, with None as `Unfiltered` and a set as `Only` it |
| `_lexical_rows`, `_vector_rows`, `_normalized`, `_hybrid_rows` | `LexicalRows`, `VectorRows`, `Normalized`, `HybridRows` |
| what `notes.py` and a query read | `NoteRecord`, `EventRecord`, `VaultRecord`, `QueryRequest` |
| `op_query`, `runQuery`, `queryMemory` | `Query`, with `Refused`, `Malformed`, `Mismatched` in the code's order |

How well a chunk matches is external: BM25 and the cosine are tables of small
numbers (0 for no BM25 score), which a question brings along. Scores are kept as
whole numbers: a normalised score is multiplied by the spreads of both rankings
instead of divided by its own. `Retrieval` chunks the first note of the vault step
by step, gives its chunks to the builder and asks one question after the other.
An embedding model that fails to load is `IndexSwap`'s `EmbedFails`.

## 4. Runs

| Run | Bounds | Shows |
|---|---|---|
| `fact_store` | 2 processes, 3 facts, proposals of up to 2 items, rebuilds until one has committed; whole appends, weak fairness | the safety properties, the refinement of `FactLedger`, and that every command ends |
| `fact_store_torn_line` | 2 facts, torn appends | the first finding |
| `graph_projection` | 2 processes, 3 notes, 1 edit, 2 changes (edits and merges) | the tables are simple and grounded, a rebuild is exact |
| `bootstrap` | 2 processes, 4 commands, 3 directories, 2 logs, 2 READMEs, 3 tables, 5 workspaces and 5 stores to begin with | a workspace and its store become whole, whoever dies while making them |
| `vault_flow` | 2 processes, 2 notes, 1 reference, 1 media id, 1 transcript, a public and a private pointer, 1 fact, 1 link | events, notes, handles and cited identifiers agree |
| `sidecar_client` | 2 calls, 2 children, fairness of the event loop | each promise is settled, with its own answer |
| `index_swap` | 2 builders, 1 querier, 1 edit, 3 files, a build of 1 write | whole and fresh indexes, the refinement of `IndexRegister` |
| `index_half` | 2 builders, a build of 2 writes | the second finding |
| `caller_gate` | 1 invocation, 14 grant files, every caller, every scope anybody asks for | enforcement |
| `drive_scan` | 2 names, 2 contents, 3 changes, 3 sets of flags, fairness of the LaunchAgent | the scanner's ledger and progress |
| `dashboard` | 2 requests, 2 proposals, 2 temporary names, 2 starts | the guard, the bodies and the answers |
| `retrieval` | every text of up to 8 characters, target 3, with and without a title; vaults of up to 3 notes; a pool of 2, scores 0 to 2, weights 0, 7 and 10 of 10 | what becomes of a text, and what a query finds |

Why these bounds are enough for the cases in view:

* `fact_store`: two processes make the races of a rebuild with a recording and
  of two recordings; three facts make a chain of two corrections and a proposal
  whose second item fails. Two rebuilds can run at once, since the bound counts
  committed ones only, so one may commit to a deleted database and one to its
  successor.
* `graph_projection`: two merges make a cycle or a chain; three notes make two
  edges that coincide once two entities are one, and edges that turn into
  edges of an entity to itself. An edit may fall between any two of a rebuild's
  listings.
* `vault_flow`: two notes are a raw note and the working note made of it, or
  the two notes of two intakes that race. Private and public pointers take the two
  ways of recording a handle.
* `sidecar_client`: two calls are in flight together or one after the other,
  and the second child is the one that inherits the first one's buffer.
* `index_swap`: one edit tells an old index from a new one, and three files are
  the index, the temporary file and one more, which the second builder creates.
* `caller_gate`: invocations share the grant file only, and nobody but a person
  writes it, so a second one adds no behaviour; the proofs are for any number.
* `drive_scan`: two names for one content and two contents under one name are
  the cases where hash and name disagree; three changes are a file, its
  transcript, and one that spoils it.
* `dashboard`: two requests share the temporary directory; two starts let a
  page of the first meet the token of the second.
* `bootstrap`: two processes race for each entry and each statement, and the other
  commands find what those that died left behind. The stores are those of the two
  migrations, one with duplicate edges, a newer one and a corrupt one; two rows of
  version 1 are what a race of two first openers of an older version left.
* `retrieval`: eight characters hold a heading, a paragraph that is cut twice
  and a further one, each with its breaks. Three notes make a link each way, by
  reference and by title, and a third note outside a neighbourhood. A pool of two
  leaves the third chunk out of either ranking, so that a chunk may be in both,
  one or none; three scores make ties, flat rankings and a best, a middle and a
  worst; every assignment of scores is tried, in the vaults of the first kind.
  The index is built with one of two embedding models: they are only compared.

A deadlock is an error except where the system really comes to a stop: a closed
sidecar client, a dashboard whose starts are used up, a workspace whose commands
are used up.

Two properties hold of undisturbed runs only, and say so with a history
variable: `OncePerMedia` of intakes that neither overlapped nor met a note
they could not read (`blind`), and `LoneBuildsSound` and `QueriesFresh` of builds
that did not overlap (`crowded`). The code has no lock that would give more.

### Fairness

* `FactStore`, with whole appends: weak fairness of each process' own steps; the operating system
  goes on scheduling a running process. Nothing forces a command to start, a
  process to die or `db/` to be deleted.
* `SidecarClient`: the event loop fires due timers, reads what is in a pipe and
  notices a death. Nothing is assumed of the child, which may hang for ever.
* `DriveScan`: the LaunchAgent starts a scan every 900 seconds and a scan goes
  on (weak); scans outside of dry runs come again and again, and hashing and the
  intake of one file do not fail every time (strong). How often a scan is
  killed is bounded by `MaxChanges`.
* `Dashboard`: weak fairness of each request's next step; a client that does not
  finish its body is cut off by Node's request timeout.

### Findings

1. `appendMemoryEvent` (`packages/event-log/src/memory-event.ts:89`) does not look
   at how the file ends. After an append that failed half way, the next one
   succeeds, is acknowledged, and is glued to the partial line;
   `readMemoryEvents` (`read-events.ts:28`) then rejects the whole log.
   `fact_store_torn_line` shows a confirmed fact that cannot be replayed,
   against `docs/architecture/memory_layers.md:52`.
2. All builds share one temporary name (`indexer.py:98`). A builder may rename
   the file that another is still writing; if that one then dies, half an index
   stays. `index_half` shows it, against the docstring at `indexer.py:6-8`.

The models contain other behaviour that a reader may not expect, where no
property forbids it:

* a rebuild under which `db/` is deleted may commit to the deleted file and append
  both projection events, while the new database stays empty
  (`rebuild-command.ts:52-93`);
* `fact list`, which its comment calls read-only (`query.ts:32-33`), creates or
  migrates `db/` for a caller with `read:facts` alone, as does `output create` when a
  source is no note (`output-command.ts:110`);
* half a line of a dead child stays in the client's buffer and spoils the first
  line of its successor (`sidecar-client.ts:134`), and the late `close` event of
  a dead child fails the calls of its successor (`:144`);
* after merges of A into B and of B into A edges stay where they were
  (`projector.ts:128`);
* overlapping intakes of one media id make two notes (`ingest.ts:179`); a crash
  leaves a note without its event, or cut off; a promotion that failed is not
  tried again (`ingest.ts:211`);
* captions beside a media file do not count as a transcript
  (`media_drive_scan.sh:387`);
* two files with one note id keep the whole vault from being indexed, as its
  chunks' keys collide (`indexer.py:137`);
* a hybrid page of k+1 hits need not begin with the page of k hits, since the pool
  grows with k (`querying.py:186`); with a weight of 0 or 1 a chunk outside the
  pool ties with the last one in it;
* a README that was created when an initialisation died stays empty, and
  `--verify` accepts it; an initialisation takes a file where a directory of the
  plan should be for that directory, which only `--verify` notices
  (`init_workspace.ts:236`, `:300`, `:367`);
* an opener adds tables and the index to a newer or corrupt database before it
  looks at the version and refuses it (`store.ts:107-133`);
* if the removal of a proposal's temporary file fails after the response was
  sent, the handler answers again, which ends the process (`server.ts:227`, `:337`).

## 5. Proofs

### FactStoreProofs

For every value of the constants:

* whatever the appends do: `TypeOK`, `AckedProjected`, `SnapshotCovers`,
  `RowsOnlyGrow`, from the inductive invariant `IInv`, so even with an
  unreadable log no confirmed fact leaves the projection;
* likewise `CurrentSuccessor`, from the invariant `DInv`, and
  `CommittedOutcomesOnly`, from `Tally`;
* with whole appends (`~TornWrites`): `RowsFromLog`, `AckedReplayable`,
  `SupersedesEarlier`, `ReportTruthful` and `ImplementsLedger`, from `IInv` and
  the second inductive invariant `CInv`; `ReportsTrue` joins three of them as the
  run states them.

`IInv` relates what a process has in hand to the two stores. The point a proof
of `AckedProjected` needs is that while a rebuild holds the lock, no insert can
commit to the same database (`OneTransaction`, which leaves out connections to a
deleted one; `Attached` says that only an open connection is one of these), so whatever was confirmed was confirmed before the rebuild read the log
and its event is in the snapshot. `CInv` adds what only holds of a clean log:
each fact is in the hands of at most one process, its event is in the log
exactly from its append on, and its target was logged before.

`CurrentSuccessor` is about whole sets of rows. What makes it true is an order in
which every fact comes after the one it corrects. The log has it only as long as it
can be read, so `DInv` keeps a date for every fact that was ever drawn and carries it
through whatever a process has in hand, the snapshots of rebuilds included (`Dated`,
`Datable`). In a set that holds the superseders of its members the youngest is
current (`YoungestIsCurrent`), and there is a youngest because every set of numbers
has a least one (`LeastNumber`).

`CommittedOutcomesOnly` compares counts of three growing sequences. `Tally` has, for
the events that are due, who owes them: a rebuild between its commit and its reset
owes both, one between the two owes the second, with the count it committed
(`Owing`). The lemmas on `Hits` say what an append does to a count.

### GraphProjectionProofs

`GraphIsSound` and `RebuildsAreExact`, which are both properties of the run
`graph_projection`, for any number of processes, notes, edits and merges. The proof
has two halves.

The first is about `Resolve`, a recursive function. Its definition has a solution
because what a walk comes by (`Trail`) can be defined without recursion
(`EndExists`), and every walk ends because the set of entities it has not passed
shrinks (`WalkEnds`, from the library's theorem that inclusion of finite sets is
well-founded). `WalkEnds` gives a property of the end from one that steps keep:

* `ResolveTwice`: whatever cycles the merges have, resolving is idempotent. An
  entity that was reached and is merged away itself lies on a cycle
  (`ResolveComesRound`), and a walk from an entity on a cycle stops at it
  (`ResolveStays`);
* `ResolveStandsFor`: without a cycle, resolving gives the one entity that every set
  closed under merging holds and that is not merged away. `EdgeRowsExact` makes of
  it what the edges mean.

The second half is the inductive invariant: what a projection has still to derive
(`Orders`), that what is in hand is as simple as what is stored (`EdgesSimple`), that
what a merging process has found stays among the projected entities even while the
table is empty (`Found`), and that a rebuild under which nothing changed has its
listing right and every table that it is done with exact (`Undisturbed`).

### CallerGateProofs

For every set of callers, grant files and concurrent invocations: `TypeOK`,
`OnOwnGrant`, `ChangesOwned`, `SurfacesServed` and `ConfinedToCli`. The
inductive invariant adds to the type invariant what each location has
established: `Loaded` (a dispatched command has the grants of the file it read),
`Admitted` (a command at work had every scope it enforces covered by its
caller's grant) and `Queued` (what a caller has left is the rest of one of its
workflows). `ChangesOwned` adds to `Admitted` that whatever a command changes is owned
by a scope that its handler enforces (`ChangesEnforced`). `SurfacesServed` needs `Queued`: that
a surface is never turned away follows only from which commands it sends.

### SidecarProofs

The client. For any number of calls and children: `Bookkeeping`, `OwnAnswer` and `NoOrphan`.
`OwnAnswer` is not inductive: that a response settles its own request depends on
what is still under way in the pipes of children that were replaced long ago. The
strengthening is `WireOwn`: whatever request or response is on its way carries an
id that was given out (`m.id <= seq`) and whose entry is either its own call's or
gone. It holds because ids are never used again (`LaterIdsFree`, `SeqCounts`).
`NoOrphan` needs `OneAlive`: the only child that may be alive is the one the
client knows, as its current one or as the one `close()` waits for.

The index. `ChunksAreSound`, `FiltersActFirst`, `PagesAreComplete` and
`BetterComesFirst` state the four invariants of the run `retrieval` for every vault,
body, target, table of scores, limit and weight. The inductive invariant `RInv` has
two halves.

*The chunker* (`ChunkInv`). `Cutting` says where in its section the algorithm is, that
the section ends with ink and that no line of it but the first is a heading; `Skipped`
and `Kept` are the only two ways of going on, over a blank or with one more piece.
`Gathering` says that what is in the buffer fits and that its first piece could not
have gone with the chunk before. What chunks hold and how large it is are recursive
functions; that they have values, and what one more chunk or piece adds, is proved
once (`Recursion`, `PackedAppend`, `TotalAppend`).

*The answer* (`RetrievalOK`): the index is the vault's, built with some model, and an
answer is what the query made of that index after every check. The rest is about
operators, in the order in which the code applies them:

* `FiltersMean`: the chunks that `AllowedNotes` lets through are those of the notes the
  question means, with `NeighboursLinked` for references and titles either way
  (a title is that of the first note that has it, `TitleOfFirst`) and `RowsDate` for
  the dates of notes and events;
* `RankedIsRanking`: a chunk's place, the number of chunks ahead of it, is a different
  one for each and none is left out (`PlaceIsOwn`, `PlacesTaken`), so a page
  is a ranking: full, in order, nothing twice, and whatever precedes a chunk that is
  shown is shown before it;
* `NormalizedOrder`, `ScaleKeeps` and `BetterInBoth`: neither normalisation nor the
  factor by which the model avoids fractions turns an order round, so that what is
  better in both rankings is ahead when they are combined, whether or not the pool
  cut the other off; `PoolSuffices` gives a full page in spite of the pool.

The assumptions are the types of what `notes.py` reads of a note and an event
(`NoteRecord`, `EventRecord`), of a request (`QueryRequest`) and of scores (`Scored`), a
target and pool of at least one, and that no id or time is the mark of an absent one.

### IndexSwapProofs

For any number of builders, queries, edits and files, and builds of any length:
`LoneBuildsSound`, `QueriesFresh`, `IndexStays` and `ImplementsRegister`. `IndexStays` follows from the
steps alone, since only the rename touches the index's name. The others need
an invariant, most of which (`Lone`) is claimed only while builds have not
overlapped: at most one builder is active (`Alone`); the file under the temporary
name is the one it writes, and of the version it has scanned (`Building`); and no
build that is under way began with an older vault than the last one that
succeeded (`NoOlder`), so the index cannot fall back behind what a query may
count on. What holds even when builds overlap is the rest: files are numbered one
after the other (`Shape`), a command and its sidecar come and go together
(`Pairs`), and a handle is open on a file that exists (`Handles`).

`ActsAsRegister` maps each step to one of `IndexRegister`'s or to none. What readers see
of the disk is the version of a file, which no step changes once the file is created
(`FilesStay`), so the steps of a build are stutters up to the swap. That the swap is a
`Build` and the append a `Confirm` takes `Building` and `NoOlder` while builds do not
overlap; that a query which opens the index has not been answered yet takes `Pairs`.

### ProjectionStoreProofs

Every property of the run `bootstrap`, for any number of processes, any plan and
any schema: `ReportedIsThere`, `SchemaIsWhole`, `LogsAreKept`, `RerunsSucceed` and
`VersionsAreSound`. The inductive invariant says what each place of a command has
established and who can undo it:

* `Passed`: whatever of the plan a command has passed is there and fits, unless
  `db/` was deleted since; nothing else that the commands do takes an entry away;
* `RunsAlone` and `Missing`: a command that nothing disturbed finds what it made
  and nothing more, which is why running it again cannot be refused;
* `Built` and `Read`: the tables and indexes an opener has passed are in the file
  it holds, whichever file the name refers to by then, and the version it has read
  is one that file has or had;
* `Advances`: a database only gains tables, indexes and rows, and its versions
  stay as they were or all become the current one. It makes `Read` stable while
  several openers create and migrate the same file.

It rests on the assumptions on the constants: a parent comes before its children in
the plan (`ChainAssumption`), the stores that were there before are sound, all
versions in one being equal and a current one having the whole schema
(`SchemaAssumption`), and there are finitely many processes.

### VaultFlowProofs

All four properties of the run `vault_flow`, for any number of processes, notes,
references and media: `EventsAreGrounded`, `SourcesAreFound`, `IntakesTellTruth` and
`OneNotePerMedia`. What a process can count on depends on what it is doing and where
(`OnTask`): what it cites was looked up before its note is opened (`Looked`), the
handle it has leads to its pointer (`HasHandle`), the note it fills is the one it was
asked for (`InHand`). These are stable because files are only added and filled:
`Numbered` makes every fresh id new, and `OwnSecref` keeps two processes from writing
the same reference file. `OneNotePerMedia` needs more, and only while `blind` is
false: there is one intake at most (`OneIntake`), and from the end of its scan until
its own note can be read no readable note is about its medium (`NotListed`); that
window is what two overlapping intakes break.

### EdgeProofs

Two programs, which share nothing, in one module. Of `Dashboard`, for any number of
requests, proposals, temporary files and starts: `WritesAreTrue` and `RequestsEndClean`.
The inductive invariant has what each location has established of its message
(`Passed`), that only a server that is up has requests (`Served`, so that no token that
a request was let in with is replaced under it), where the response is already out
(`Counted`), and the two sides of the temporary directory: a file that a request still
has to remove is that request's alone and has its body (`Owned`), and every other file
was left by a failed removal or by the end of a process (`Kept`). `AcceptsVerbatim`
needs `Owned` although no request ever writes a second file: the command reads its
proposal by name, after other requests have run.

Of `DriveScan`: `SummaryIsTrue` and `SettledIsKept`, for any number of files, contents
and changes. The inductive invariant has that a note is promoted only after its capture
(`Captured`), that a tour's marker is never taken away during a scan (`ToursMarked`) and
that no tour gets past it (`TourSkipped`). `SettledIsKept` is a property of steps: it
follows from the lemma that a step from a state of the invariant neither changes an
entry of the ledger nor touches one of a tour.

### What is only proved, and what is only model-checked

`RowsFromLog`, `SnapshotCovers`, `SupersedesEarlier`, `IndexStays` and `CallerGate`'s
`TypeOK` are proved only. `ImplementsLedger`, which a run checks, implies the first and
the third, and `ImplementsRegister` the fourth.

Only model-checked is every liveness property: fairness and `ENABLED` are outside the
prover's reach. Every invariant that a run checks is a theorem, or part of one.

The induction theorems of the library take an operator as a parameter and cannot be
used, but induction is not lost with them: `LeastNumber`, `WalkEnds` and `Upward` stand
in for it, with a set in the place of the operator.

## 6. What is not modelled

| Part | Why |
|---|---|
| identifiers, types, event field checks | pure formatting and validation |
| `validate_notes.ts` | reads notes and prints what is wrong with each; keeps no state, and nothing reads its output back |
| argument parsing, output formats, logging, `--dry-run` | no state; wording |
| path checks, frontmatter serialisation | abstracted to what readers decide by |
| transcript normalisation, tour-review pages, static files | produce text or pages that nothing here reads back |
| how well a chunk matches a question | computed by DuckDB and the embedding model; any table of scores |
| embeddings, DuckDB, SQLite, whisper, Node, `uv` | external; modelled as the code uses them |

## 7. Plan

What is left, in this order:

1. The safety halves of the liveness properties: a count of what is left that each
   step of a command, a call or a request lowers.

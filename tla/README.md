# Verification of the code knowledge system

TLA+ models of the code knowledge system (cks), the TLC configurations that
check them on small instances, and TLAPS proofs of what matters most for every
instance. Every definition was translated from the source; `PROJECT.json` maps
each one to the lines it stands for.

## 1. The system

cks answers one question for a coding agent: *what does the code base know
about this task?* An MCP server (`cks-mcp`) opens two read-only indexes of one
source tree, a code graph (ckg) and a vector index (ckv), and composes their
answers into an *evidence pack*: citations, bodies within a token budget, and
the graph edges between them, sanitized and stamped with a hash. Beside it stand
the scripts that build and promote the indexes and manage server processes, and
the commands that keep the domain knowledge the indexes are built with.

```
 client --MCP/HTTP--> internal/mcp --> composer: intent -> stage 1 -> 2 -> 3 -> 4 -> 5 -> pack
                      |  |  |                              |      |    |    |
        health, gate -+  |  +-- graph tools, flow tools   ckv   ckg  ckg  files
                         +-- ops.index (rebuilds in place)

 cks-mcpd.sh ---------> state/<name>/{pid, port, config}, cks-mcp processes
 reindex-dataset.sh --> <family>@<version>/{graph-db, vector-db} <-- <family>@current
 cks-entry-verify, cks-anchor-refresh, cks-domain-sync, ... --> entries/, inventory.md,
                                                   glossary.yaml, policy views, corpus
```

### Inventory

| Component (source) | State it keeps | Operations | What is hard | What makes it correct |
|---|---|---|---|---|
| Stage 4, budget (`composer/budget`) | one call: lists, counters | `Allocate` | two slot reserves and a cap in one greedy loop | budget and cap hold; each reserve is honoured whatever the other does; a citation is judged once |
| Pipeline, sanitize, assembly (`composer.go`, `sanitize`) | one call: stage outputs | `ComposeTraced`, `Sanitize`, `assemblePack` | a late fail-closed match; a citation set that grows while edges are filtered by it | the pack is closed under its edges; no forbidden text leaves; what is missing is accounted for |
| Stages 1 and 2 (`stage1`, `stage2`, `vocab`) | one call: hits, keywords, ranked lists | `Extract`, `Search` | rounds that fail after others succeeded; rank fusion of lists that partly fail | hits and keywords survive a failed round; what every source prefers comes first |
| Stage 3 (`stage3`) | one call | `Expand` | partial failures of walks; dedup of ranked lists | nothing found is lost, the best evidence is kept, failed seeds are named |
| Graph client and graph tools (`ckgclient/real.go`, `mcp/graph.go`, `analysis.go`) | none | `FindSymbol`, callers and callees, subgraph, impact, change context | names that are ambiguous; caps and filters on one list | closed answers, no guessed symbol (up to symbols that share a name), caps cut the least related |
| Vector client (`ckvclient/real.go`) | `modelDown`, the probe cache, its mutex | `SemanticSearch`, `Health`, `probeModel` | flag and cache are set by concurrent calls and go stale | an outage is noticed and ends, the model is not probed by every poll |
| Gate and health (`mcp/get_for_task.go`, `health.go`) | none | `handleGetForTask`, `handleHealth` | checked, then used | refuses while a backend is down, serves again afterwards |
| Startup and HTTP server (`cmd/cks-mcp`, `mcp/server.go`, `config`, fallback clients) | open stores, deferred closers, listener | start, `RunHTTP`, tools, shutdown | a startup that fails half way, shutdown against running requests | everything but the embedder's adapter is closed, nobody loses a store in use within the grace period, no canned answer passes for a real one |
| Alignment and ops.index (`alignment.go`, `ops_index.go`) | resolved paths, alignment report | start, `handleOpsIndex` | the pointer moves between two lookups; partial rebuild in place | graph and vectors that were compared come from one commit |
| Reindex pipeline (`reindex-dataset.sh`) | lock directory, version directories, `current` | `run`, `promote`, `gate` | crashes at any step, promotion by hand without the lock | what the pointer gives a version name to has passed its gate; a complete version does not change |
| Instance manager (`cks-mcpd.sh`) | a directory per name: pid, port, config | start, stop, restart, remove, register | stale pid files, reused process ids, ports that others take | each name has its own port and its pid file tells of its process |
| Audit log (`auditlog`) | the file, `lastHash`, `closer` | `Open`, `Record`, `Close`, `Verify` | torn writes, crashes, concurrent recorders | what was acknowledged verifies |
| Domain knowledge (`inventory`, `domainexport`, `cmd/cks-*`) | entry files and the files derived from them | verify, refresh, check, sync, glossary, export | several files written one by one; anchors into code that moves | outputs match the entries; no command spoils an entry; refreshing converges |
| Observer, agent loop, evaluation runner | see section 6 | | sequential | |

The components interact by calls inside one process, except for the files: the
pipeline, the operator, `ops.index` and the server instances meet in the dataset
directories with no coordination but the lock directory; the manager and its
servers meet in pid files and ports; the knowledge commands, authors and the
source tree meet in the entries.

## 2. Modules

### Composer, ComposerProofs, Allocator, MCComposer

`Allocator` is the loop of `Allocator.Allocate`. `mergeCandidates` sorts and
the loop walks the list; the model keeps the part of the list not reached yet
as the set `todo` and its head as the candidate no other one sorts before. One
action per way an iteration can end: passed over by a quota (`PassOver`), body
not readable or empty (`FetchFails`, `FetchEmpty`), selected whole
(`SelectFull`) or as its head snippet (`SelectSnippet`), or too large
(`OverBudget`); `FinishLoop` is the end of the list or the cap. What the
fetcher returns is chosen freely, per candidate. Token estimates are small
numbers from `BodyTokens` and `SnippetTokens`; `BodyBudget` is
`int(MaxTokens * (1 - OverheadReserve))`. Negative values in the configuration
behave like 0 in the code and are left out.

`Composer` extends `Allocator` to one `ComposeTraced` call. Stages 1 to 3 are a
*funnel*, the seeds and edges they deliver, or an error (their own modules are
`Retrieval` and `Expansion`; that no edge leads to a seed and one edge is kept
per target is checked there). `Sanitize` handles one body per step and chooses
the set of rule actions its body matches; the order of rules inside one action
kind does not matter to the result and is abstracted. `assemblePack` is
`CollectBodies`, then one step per edge, in the order of the neighbor list
(`AdmitEdge`, `AdmitTarget`, `RejectEdge`), then `Release`. `MCComposer` gives
the funnels, so that the allocator's properties are checked on the inputs stages
1 to 3 can deliver.

### Retrieval, Lists, ComposerProofs, ListProofs, MCRetrieval

`Retrieval` is stages 1 and 2 of a call. A round of `Extract` is a semantic
recall that answers, fails or finds nothing new, the keywords it suggests, their
reranking against the graph's text index, and the decision for another round.
`Search` asks the graph for each keyword, adds every list to the aggregator and
fuses them. A keyword is its style and its words, a citation its key. A list may
hold a citation twice, since symbols that share lines share a citation, and
every position counts; `LongestList` bounds the lists. Scores are exact, because
`Scale` is divisible by every `RRFK + rank`, which some `Scale` is for any bound.
The result is any of `Rankings`, the orders a sort by `goesBefore` may give:
what ties comes out of a Go map in any order. `answered` is a history variable.
Path globs and the footprint are left out. `Lists` has what the code's loops
over a slice leave of it, as recursive functions and not as `RECURSIVE`
operators, so that proofs can reason about them.

### Expansion, GraphClient, GraphProofs, MCExpansion

`Expansion` is one `Expand` call (stage 3) on a store that does not change.
Per seed, one graph walk per direction (`WalkAnswers`, `WalkFails`), then the
seed is failed (`FailSeed`) or its answers are collected (`AggregateSeed`), and
at the end sorted and capped (`Rank`). `answers` keeps every walk's answer, and
the properties compare the aggregate with it. `GraphClient` has what stage 3
and the graph tools share: how a citation or a name becomes a node, and
`Neighbors` with its traversal plan and the bridge from interface methods to
their implementations. The walk itself, `NeighborhoodByQname`, belongs to the
graph store and is modelled from its use: all stored edges within the hops, in
the walk's direction. The order of a walk's edges and of targets that tie is
free, so is what `MaxTotal` cuts off. Relation counts and provenance texts are
left out; provenance is a set of seeds and relations.

### GraphTools, Lists, GraphProofs, MCGraphTools

One call of one graph tool, from its arguments to its answer: symbol search
with its overfetch and test filter, callers and callees, the subgraph with its
caps, impact analysis with its groups, the change context. The store is a set of
edges and does not change in a call; each read may fail. A name leads to all
symbols it matches, from the most qualified part to the least; a symbol's
qualified name (`Qname`) is one several symbols may share. Among those, `uniqueResolved` binds
one, the store walks from one or from all, and the seed of a subgraph is one: any
of them, since the store's order decides. `MCGraphTools` has names that are unique,
ambiguous, qualified beyond need, canonical, unknown, and shared by two symbols.

### ModelGate, ServerProofs

The flag `modelDown`, the probe cache and its mutex, used by three kinds of
callers: `get_for_task` (gate, then the rounds of stage 1), `semantic_search`
and `ops.health`. An embed call and the store of its outcome are two steps,
because other calls run between them. The environment turns the model up, down
or flaky, and the graph store up or down. `age` stands for the time since
`lastProbe`: never, within `modelProbeTTL`, or beyond it. A request the client
cancels fails its embed although the model is up; that is the flaky model.

### Server, ServerProofs, MCServer

One `cks-mcp` process from its configuration file to its exit. Startup is one
action per step of `run`, each with the way it fails; a failure goes to the
closers deferred so far (`Unwind`). Clients of the graph and the vectors are
`none` before they are built, then `dummy` (no path configured), `degraded` (no
embedder, or the index would not open) or `real`, and each tool's answers depend
on them. The listener is a goroutine of its own; a request runs from its accept to its
answer, with the client filter in front. The embedder's adapter is among what is
open once it has been opened, and no closer is deferred for it. `Shutdown` waits for running requests
until `GraceRunsOut`. `MCServer` has 15 configurations, one for each way
startup may branch, and a local and a remote client.

### Dataset, DatasetProofs, MCDataset

The pipeline with its lock, one step per command that changes the file system:
`MakeStaging`, `TouchSentinel`, `BuildGraph`, `PlaceVersion`, `BuildVectors`,
`PassGate`, `Promote`. Any of them may fail (`BuildFails`, by `set -e` or
`die`), and `SIGKILL` comes at any step (`Kill`). A directory of the family has a
version name (a commit), the name of a staging directory (a process id, which a
later run may have again, and `mkdir -p` keeps what is in it), or is a stray that
no run made. The operator promotes by hand whatever has no sentinel, removes the
lock of a killed run and cleans up residue.

An instance looks up its two dataset paths one after the other. Where
`EvalSymlinks` fails the path goes on leading through the pointer
(`Resolutions`, `Target`). It opens the graph and then the vectors, may be
without the latter, and reports an alignment with three outcomes: the commits
are equal, they differ, or one of them is missing, which reads as OK too. For
the report the manifest of the vectors is read again, and either read may fail.
The configured paths are taken to go through `<family>@current`, as the restart
step of the pipeline generates them (`reindex-dataset.sh:225-230`). `ops.index` on an instance that is up writes to where its
paths lead, and recreates a staging directory that was moved away; each of its
two builds is one step.

A commit stands for the graph and vectors built from it: builds are
deterministic (ADR-0002), and the checkout does not move during a run (the
script reads COMMIT first and warns when the tree is dirty, but does not pin
it). `refreshed` is auxiliary: it records which directories an `ops.index` call
has touched, so that properties can be stated with and without it.

### Instances, InstancesProofs, MCInstances

The commands of `cks-mcpd.sh` that change something, one after the other
(nothing enforces that; see section 4), on named instances, with the servers
they start: a server loads, binds its port or finds it taken, and dies at any
time; other programs take ports and process ids, the ids of dead servers
included; the operator interrupts a command while it waits; the machine may go
down at any step. Starting the process and writing its pid file are two steps.
`--all` and `--stale` are the command for each name. Of the options of `start`
the port is kept; the bind address is left out, as if all servers bind one.

### AuditLog, AuditChain, AuditLogProofs

`AuditLog` has the file as a sequence of lines, each the sequence of records
written onto it (more than one when an unfinished write was continued), several
goroutines in `Record` and `Close`, and crashes. Three outcomes of an
interrupted write matter: nothing, part of the line (`torn`), the whole record
without its newline (`unterminated`). `Verify` is the operator `VerifiedChain`.
`AuditChain` is what a log promises: a chain that grows at its end and holds
what was acknowledged; `AuditLog` implements it with `VerifiedChain` as chain.
Assumptions: SHA-256 is injective, so a record's number stands for its hash;
what `Verify` encodes again to hash it (`auditlog.go:196-205`) is what `Record`
encoded, which makes the round trip through JSON the identity; and one `Logger` at a time is open on a file (the code does not enforce it).

### Knowledge, KnowledgeProofs, MCKnowledge

The entries of one project, the source their anchors point into, and six
commands that load the ones, read the other and write files one after the
other, each write of which may fail and leave a truncated file. Authors and
source move between runs; an anchor's kind, file, symbol and the definition its
author meant are constants of its slot, an entry keeps a line for each. `Plain`
are the anchors the line-wise rewriter of `cks-anchor-refresh` can read (file,
symbol and line as bare scalars, one to a line); the others it passes over in
silence (`main.go:235-255`) and counts them as updated. A file
goes with its last definition. Outputs (`inventory.md`, the glossary, the
policy views, the exported corpus) are the entries, and where it shows the
status, that they were made from.

## 3. Runs

| Run | Shows | Bounds, and why they are enough |
|---|---|---|
| `pack` | pack validity, no forbidden text, every absence explained, budget and both reserves | 4 keys, a cap of 3 with reserves 2 and 1: every order of seeds, knowledge and neighbors around the quotas; budget 6 against bodies of 2 and 5 and snippets of 1 forces every fit; 1 edge-only slot: a target that is admitted becomes the source or target of a later edge |
| `retrieval` | failed rounds lose nothing, the fusion is fair | 2 rounds, 2 keywords of 5 citations, 2 failing calls: a round fails after and before one that succeeds, ties, and lists longer than the cap of 3 |
| `expand` | walks are accounted for, the best evidence is kept | 4 nodes and a chunk, up to 3 edges: a target with two finders, two directions and two hops; 3 seeds of which 2 are expanded; 2 edges per walk and one final neighbor, so that both caps cut |
| `graph_tools` | subgraphs are closed, names are not guessed beyond symbols that share one, impact cuts the least related | 4 symbols, two of which share a qualified name, up to 2 edges, caps of 2, every tool with every filter and ranking of the answers |
| `model_gate` | probes are shared, outages refuse, recoveries serve | one caller of each kind; more of a kind add no new pair of conflicting steps, and liveness is checked per caller |
| `server_lifecycle` | grace before closing, nothing but the embedder's adapter stays open, no fake is served, a signal ends the server | 15 configurations, 2 clients: one call in flight while another arrives |
| `dataset_lifecycle` | one build at a time, the pointer and version names, what is served is sound, only `ops.index` rewrites | 2 commits, 2 runs, 1 instance, no stray directories: a run, a rollback and an index refresh can all be under way at once, and a staging directory without a sentinel can be promoted. `OneRefreshed`: one directory is refreshed, after which no instance starts; `Beside`: beside an instance there are 2 directories and one run that works or has left something. Without an instance both runs are free. Instances share nothing but directories they do not lock, so a second one adds no pair of steps; the theorems cover it, and strays, without these bounds |
| `instances` | own port and pid file, commands deliver | 2 names, 3 ports, 3 process ids (symmetric), 1 port of another program: an instance moves to the last free port while the other keeps its claim, and an id comes back under either name or as a stranger |
| `audit_chain` | acknowledged records verify, refinement of `AuditChain` | 3 recorders, 4 records, 3 openings: two crashes with work between; failed writes leave nothing, crashes nothing, a torn record or a whole one |
| `knowledge` | fresh outputs, commands keep entries, a refresh converges | 3 entries (one needing verification, two drafts, one of which has no anchors), 4 anchors of both kinds, 2 edits that move code by 1 or 3 lines against a permitted shift of 2, 2 commands |
| `audit_torn_write`, `retry_after_outage` | each is a counterexample to a sentence of the documentation; see section 4 | small instances of the same modules |

Deadlock is checked where the system runs for ever (`model_gate`,
`dataset_lifecycle`, `instances`). The others say `CHECK_DEADLOCK FALSE`: one
call or one process ends, or the bound on records, edits and commands is
reached.

**Fairness.** `ModelGate`: a call that has begun goes on (goroutines are
scheduled), clients keep calling, time passes, and a goroutine waiting for
`probeMu` gets it eventually, because `sync.Mutex` hands the lock to a waiter
it has starved. Nothing is assumed of the model or the graph store. `Server`:
the main goroutine runs whenever it can and the timer of `Shutdown` fires.
Nothing is assumed of tool calls, which may hang for ever, nor of the loop over
standard input. No other run needs fairness.

Every property has a *fault*: an operator next to a definition that gets it
wrong in a plausible way (a dropped guard, an off-by-one, a missing reset).
Substituting it must make the run fail; `PROJECT.json` lists the pairs. The
faults are used by nothing else.

## 4. Findings

Two runs are counterexamples to what the code says of itself (quotes in
`PROJECT.json`):

1. `audit_torn_write`: a failed write that left bytes in the file makes all
   later records unverifiable, although they are acknowledged.
2. `retry_after_outage`: after an outage `get_for_task` stays refused until
   somebody calls `semantic_search`: `modelDown` short-circuits the probe that
   would clear it.

What else was met while modelling, and stays a remark (the models follow the
code):

* **Audit log.** Two concurrent `Close` calls pass the test of `closer` and the
  second calls nil (`NoPanic` in `AuditLog`, with two `Closers`), against "Safe
  to call multiple times". A record that was written whole but for its newline
  shares its line with the next one, and neither decodes.
* **Indexes.** A partial failure of `ops.index` leaves indexes of two commits
  behind an alignment report that still says OK, in a directory meant to be
  immutable. The pointer may come to lead to a directory that never saw a gate,
  against "atomically point <family>@current at a gated version dir"
  (`reindex-dataset.sh:145`): `promote` takes any directory of the family without
  a sentinel, the one a run killed between its `mkdir` and its `touch` leaves
  (`:184-185`) included; `CurrentIsGated` holds of version names only. A path
  that does not resolve at startup stays as configured and follows the pointer
  afterwards, against "we never re-resolve" (`main.go:99-102`). A
  coordinate that is missing, because a read failed or a manifest did not parse,
  is no misalignment: the report says OK (`alignment.go:100-139`,
  `main.go:518-536`).
* **Packs.** A citation whose body is dropped is removed from the pack, where
  `pack.go:34-36` has it kept. An edge labelled `called_by` has the caller as its
  source, against the contract; stage 3 takes the seed for its target and skips
  it. `NeighborReserve` does not hold back all its slots when a knowledge
  reserve is set too, because both take the same last slots (`ReservesHonoured`
  is what holds).
* **Retrieval.** Knowledge hits have no reserve before stage 4, so
  `MaxCitations` can cut them in stage 2; the order of chunks that tie on file
  and line is the order of a Go map; an agreement of both backends does not
  always outrank a hit in one list, as the comment has it.
* **Graph tools.** Names are never guessed only up to qualified names: ckg's are
  those of package leaf and symbol and collide (`docs/symbol-identity-design.md:18-27`),
  and `uniqueResolved` (`real.go:574-649`) takes the symbols of one name for one
  and binds the first of them, against "WITHOUT ever silently guessing"
  (`:568-573`) and the design's rule that several matches are an error
  (`:80-83`). Even a canonical id, which is unique, is bound by way of its name,
  except in the change context. `NeverGuesses` says what remains, and
  with unique names it says what is promised. `find_callers` binds the first of several symbols, where its
  description binds only an unambiguous one; `exclude_tests` runs after the cap
  and keeps test callers; the subgraph's "0 = no cap" still caps edges;
  `path_glob` is not enforced.
* **Server.** The dummy graph's schema is no version, so a server without a
  graph path never aligns and never serves `get_for_task`; the direct tools of a
  server in "health-only" mode are not gated; the embedder's adapter can be
  closed (`embedder.go:54-64`), but the closer `run` defers holds the two clients
  only (`main.go:255-260`, `295-302`, `337`), so that it stays open on failure
  and shutdown alike, unless ckv's engine, which is not part of this repository,
  closes it with itself; an embedder that fails while the
  intent anchors are embedded ends the process instead of degrading it.
* **Knowledge.** An anchor can move to another definition of the same name in
  its file, which `cks-anchor-refresh/main.go:167-170` rules out (the properties
  say only that it ends at *a* definition of its name, and `RefreshKeepsMeaning`
  asks for an unambiguous one); an anchor the rewriter cannot read keeps its line
  and is counted as updated (`RefreshConverges` is about the others); entries that need verification are exported
  with the verified ones, against `STATUS_LIFECYCLE.md`; promotion starts from
  any status; nothing takes a verified entry back when its files change; a
  truncating write can lose an entry file, after which loads fail and
  `cks-glossary-gen` leaves the entry out silently.
* **Instance manager.** `restart` passes no options on and never finds the
  instance's own port free, so the instance moves, another may be given the port
  it had, and the URL registered with Claude Code leads to that other server.
  A pid file that outlived a reboot makes `stop` kill whatever has the id.
  Two commands at once can choose one port; `remove --all` beside a `start`
  leaves an orphan. A port another program takes while the server loads passes
  for the server's own.

## 5. Proofs

Eight modules of proofs, seven of components and one of lists. Each has the same
layout: an inductive invariant as a conjunction of named parts, a lemma per
action (or per group of actions that disturb the same parts), the invariant as a
theorem, and the properties that follow from it. The theorems hold for every
value of the constants that satisfies the named assumptions, which TLC evaluates
in the run of the module. Every invariant and action property of every passing
run is stated by a theorem.

| Module | Assumes | Inductive invariant | Proved of the run's properties |
|---|---|---|---|
| `ComposerProofs`, stages 1 and 2 | `RetrievalConfig`, `ExactScores`, `RetrievalInputs`, `IndexTypes`, `Suggestions` | `StagesInv` | `StagesTypeOK`, `RoundsLoseNothing`, `FusionIsFair` |
| `ComposerProofs`, stage 4 | `AllocatorConfig`, `AllocatorInputs` | `ReserveInv`, `JudgedInv` | `WithinBudget`, `ReservesHonoured` |
| `ComposerProofs`, pipeline | also `ComposerConfig`, `ComposerInputs` | `PipelineInv` | `TypeOK`, `PackValid`, `NoForbiddenText`, `AbsenceIsExplained`, and again the allocator's two |
| `GraphProofs`, tools | `GraphClientInputs`, `GraphToolsInputs` | `ToolsInv` | `ToolsTypeOK`, `SubgraphClosed`, `NeverGuesses`, `ImpactCutsLast` |
| `GraphProofs`, stage 3 | `GraphClientInputs`, `ExpansionConfig`, `ExpansionInputs` | `ExpansionInv` | `TypeOK`, `AnswersAccounted`, `BestIsKept` |
| `ServerProofs`, process | `ServerInputs` | `ServerInv` | `TypeOK`, `GraceBeforeClose`, `NothingStaysOpen`, `FakeNeverServes` |
| `ServerProofs`, model gate | `DistinctCallers` | `GateInv` | `GateTypeOK`, `ProbesAreShared` |
| `DatasetProofs` | `DatasetConfig` | `DatasetInv` | `TypeOK`, `OneBuild`, `CurrentIsGated`, `ServedIsSound`, `OnlyIndexRewrites` |
| `InstancesProofs` | `InstancesConfig` | `InstancesInv` | `TypeOK`, `OwnPortAndPidfile`, `CommandsDeliver` |
| `AuditLogProofs` | `AuditConfig`, `CleanFaults` | `AuditInv` | `TypeOK`, `AckedVerifiable`, `ImplementsChain` (the refinement) |
| `KnowledgeProofs` | `Inventory`, `Lines` | `KnowledgeInv` | `TypeOK`, `FreshOutputs`, `RefreshConverges`, `CommandsKeepEntries` |
| `ListProofs` | | | lemmas only |

Why the properties are not inductive, and what the invariants add:

* **Retrieval.** A recall that fails leaves the keywords of an earlier round, so
  that the cap kept the strongest of them cannot be seen from the last step:
  `KeywordsRanked` says that they are the sort of what was scored last, until the
  cap cuts them. `HitsOnce` makes a hit its citation's first, and ties `hits` to
  the history `answered`; `QueriesCounted` gives one query a round, the
  vocabulary in each. Fairness of the fusion is about sums: of two citations, the
  one every list ranks higher scores more (`BetterScores`, from `WorthLess` for
  one position and `TotalLess` for the sum), and the result, whatever order
  `Rankings` takes for ties, has it first (`RankingsSorted`, `BestFirst`).
* **Selection.** Each reserve takes slots from the other, so none of the reserve
  properties holds by itself. `ReserveInv` has what the other counters were worth
  when a candidate was passed over: the slots in use plus the unfilled part of
  the knowledge reserve fit under the cap, seeds exceed their quota by exempted
  knowledge only, and a candidate was passed over only when its reserve was
  binding. `JudgedInv` adds to "judged once" that what waits has not been judged
  and has one candidate per key, which `MergeSeparates` gets from stages 2 and 3.
* **Pipeline.** `RunsTheAllocator` shows that a Compose call moves the loop only
  as the loop moves alone; with it the allocator's theorems carry over. The rest
  needs that delivered items follow the selection one by one (`ItemsFollow`),
  that each carries the verdict of its body's rules (`VerdictsHold`), and that the
  pack under assembly is closed after every edge, not only at the end
  (`AssembledSoFar`). Absence is explained through `JudgedOnce`: two items with
  one key would make the report ambiguous.
* **Graph tools.** The name a traversal is asked for was chosen several reads
  earlier: `Resolving` keeps, while a name is resolved, that no longer part of it
  has a match (`NoneBefore`), so what binds is what was meant (`MeantIs`), up to
  symbols of one name: no assumption makes qualified names unique. A
  subgraph keeps its seed through cap and filter because every layer of the walk
  holds the nodes it started from, by induction on the depth (`StartWithin`). Impact entries are cut by one counter that runs
  over all categories: by induction, a later category has room only when the
  earlier ones are whole (`HitsGrow`, `EarlierWhole`).
* **Expansion.** `ExpansionInv` adds to the properties that a seed is done or
  has not been touched, that seeds differ, and that answers hold what a walk may
  find. The last needs what the graph client does to a plan: every edge a walk
  follows has a relation of the contract (`PlanTypes`, `RelationTypes`), and a
  neighborhood is part of the store, for any number of hops
  (`NeighborhoodIsStored`). The store is assumed finite.
* **Model gate.** `GateInv` says that whoever probes holds the mutex and found no
  fresh result. Without it a second prober could overwrite a result others have
  acted on.
* **Server.** The stack of deferred closers is a function of how far startup got
  (`DeferredSoFar`) and covers what is open while it unwinds, but for the
  embedder's adapter (`ClosersCover`), which is open exactly when it was opened
  (`TypeOK`);
  requests exist only behind a listener, and by then the backends are settled;
  a request that outlives the serving was cut off, and the exit status says so.
* **Dataset.** Promotion by hand takes no lock, so what protects an unfinished
  version is its sentinel: from `touch` on it is in the staging directory and
  moves with it, whichever of these steps a kill interrupts (`BuildIsHidden`).
  Between `mkdir` and `touch` it is missing, so the pointer may lead to a staging
  directory or a stray, and everything about it is said of version names:
  without a sentinel they have passed the gate (`CompleteIsGated`), and the
  pointer leads to no other (`CurrentIsComplete`). That the alignment report is
  about what was opened, though the manifest is read again, takes that what an
  instance has pinned stays: a complete version (`PathsAreComplete`), or a
  directory no run puts vectors in or removes them from (`OthersArePlain`,
  `OpenIsThere`). The theorem is about the outcome "OK" of a comparison; of a
  report that is OK for want of a coordinate nothing is claimed.
* **Instances.** The properties depend on what a command found out several steps
  ago: that its port was free of other instances, that no server of the name was
  left, which process it is waiting for (`CommandKnows`). All of it has to survive
  servers that die, strangers that take their ids, and reboots in between.
* **Audit log.** `FileInv`: every line holds one sound record, but for a torn last
  one. `LoggerInv`: one Logger is open and knows the file's tail. `WriterInv`:
  what a goroutine is about to write continues the file and is not in it yet.
  The refinement needs all three, because a step of `AuditLog` appends to a file
  and a step of `AuditChain` to what `Verify` accepts. `CleanFaults` rules out
  the faults of finding 1, with which the property is false: writes that fail and
  leave bytes, and a crash that keeps a record without its newline.
* **Knowledge.** A command works from the project it loaded and writes one file
  per step; what it has still to write decides what the outputs mean. `WorkInv`
  has a part per command that takes several steps: the entry a promotion is about
  is valid as simulated (`Promoting`), the first policy view holds what the second
  will (`Emitting`), the corpus and what is left to export are the embeddable
  entries (`Exporting`), and the lines of an entry are the refreshed ones once it
  is written and the loaded ones before (`Refreshing`). Convergence
  is a fact about one pass over all anchors the rewriter can read (`DriftConverges`): each is moved to a
  definition of its symbol, stands on one, or is reported as needing attention.

**Induction over data.** The library's induction theorems take an operator as
parameter, which the installed provers cannot instantiate. `ListProofs` states
induction on a set instead of a predicate (`InductionOn`, `InductionUpTo`, from
the least element of a set of numbers, `Least`), which is first-order, and with
it that a recursion on `0..n` has a solution (`RecursionExists`). From these
follow the lemmas about loops over slices: what `Kept` keeps and in which order,
what `Flat` holds, and that `Total` is monotone in every term.

**Only model-checked.** The liveness properties `OutageRefused` and `RetryServes`
of `ModelGate` and `StopsOnSignal` of `Server`: liveness under fairness and
`ENABLED` are out of this prover's reach. The two counterexamples of section 4
are TLC's, of course.
## 6. Not modelled

* The **agent loop** is an example client, one bounded loop over a language
  model whose answers are free: it keeps nothing and coordinates nothing.
* The **evaluation runner** scores packs offline in floating point, one
  scenario after the other.
* The **observer** that joins footprint and audit log is not wired into
  `cks-mcp`; only the footprint writer's life is (in `Server`).
* `serve-cks-http.sh` repeats what `cks-mcpd.sh` does for one instance; the
  promotion worksheet only reads.
* Parsing of configuration, YAML and the flow corpus, the scores of the intent
  classifier, the resolution of body paths, formatting, timings and traces, the
  integrity stamp and the text of bodies, inside components that are modelled.

## 7. Plan

1. `ops.index` failing half way, and two calls of it at once: a property of
   `Dataset` that says what the served pair of indexes may be afterwards.
2. `Retrieval` and `Expansion` as the funnel of `Composer`, by a theorem: what
   they deliver satisfies `ComposerInputs`, now an assumption that the two
   modules' runs support.
3. The agent loop as a client of `Server`, and the metrics of the evaluation
   runner over integers.

# Valence engine: models, checks and proofs

This directory is a verification development of the Valence knowledge engine (`engine/`, in Rust). It
holds TLA+ modules that model the engine's components, TLC configurations that check them on small
instances, and theorems that TLAPS checks for every value of the constants. `PROJECT.json` lists the
components, the runs, the lines of source every definition stands for, the hazards and the theorems.
Paths below are relative to `src/engine/src` unless they start with `docs/`.

The engine stores *triples* (subject, predicate, object) with a weight that fades unless the triple is
used, and records where each one came from. Stores are shared without any outer lock: `ValenceEngine`
keeps an `Arc<dyn TripleStore>`, and HTTP handlers, MCP tools and lifecycle cycles call it at the same
time. What is atomic is one call on one sled tree, one section under one `RwLock`, or one SQL statement.
Almost every question asked here is about what another caller can do between two such steps.

## 1. Inventory

| Component (source) | State | Operations that change it | Hard behaviour | What makes it correct |
|---|---|---|---|---|
| SledStore (`storage/sled_store.rs`) | record tree, three index trees, source trees, junction tree | insert, update, touch, delete, insert_source, decay, evict | several tree calls per operation, no transaction; copies written back; crash and reopen | indexes and records agree, provenance resolves and goes with its triple, eviction takes only what is weak |
| MemoryStore (`storage/memory.rs`) | five maps, a lock each | the same operations | two locks taken one after the other; reads and write-backs in different calls | nodes of triples exist; provenance is not lost |
| PgStore (`storage/postgres.rs`) | tables with foreign keys | the same operations | an operation is several statements, no transaction; a join may fail half-way | links go with their triple and no acknowledged source is lost |
| TieredStore (`tiered_store/`) | hot store, hot set, metadata | insert, get, update, delete, demotion sweep, evict | four structures updated one after the other, a lock held across an await | what is stored is found; hot set and metadata agree |
| Engine handlers (`api/mod.rs`, `mcp/tools.rs`) | none but the store's | insert, feedback, supersede, revoke, resolve, decay, evict | many awaits between reading a triple and writing it back; early returns | nodes are behind every triple, adjustments serial |
| Read paths (`api/mod.rs`, `mcp/tools.rs`) | none | query, neighbours, details, sources, explanation, trust, exploration, statistics, signatures | each fetched triple is dressed in further calls, while triples come and go | no read fails or misses what was there all the time |
| Social tools (`mcp/tools.rs`) | triples about triples | verify, share, trust, revoke, resolve; list verifications, tensions, shares | a verification is up to three triples written one by one; copies with other weights written back | what is listed was said; what is in tension is found unless revoked |
| Lifecycle (`lifecycle/`) | policy | decay cycle, enforcing memory bounds | counts, a list and deletions are separate reads of the store | deletes the lightest, as many as needed and no more |
| WeightAdjuster (`inference/weight_adjuster.rs`) | a lock, statistics | adjust_triple_weight | read, compute, write back under its own lock, beside callers that do not take it | adjustments serial and clamped |
| FeedbackRecorder, BlendTuner (`inference/`) | history, two indexes; weights, attributions | record, prune; process feedback, restore weights | three locks one after the other; indexes outlive what was pruned | feedback is found and counted once, weights sum to one and none is shut out |
| Federation (`federation/`) | peer records, transport lock, event loop, pending filters | gossip cycle, event loop, merge, trust | messages lost and reordered; one lock shared by a loop that waits and cycles that send | restrictions and retractions hold while their markers are stored, exchange converges, every message is taken up |
| Stigmergy (`stigmergy/`) | window of accesses, pair counts | record_access, clear, reinforce, maintenance | window and counts under different locks; one failing pair ends a cycle | counts match the window, edges in one direction |
| Sessions, patterns, insights (`vkb/`) | maps behind one lock; tables in PostgreSQL | create, end, exchange, reinforce, insight | a handler makes two calls, a reader many | pages are whole, no reinforcement is lost |
| Resilience (`resilience/`) | degradation level, failures per component | report failure or success, force a level | reads that fail half-way; reports from concurrent requests | an unflagged answer is no fallback; the level follows the reports |
| Engine vectors (`engine.rs`, `embeddings/` memory, node2vec, spectral) | one store of vectors behind a lock | recompute, search | a computation reads the graph long before it replaces the vectors | a ranking is of one generation; a failed computation costs nothing |
| HNSW index (`embeddings/hnsw.rs`) | layered graph | insert, update, remove, search | links cut on one side only, removed nodes stay | exact as long as no limit is reached |
| Vector file (`embeddings/mmap_store.rs`) | mapped file, index | store, flush, open | a crash between the parts of a store, a scan on opening | what was stored to the end is there afterwards |
| Strategy selector, spring embeddings (`embeddings/`) | rate window, pending flags, vectors | record inserts, queue and complete a batch | atomics and locks read one after the other | one batch of a kind at a time, no flag left up |
| Working set, context (`context/`) | scores, threads | add, turn, prune, assemble | recency is refreshed and then tested | the weakest go, a context names what it lists |
| Graph, confidence, fusion (`graph/`, `query/`) | per request only | none on shared state | depth limits, parallel edges, exact ties | the algorithms agree with their definitions |
| Budgets (`budget/`) | per request only | none on shared state | escalation from tier to tier | see section 7 |
| Servers, configuration, identity, CLI, migration tool, plugin | wiring | start, stop, flush | shutdown of two servers at once | flush before exit |

Interactions: handlers and cycles call the store; queries and positive feedback call the access tracker;
reinforcement reads the tracker and writes edges into the store; federation merges received triples into
the same store call by call; the lifecycle removes triples under everyone else's feet; recomputing reads
the store and replaces the vectors that searches, tiered retrieval, combined queries and the assembler
rank with.

## 2. Plan

The modules in the order in which they were written. All steps are done.

1. **SledStore**, then **SledRecovery** (extends it with crashes) and **SledProofs**.
2. **MemoryStore**, composed with the handlers, the lifecycle and the weight adjuster in
   **KnowledgeEngine**; **KnowledgeEngineProofs**.
3. **Federation**; **FederationProofs**.
4. **Stigmergy**; **StigmergyProofs**.
5. **TripleStore**, the store `storage/traits.rs` promises, in which every operation is one step, and
   **SledImplements**, the refinement mapping under which SledStore implements it;
   **SledProofs** has the refinement and the proofs about crashes too.
6. **TieredStore**, without a cold tier, the only configuration that builds; **TieredStoreProofs**.
7. **Vkb**, sessions and patterns with their HTTP and MCP handlers; **VkbProofs**.
8. **Serving**: degradation, the engine's vectors, and the nine requests that rank or fall back;
   **ServingProofs**.
9. **VectorFile**, **Springs**, **PgStore**, **PgSessions**, **Reads**, **SocialTools**,
   **FeedbackRecorder**, **BlendTuner**, **WorkingSet**, composed in **Library**; **LibraryProofs**.
10. **Hnsw**, **GraphAlgorithms**: algorithms first, recursive, and only model-checked, beside the parts
    of Library in **MCLibrary**.

An MC module instantiates each for TLC. The components of steps 9 and 10 share no state with each other: a
behaviour of `Library`, or of `MCLibrary`, follows one of them (`part`).
Runs are kept few: one for each distinct question.

Left for a continuation: a cold tier as soon as one builds, and node trees in SledStore.

## 3. The modules

### SledStore, SledRecovery
A sled tree of triples is a function from ids to weights or `Absent`; an index tree is the set of ids it
holds, for the content-addressed id of a triple fixes its index keys (`models/triple.rs`). Weights are in
units where `Full` is 1.0. One action is ONE call on ONE tree. `job[c]` says which call caller `c` makes
next and what it carries: the copy it will write back, the index tree it is at, the keys an iteration
still has to visit (in any order; one that is inserted meanwhile may be missed), the batch decay has
prepared. `InsertIndex`, `RemoveIndex`, `WriteUpdated`, `EraseTriple`, `CollectSources` and
`UnlinkSource` are the calls `insert_indices`, `remove_indices`, `update_triple`, `delete_triple` and
`evict_below_weight` are made of; eviction shares the deletion's.

SledRecovery adds the disk: `Flush` makes the calls so far durable, `CrashAndReopen` returns to the last
of those states and kills the callers. Flushing may happen at any time, so any suffix of the calls can be
lost, as with sled's background flush. `torn` is a history variable: the triples an operation was at work
on when the durable prefix was cut.

Not in these modules: node trees (written before the triples that need them, see KnowledgeEngine), the
breadth-first search over the queries, sled itself.

### TripleStore, SledImplements
TripleStore is the contract of `storage/traits.rs`: facts with the weight a query shows, and the sources
each came from; an operation happens in one step between its call and its return. `Decay` scales down to
the floor `min_weight` and leaves what is below it alone, as `docs/api-design.md:285` says and the
PostgreSQL store does. SledStore ignores the floor: `sled_alone` therefore decays without one, and
`sled_floor` shows what happens with one. SledImplements states that SledStore, although each operation is up to eight calls on five trees, implements it for one caller
at a time. The mapping takes an insertion or update as done when the record is written, a removal when it
has found its victims, and what is left to do as done; a record nobody is at work on counts as stored only
if every index finds it. `done` tells the abstract store whether an operation that is still at work has
happened already, so that none can happen twice or after its return.

### MemoryStore, KnowledgeEngine
MemoryStore has one operator per lock section. `delete_triple` and `insert_source` take two locks one
after the other and are two operators each. `insert_triple` and `update_triple` do the same thing in this
store and share `PutTriple`.

KnowledgeEngine models the callers. A handler is a *plan*, the sequence of store calls it makes; `Accept`
takes a request on, `Serve` makes the first call left. A call that decides what follows rewrites the
plan: `CallGet` gives up when the triple is not there (and drops the adjuster's lock), `CallDecide` ends
the cycle or goes on to a list, `CallSelect` replaces the plan by the deletions. Copies of triples that a
handler read stay in `job[c].copy` until it writes them back. The plans are: insert with or without a
source, touch, feedback under the adjuster's lock, supersede, revoke, resolve, decay, evict, and the
lifecycle cycle. An enforcement takes its own two counts with it (`n`, what is still to go, and `was`, how
many triples there were). `claims` is history: the links acknowledged to a triple that is stored, except
those made between the two locks of a deletion of that triple (`Leaving`). Weights are small integers: the feedback strategies are one step up or down and clamped,
decay and archiving halve (any factor of at most one half behaves alike in the properties). The linking
triples that supersede, revoke and resolve insert are represented by one.

Bounds: `MaxBatch` triples in one insert, `MaxWeight` the ceiling of feedback (10.0 in the code).

### TieredStore
A MemoryStore, the set of hot triples and the metadata of each. The metadata stays locked while the hot
set's lock is awaited; `metaLock` is that lock. Nothing is ever found cold, because a demotion without a
cold tier deletes. What an eviction takes is arbitrary. `overtaken` is a history variable: the triples
that were stored again between the steps of their own removal, the one case in which a stored triple is
not found.

### Federation
Each engine has its store (ids only), its peer records, its gossip cycle, its event loop and the lock of
the transport. The loop takes the lock and *keeps it while it waits* for an event (`manager.rs:106`);
a cycle needs the same lock to send. Requests and answers are the three pairs of `protocol.rs` (filter,
headers, triples); the network is a set, so messages are reordered, and any may be lost. Merging is call
by call (`Screen`, `Corroborate`, `InsertReceived`, `EndMerge`) beside requests to the engine itself
(`LocalInsert`, `LocalEvict`). A retraction or a restriction is not a state of its own but a *marker*, a
triple like any other that is inserted, gossiped, received with weight 0.0 and evicted: `Retracts[m]` and
`Restricts[m]` say what a marker is about, `Exempt` are the RETRACTED_BY and RETRACTED_AT triples that
`should_gossip` shares whatever restricts them, and `Retracted(p)`, `Restricted(p)` and `Gossipable(p)`
ask the store each time, as the code does. `Inserted` and `Evicted` say per engine which triples come from
outside and which may go. The filter an answer carries is rebuilt with another size and other keys than it
was made with, so what it seems to lack is arbitrary (`Missing`); one made from no triples has size zero,
and the first check against it panics, which ends the loop (`Dead`). The swarm of libp2p is external: `Receive` is the point where it surfaces an event.

Bound: `MaxNet`, the messages under way when a cycle may start.

### Stigmergy
`record_access` is two actions, `Push` under the lock of the window and `Count` under that of the counts,
with the events it pushed out of the window carried from one to the other. Reinforcement and maintenance
(`Start`, `Connect`, `Check`, `InsertEdge`, `EndReinforce`, `DropOld`, `EndDecay`) read the counts once
and then look every pair up in the store, where triples come and go.

Bounds: `MaxCount` and `MaxNow`, on how far a pair is counted and how often the decay time passes.

### Vkb
The in-memory session store with the HTTP and MCP handlers on it. Every call holds the store's one lock
and is a step; `pattern_reinforce` makes two calls (reinforce, then look the pattern up among the first
1000), and a client that pages through a session as many as there are pages (`reader`). Requests may name
ids that are not there. `first` and `reinforced` are history: what a pattern was when it was recorded or
last decayed, and how often it was reinforced since. Bounds: `MaxInsights`, `MaxReinforced`.

### Serving
The requests that rank or fall back: recomputing vectors (spectral, node2vec), HTTP and MCP search,
tiered retrieval, resilient search, neighbours, context assembly and combined queries. Each is the
sequence of its calls (`job[c].at`): recomputing reads the graph (`Begin`, `View`) long before it replaces
the vectors under their write lock (`Install`); a search looks a node up, then takes the read lock, and
then resolves what it found in further calls, some while it keeps the lock (`Guarded`), some after. A
call of the triple store may fail (`Outages`): resilient retrieval goes one level down (`Lower`,
`GiveUp`), the others report an error. `Report` is the resilience manager, `SetLevel` the endpoint that
sets the level by hand; `log` is their history. A vector is its node and dimension; the eigenvectors and
the training behind it are left out, which nodes get one and when is not. Bound: `MaxReports`.

### Library, MCLibrary
Compositions without interaction. *Library* has nine parts, constants and variables of its own, and is
what LibraryProofs is about; *MCLibrary* adds the two whose definitions are recursive, and gives those
their values where it instantiates them.

### Hnsw, VectorFile, Springs
*Hnsw* is the index translated with its heaps, levels and one-sided pruning, over positions on an arc in
place of vectors. *VectorFile* writes a store part by part (id, numbers, stamp, flush); a kill keeps what
was written, a power failure loses any part of what was not flushed, and opening scans the ids. *Springs*
counts insertions in a window of time, nudges the two nodes' vectors, and decides on batches: the
counter, the flags and the times are atomics and locks of their own, and a decision reads them one after
the other (`CheckRate`, `CheckPending`, `CheckCooldown`, `SetPending`), and a batch goes on until it is
reported complete. `raced` is history: two decisions found the flag of a kind down before either raised
it. The selector is an interface for the library's users: only tests call its `should_run_*` and
`mark_*_complete` at this commit. Bounds are named in the modules.

### FeedbackRecorder, BlendTuner
*FeedbackRecorder*: history, context index and triple index under a lock each; `Store` prunes a share of
the history, and the indexes keep the ids. A triple that a feedback lists twice is indexed twice, and
statistics count places in an index or in a feedback. *BlendTuner*: weights as exact fractions in lowest
terms; processing feedback reads the attributions, changes the weights and removes the attributions in
three sections. `Blend` is the weighted mean of `query/fusion.rs`.

### PgStore, PgSessions
A SQL statement is a step, no operation opens a transaction, and the schema's keys hold. Joining a source
to its triples is a statement for each; one that names a missing triple fails the rest. Reinforcing a
pattern reads it and writes it back. Neither store is behind the handlers at this commit.

### GraphAlgorithms
`edges` grows one triple at a time, up to every graph of `MaxEdges` triples, parallel edges and loops
included. Shortest paths, distinct paths, betweenness, PageRank and confidence are the code's, with its
queues and stacks; `GraphRight` compares them with definitions that have none. Fusion ranks every batch
taken from such a graph, with each of the presets' weights.

### Reads, SocialTools
*Reads*: a read handler is its calls (get, subject, object, fetch, dress) while triples are inserted,
superseded and removed; `stable` is history, what was stored all the time a request was at work.
*SocialTools*: a trust edge, a share, a verdict and its reasoning are triples about triples; verifying
inserts up to three, one by one, and a list is read triple by triple. Revoking adds two marks and writes
the triple back without its weight; resolving reads two triples, writes one, both or none back with a
tenth of their weight, and adds three marks. Of a weight the tools only ask whether it is zero (`zero`); a
copy written back is zero if it was when read (`light`). `said`, `sure`, `revoked` and `resolved` are
history: what was asked to be recorded, revoked or resolved, and what was acknowledged.

### WorkingSet
Scores of nodes, triples and threads from turn to turn, with tables in place of the exponential and the
logarithm, and the assembler's choice of what a context lists and names, for every number of triples and
nodes it may be asked for (`MostTriples`, `MostNodes`).

## 4. The runs

| Run | Question | Bounds | What it shows |
|---|---|---|---|
| `sled_alone` | one caller, all seven operations | 2 triples, 2 sources, weights 0..1 | indexes agree whenever nothing is under way, junction entries resolve, and without a floor for decay every operation is one step of TripleStore: removals take provenance along, eviction takes only the weak |
| `sled_floor` | the same, with a floor for decay | the same, floor 1 | **violation** of `ImplementsTripleStore`: decay goes below the floor |
| `sled_crash` | two writers and up to two crashes | 1 triple, 2 crashes | damage is confined to what was being worked on (`RecoverySound`) |
| `engine_alone` | one request at a time, all nine kinds | 2 facts, a link, 3 nodes, weights 0..4, target 1 | an enforcement deletes the lightest, down to exactly the target if there are too many triples, one for every two nodes too many if only the nodes are, and nothing otherwise |
| `engine_writers` | two requests at once, lifecycle cycles included | 1 fact, a link, 2 sources, weights 0..2 | nodes, provenance beside deletions that take two locks, exclusion of feedback |
| `fed_exchange` | two engines, a lossy network, insertion and eviction of triples and of what marks them | a fact, a retraction and a restriction of it | nodes, retraction and restriction while they are stored, every message is taken up |
| `fed_converge` | do engines that keep syncing converge? | 2 triples, one at each engine, no losses | **violation** of `SyncConverges` |
| `stigmergy` | two recorders and a maintainer | 3 triples, window of 2 | counts cover the window and are exact unless raced, edges go one way |
| `tiered` | two callers, all operations, sweeps | 2 triples | what is stored is found, tiers agree |
| `sessions` | a reader beside two callers | 2 sessions, 2 exchanges, 2 patterns | pages are whole (`TalkSound`), reinforcements since the last decay count |
| `serving` | two requests of nine kinds, failures, reports | 2 nodes, 2 links, 5 reports | an unflagged answer is whole (`AnswersSound`), one generation per ranking, nothing lost by recomputing, the level follows the reports |
| `library` | the nine components of Library, the index and the algorithms | file: 2 slots and a crash; springs: 2 workers, 2 counted; reads: 3 triples, 2 writes; social: 2 callers, 2 requests that write; feedback: 3, a history of 2; blend: 2 workers, 2 updates; working set: 3 items, 2 thresholds; index: 3 nodes, 2 changes; graphs of 4 edges | the file keeps what was stored to the end, no flag is left up and batches stay apart, provenance and statuses are kept, no read fails or misses what stays, lists tell what was said, feedback is found and learning stays in bounds, contexts cover what they list, the weakest go, search is exact within the limits, algorithms agree with their definitions |

Why the bounds are enough. The interference looked for needs two callers and one triple; a second triple
matters where one record is collected while another changes (sweeps, eviction order, batches), and a
third where two of them share a node. The index trees of different triples do not interact, so one triple
suffices with crashes. Two crashes give a restart from damage. Federation's hazards are about one triple,
what marks it, and the position of two engines' loops; a second fact only multiplies positions. In
`fed_converge` each engine has a triple of its own from the start of its cycles, so that no filter is made
from none. A window of two events
has one that stays while another leaves. In `serving` the graph has no node, one or two, which are the
sizes at which a computation yields nothing, something short, and a vector each; five reports take a
component down, up again, and one short of up. In `library` the third node of the index is the first whose links
are cut, and graphs of four edges over three nodes hold every cycle, parallel pair and loop that a search
limit or a count of paths tells apart; the file grows once; two insertions counted in a
window are one that makes a batch due and one that makes the burst during which none is; depths are one hop, two, and one
above the limit; two callers may verify the same triple, differently, or remove what the other wrote. A
history of two is pruned by the third feedback, beside recordings still under way. Of the two
thresholds of a turn the lower lets only what is weak and faded go; the higher lets a resolved thread go
that has faded, and lies between what a weak fresh node was added with and what the turn recomputes. The constraints `Apart` of
MCServing and MCVkb leave out combinations whose parts share no state, and say which.

Symmetry is used only where no liveness property is checked. Deadlock is checked in every run but
`sessions` and `library`, whose models are used up when their ids, changes, crashes or requests
are.

### Fairness
*Federation*: the tokio runtime polls every task that can go on (weak fairness of the loop's steps), and
tokio's `RwLock` is handed over in the order of the requests, so that whoever waits for the transport gets
its turn (strong fairness); nothing makes a cycle start. The swarm delivers a message that stays in the network (strong fairness of `Receive`),
while losing it stays possible. `BusySpec` adds that cycles are started again and again and that other
events wake the loop up; it serves only the violation run, which thereby shows that no schedule helps.
The other modules state no fairness: what they promise is safety.

## 5. What is proved

The proofs hold for any numbers of callers, engines, triples, nodes and sources and any weights, under
the assumptions named in the modules (`SledAssumption`, `StoreAssumption`, `EngineAssumption`,
`TieredAssumption`, `StigmergyAssumption`, `ServingAssumption`, `VkbAssumption`: non-empty weights,
`Absent` not a weight, finitely many triples, nodes (in Serving at least one), sessions and patterns,
bounds that are numbers, `None` nothing else; `FederationAssumption`: markers are triples and say what they
are about). `LibraryAssumption` collects those of its components: positive sizes and times, an initial
capacity within the file, ends of triples that are nodes, `None` nothing else, finitely many patterns,
initial confidences that are numbers, and facts of users whose predicates are not those the social tools
keep to themselves (the code does not check that: such a fact would be taken for the tool's own). For
learning it assumes that pruning takes one of at most `MaxHistory + 1` parts (a tenth of 10 000 in the
code), that the weights to start from and to restore are sound, and that the least weight is at most a
quarter (0.05 in the code): the three weights may then be raised to it one by one at the cost of the largest.
For the working set, that recency falls with age and activation rises with the count, which the exponential
and the logarithm do, and that limits on nodes are numbers. That the sums over a feedback (`Signal`, `Weighed`) are numbers is assumed
too, in `BlendTunerAssumption`: what a fold gives takes induction, so TLC evaluates it instead.

* `SledProofs!TypeCorrect`, `SourcesResolve`: for every mix of operations.
* `SledProofs!IndexesAgree`: `SafeMix => []QueriesAgree`. The inductive invariant is
  `SledStore!IInv`: every missing index entry of a stored record is *accounted* for by a caller that will
  write it, or that will rewrite or erase the record (`Accounted`); and, where nothing is ever removed,
  copies held for writing back are of records still stored (`CopiesLive`). `QueriesAgree` alone is not
  inductive: it says nothing of a record whose entries are on their way. `SafeMix` excludes combining
  copies that are written back (touch, decay) with removals (delete, evict); section 6 says why the claim
  is false without it.
* `KnowledgeEngineProofs!Inductive`: `IInv`, which adds to the type invariant and `NodesBehindTriples`
  that every remaining plan is *ordered*: a triple is put only after both its nodes were found or
  created, a copy is written back only after the triple was read (so its nodes exist, for nodes never
  go), and a weight is adjusted by the last call of a plan whose first was the lock. `PlansOrdered` is
  established by the lemmas on sequences (what concatenation and `Tail` keep) and on the plan of each
  request. `TypeCorrect`, `NeighborsResolve` (`NodesBehindTriples`) and `AdjustmentsSerial`
  (`FeedbackSerial`) follow from it.
* `KnowledgeEngineProofs!OriginsStay` (`ProvenanceKept`): for any mix of requests, lifecycle cycles
  included, whose deletions take a triple and its links under two locks one after the other. What makes it
  hold is the order: links are only ever taken by a plan whose deletion of the triple came first, so that
  whoever links to the triple in between is `Leaving`. The claim without that exception is false (section 6).
* `KnowledgeEngineProofs!HeaviestAreKept`, `TargetIsReached` (`EnforceKeepsHeaviest`,
  `EnforceReachesTarget`): for one caller and any mix of requests. `EInv` follows a cycle from its count to
  its last deletion: once the count is made nobody else changes the store, so what is left to delete is
  stored, weighs no more than anything that stays, and is as much as there is too much of what was counted
  (`was`); each deletion takes one from both. `EnforceReachesTarget` bounds what goes from both sides, and
  says of the node bound only how many triples go for it: the bound itself is never met (section 6). With more callers both are false, for the count is old
  when the list is made (section 6).
* `FederationProofs!TypeCorrect`, `ReceivedHaveNodes` (`NodesKnown`), `RetractedStayOut`
  (`RetractionWins`): the inductive invariant is `FInv`. `NodesKnown` is not inductive, for a merge
  creates no nodes: what makes it hold is that every message and every pending merge is *answerable*
  (`Answerable`, `MergesKnown`), that is, speaks of triples whose nodes its asker has. An engine picks
  what it asks for from its own store, an answer is part of the question, and nodes are never removed.
  (This is also why nothing is ever transferred, section 6: correcting that requires the merge to create
  nodes.) `RetractionWins` speaks of what was retracted ever since the response came in: a merge keeps that
  set and the eviction of a marker takes what nothing else retracts off it (`StillRetracted`).
* `FederationProofs!RestrictedStayHome` (`RestrictionHolds`): every message made in a step carries only
  what its sender may gossip in that step (`OnlyAllowed`), which is nothing restricted but the exempt, and a
  message about to be sent is its sender's own (`OwnMessages`), so that sending it tells of nothing that
  was not already leaving. It holds for as long as a restriction is stored, and for its eviction too.
* `SledProofs!Implements`: for one caller (`OneClient`), any mix of operations and decay without a floor,
  SledStore implements TripleStore; `SledProofs!WritersImplement`: with any floor, if decay is not among
  the operations. The invariant is `Alone`: the type invariant, `Accounted`, and that the copies
  a lone caller holds are true of the trees (`Faithful`: nobody else can have changed what it read).
  `Views` states the refinement mapping as a function of the trees and the lone caller's job; each call
  on a tree is then one step of the abstract store, or none. With more callers the claim is false:
  section 6 lists the interleavings that bring a removed triple back.
* `SledProofs!CrashesConfined` (`RecoverySound`): under `SafeMix`, for any number of callers and
  any number of crashes, each of which may lose any suffix of the calls. `RInv` says that a triple is
  *torn* or accounted for as in `IInv`, and that the image on disk is whole outside what was torn when it
  was written; a crash exchanges the trees for that image, so the second part becomes the first.
* `TieredStoreProofs!TypeCorrect`, `TiersAgree` (`TierAgrees`), `StoredAreFound` (`StoredFound`): the
  invariant `TInv` says that the hot set and the metadata differ in at most the one triple of the caller
  that holds the metadata, in the direction of the change it is making (`Between`), and that a triple
  stored again in the middle of its own removal is marked (`Marked`); without the mark `StoredFound`
  would be false, which is the point of the property.
* `StigmergyProofs!TypeCorrect`, `CountsKeepUp` (`CountsCover`), `CountsRight` (`CountsExact`): whoever
  pushed an event owes its count until the second lock (`Covered`). As long as no event has left the
  window uncounted, the uncounted events are exactly those of recorders between their two locks (`Owed`)
  and each count equals the counted events that hold the pair (`CountedRight`), hence `Exact`.
* `StigmergyProofs!EdgesOneWay` (`OneDirection`): with at most one cycle. The edge it is about to write
  was looked for in both directions, and nobody else writes edges (`Fresh`); two cycles at once can
  connect a pair in both directions.
* `ServingProofs!TypeCorrect`, `AnswersStaySound` (`AnswersSound`), `RankingsAreOne` (`OneRanking`),
  `DegradedUntilThreeHolds` (`DegradedUntilThree`), `NothingIsTakenBack` (`NothingTakenBack`): for any
  requests at the same time. The invariant `SInv` says of a request by where it is what kind it is
  (`Placed`), which vectors it has looked at (`Ranked`), what it may still answer (`Honest`) and what a
  recomputation will find vectors for (`Replaces`). Only the store's changes and the installation of
  vectors touch a request from outside: they are the two lemmas about all requests, every other step is
  about one. For the resilience manager, a failing component's counter is the number of successes
  logged since its last failure, and one that does not fail has three after each (`Tracks`).
* `VkbProofs!TalkIsSound` (`TalkSound`), `ReinforcementsAllCount` (`ReinforcementsCount`): sessions and
  patterns share nothing, so each part of `VInv` is framed by the other's steps. Exchanges are only
  appended, and a page starts where the last one ended (`PageOn`); a session's record is never dropped, so
  that creating one finds no exchanges to lose. A pattern's record is a function of what it was when it was
  recorded or last decayed and how often it was reinforced since (`Reckoned`), and between two decays it
  only rises once it has been reinforced, so that whoever has not been told yet (`Owing`) will be told
  enough. Of decay and of the library's own `reinforce_pattern` nothing more is claimed: section 6.

* `LibraryProofs`: a behaviour of Library is one of each component (`PartsRun`), so that the theorems
  below are about the components, and `LibraryTyped` (`TypeOK`), `TablesSound` (`PgSound`) and
  `RequestsTold` (`ReadsAnswered`) put them together.
  * `SpringsInductive`, `BatchesStayApart` (`BatchesApart`), for any number of workers: a flag is up only
    while someone is between raising and lowering it; and until two decisions about one kind were both past
    their check of the flag, whoever is past it is alone with the kind, so that nobody lowers the flag under
    another's batch. Without `raced` the second part is false (section 6).
  * `FileInductive`, `CrashesKeepVectors` (`FileKeeps`), for any number of slots, strategies and crashes:
    memory and disk differ only in the fields that the store under way has written (`FileWhole`), so a
    crash can spoil only its own slot, and every other slot reads as what was last stored to the end for
    the node it names (`Faithful`). That needs the index to be the file's (`IndexFits`): two slots of one
    node, or a count that is off, and a store would go to the wrong slot.
  * `PgStoreInductive`, `ProvenanceFits`, for any number of callers: a link made to an insertion of a triple
    is there for as long as that insertion is the last one and its triple stays (`Kept`), both for
    sources reported and for those an operation is still joining. `StatusFits`: a reinforcement may write
    an old copy back, but every copy has the status its confidence calls for (`CopyFits`).
  * `ReadsInductive`, `ReadsTell`, for any graph, and any number of clients and writes: what a handler has
    yet to call says what it already found (`FoundFits`), and the ends of what it found are nodes, because a
    plan of writes names the nodes first (`Ordered`) and nodes stay.
  * `SocialInductive`, `SocialTold`, for any number of callers, verifiers and verdicts: every stored triple
    is a fact or one of the tools' own, told apart by its predicate (`Storable`, `StoredKind`); what a list
    has read was said (`EntriesTold`), and what it has to tell is told, being read or left to be read
    (`Awaited`). A tension is between two triples of one kind, which says what it can be between.
    `ZeroRevoked`: only what a revocation named weighs nothing, is written back without a weight, or was
    read as weightless by a handler that will write it back (`ZeroInv`), so that everything else in tension
    is found.
  * `FeedbackLearned` (`LearningSound`), for any number of feedbacks, contexts, triples and workers. For
    the recorder the invariant is `RecordsFit`: what is in the history has been stored (`HistoryFits`), a
    feedback is in the index of its context once from the second lock on (`OnceInContext`), and in that of
    a triple as often as it lists it from the third on (`AsOftenInTriples`), although the indexes outlive
    what is pruned. Statistics then count by a bijection of places in an index and feedbacks. For the
    tuner, every weight raised to the least stays there while the others are raised at the cost of the
    largest (`RaisedTo`, through the three of them), the sum is kept, and lowest terms change neither
    (`WeightsKept`). All weights being positive, a blend lies between two of the scores it is made of.
  * `WeakestLeave` (`WeakestGo`), an action property: what a turn lets go is not at least as sure, as fresh
    and as often used as anything of its kind that it keeps. A recomputed score is monotone in the three, a
    turn recomputes before it tests, and no other step lets anything go.
  * `ContextsCover` (`ContextCovers`), for any graph and any limits on what is asked for: a context with
    room for two nodes per triple names both nodes of every triple it lists and stays within the limit,
    for a list of `n` triples has at most `2n` ends (`NamedFew`); with more room it names the query node too;
    and a triple that is nearer and surer is at least as relevant. With less room neither holds (section 6).

Every invariant and action property of the runs is stated by one of these theorems but for three
properties that are only model-checked. `SearchExact` and `GraphRight` are about the recursive
definitions of Hnsw and GraphAlgorithms: what those compute is induction over data, which is beyond the
prover. `MessagesHandled` is liveness under fairness, which needs `ENABLED`. (`SyncConverges`, and
`ImplementsTripleStore` with a floor, are violated: section 6.)

## 6. Where the code and its documents disagree

Shown by a run, `fed_converge`: after an exchange of filters each engine asks the other for triples it
has itself (`federation/manager.rs:278`); nothing is ever transferred.

Shown by a run, `sled_floor`: decay ignores the policy's `min_weight` (`storage/sled_store.rs:502`, and
`storage/memory.rs:287` alike), which `docs/api-design.md:285` calls the floor and the PostgreSQL store
keeps to.

Seen while modelling. The models do what the code does; no run is spent on these, and where one of the
properties would be false because of it, the property says what it leaves out.

Stores and handlers
* `touch_triple` and decay write back copies read before a deletion (`storage/sled_store.rs:346`): the
  triple returns without index entries, although `docs/mcp-integration.md:42` speaks of atomic operations.
  A crash between record and index entries leaves a triple only the wildcard query finds
  (`storage/sled_store.rs:236`; line 11 promises that data survives restarts); `open` rebuilds nothing.
* Eviction on sled works from an old list (`storage/sled_store.rs:534`; `docs/api-design.md:322`): with
  several callers a triple that was reinforced meanwhile goes too.
* No store ever removes a node, although `lifecycle/bounds.rs:129` says that orphaned nodes are removed by
  the store, and `:157` counts on it: the node bound is never enforced, the triples deleted for it (one for
  two nodes) go for nothing, and cycle after cycle they can drain the store. `MemoryBounds::enforce` applies an old count to a
  new list (`lifecycle/bounds.rs:121`, `:189`): two cycles at once delete twice as many.
* `evict_below_weight` of the memory store leaves `triple_sources` (`storage/memory.rs:304`), unlike its
  deletion and unlike SledStore, and that of the tiered store its books. `delete_triple` takes two locks
  (`storage/memory.rs:153`): the links of a triple inserted again in between are lost.
* Supersede, revoke and resolve write back old copies (`mcp/tools.rs:1871`): an evicted triple returns, a
  decayed one gains weight. MCP supersede lowers the old weight, HTTP's does not.
* The clamp can raise a weight on negative feedback (`inference/weight_adjuster.rs:161`), and touching
  lowers a weight that feedback had raised above 1.0 (`models/triple.rs:132`).
* A demotion deletes also where there is no cold tier (`tiered_store/store.rs:221`).
* On PostgreSQL: reinforcements overwrite each other, pages of exchanges shift with the clients'
  timestamps, a federated insertion fails for want of nodes, neighbours fail for every depth but zero,
  `update_session` has no caller.

Federation and stigmergy
* The filter is rebuilt with another size (`federation/sync.rs:86`). One made from no triples has size
  zero, and an engine that checks a triple against it panics; its event loop is then gone.
* A retraction or restriction lasts only as long as the triple that says it: received ones have weight 0.0
  (`federation/sync.rs:264`) and go with the next eviction, after which the retracted triple is accepted
  again and the restricted one shared. A restriction does not keep retractions back
  (`federation/sync.rs:315`).
* A peer's DID stays `pending:`, so SHAREABLE_WITH matches nobody; nobody promotes a peer's trust;
  rediscovering a peer resets its record (`federation/manager.rs:125`); bootstrap peers never enter the
  peer store; two idle engines keep their transports locked while they wait, so cycles stall
  (`federation/manager.rs:317`).
* An event that leaves the window before it is counted leaves a count behind
  (`stigmergy/access_tracker.rs:104`); two cycles at once may connect two nodes in both directions
  (`stigmergy/co_retrieval.rs:124`). Reinforcement fails on a pair of which one triple is gone, and
  maintenance then never reaches its decay step (`stigmergy/co_retrieval.rs:175`, `:184`).

Sessions and patterns
* `decay_patterns` computes on copies and writes nothing (`vkb/patterns.rs:62`), although its comment says
  that it reduces confidence (`vkb/patterns.rs:49`); `reinforce_pattern` there returns 1.0 instead of the
  updated confidence unless its pattern is the most confident one (`vkb/patterns.rs:170`). MCP's session_start and
  session_end neither create nor end a session in the store; its exchange_list has no offset, and it
  refuses the role "User" that HTTP accepts. Insights always report a confidence of 0.8.

Reading and ranking
* A query filter that names an unknown node is dropped and matches everything (`api/mod.rs:255`, and
  MCP). HTTP limits the depth of neighbours to 1..10, MCP does not. Exploration looks only at triples with
  the node as subject, its comment says subject or object. Statistics are said to sample to spare memory,
  but all triples are loaded first. `trust_check` is a stub.
* Tiered search ignores the caller's `k` and nearly always stops at its first tier; it and the combined
  query may rank by two generations of vectors. MCP search has no fallback. Resetting the degradation sets
  the level only, until the next report; a node2vec recomputation reports nothing. The status says that
  vectors are available (Full) when there are none. A slower recomputation may replace newer vectors; walks
  of length one, or a graph of one node, empty them; spectral adjacency overwrites parallel edges.
* With less room than two nodes per triple the assembler may name one node more than the maximum asked for
  (`context/assembler.rs:36`, `:282`), and it may leave the query node out, although its comment says that
  it is always included (`context/assembler.rs:287`). The working set ignores the
  caller's `k` once it is warm; building it with depth 0 underflows. Activating something of confidence 1
  lowers its score, and the first turn raises that of weak new nodes; a thread that was let rest is never
  active again; pruned nodes may leave triples behind.
* A fused score may exceed 1, because weights are validated to sum to one within 0.01. Counts of distinct
  paths and betweenness take parallel edges as different paths; `connected_components` finds strongly
  connected ones.

Vectors
* Two decisions at once may both queue a batch (`embeddings/strategy_selector.rs:156`), although `:142` says
  that none is queued while one is pending; the first to complete then lowers the flag under the second.
  Completing one clears the flag before it records the time. `spring_nudge_on_insert` is not called, though its comment
  says it is on every insertion. `recompute_spectral_multi` fails on graphs smaller than its dimensions.
* The vector file: `get` always returns nothing, an initial capacity of 0 panics, the nil id marks a free
  slot.

Learning and social tools
* A triple that a feedback lists twice is counted four times; the indexes keep the ids of what was pruned,
  and a history of fewer than ten entries is never pruned. `process_feedback`, the fusion scorer and the
  PostgreSQL session store have no caller in the engine; two calls of `process_feedback` use attributions
  twice and may remove new ones; restored weights that were never updated are ignored.
* A list of verifications shows one of several verdicts of a verifier, possibly with another's reasoning.
  A changed verdict shows up as a tension, as do repeated resolutions and revocations, whose predicates
  are missing from the multi-valued ones (`mcp/tools.rs:2342`); resolving leaves a triple at a tenth of its
  weight (`mcp/tools.rs:2418`), so that every resolved tension is still listed. `share_list` lists revoked
  shares, and a resolution that read a share before it was revoked gives it its weight back.
  `share_create` does not check that the triple exists, `share_revoke` not that it is a share, and
  `tension_resolve` not that the two are in tension.
* In the mode with both servers the end of standard input ends the HTTP server too (`main.rs:286`).

## 7. Not modelled

* Start-up, configuration and shutdown; identity and signatures; the command-line client; the migration
  tool and the plugin: wiring without state of the engine's own, wrappers of external libraries, and
  single requests. A signature is made and verified by the library's word (Reads).
* The arithmetic of time and hop budgets (`budget/bounded.rs`): wall-clock times, that end a request
  earlier than its steps would.
* The numbers of the embeddings: eigenvectors, skip-gram training, spring forces. Which nodes get a
  vector, when, and of which dimension, is modelled.
* The cold tier and promotion into the hot one: they do not build at this commit.
* Insights and the text search of patterns on PostgreSQL, which do what Vkb's do in one statement.
* Strongly connected components, computed by a library.
* Statistics, logging, formatting, parsing and response types are left out of every module.

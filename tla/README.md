# KloudChat-LLM in TLA+

Models, model-checking runs and machine-checked proofs for the program logic of
KloudChat-LLM: the self-hosted model gateway (LiteLLM with a concurrency gate),
the tool shims next to it (page fetch, web search, OCR, speech, images,
retrieval index, metrics), the GPU placement scheduler, and the shell scripts
that install, generate and wire the stack. Paths are relative to the repository.

## 1. The system

### 1.1 Components

| Component | State it keeps | Operations | What makes it correct |
|---|---|---|---|
| Concurrency gate, `services/litellm/callbacks/concurrency_gate.py` | `_saturated`, `_last_success` per alias, written by a poll thread, read by every request's pre-call hook | poll, pre-call hook, failure hook | a `strict-local/*` request never leaves vLLM and is admitted only on recent evidence of room; a normal request spills only on seen overload |
| LiteLLM config generator, `scripts/gen-litellm-config.sh` | `config.yaml` (deployments, `router_settings.fallbacks`) | regenerate | no strict alias has a fallback; a slug is registered once |
| Page fetch, `services/crawl4ai-shim/{app,gate}.py` | the shared browser (`crawler`, `generation`), `dead_in_a_row`, `last_ok`, the render gate, the page cache | `/scrape`, `/health`, watcher, browser restart, process exit | one restart per dead browser, a working browser is never closed by a late report, slots are returned, a browser that never returns ends the process |
| Address guard, `services/crawl4ai-shim/netguard.py` | verdict cache | refusal of a URL, a redirect hop, a subrequest | every hop is judged; the cache is bounded |
| Search shim, `services/search-shim/{app,store}.py` | result cache (fresh and stale age), in-flight coalescer, gate | `/search` | identical queries share one fetch; a failure is never cached; stale is served only on failure and only while young enough |
| Image shim, `services/imagegen-shim/{app,pool}.py` | per backend `busy`, `down_until`, rotation | order, mark up/down, chat completion | a request tries each backend once, a live one is found if there is one, counters return to zero |
| Whisper shim, `services/whisper-shim/app.py` | in-flight counts, health cache | pick, transcribe | least-loaded healthy backend, counts balanced |
| OCR shim, `services/ocr-shim/app.py` | admission count, worker semaphore | ocr, render, timeouts | never more than `CONCURRENCY` jobs on threads; a timed-out job keeps its slot until its thread ends |
| Index shim, `services/index-shim/app.py` | chunks and vectors in Postgres, the embedder's model preference | put, search, delete | a collection holds one model's vectors; a put replaces a document as a whole |
| Metrics shim, `services/metrics-shim/app.py` | hostname cache | resolve, list targets | a failed lookup keeps the last address |
| Scheduler planner, `scheduler/{planner,kv_model,registry,types}.py` | none (pure) | plan | no card is oversubscribed; coverage before replicas; context between floor and target |
| Scheduler apply, `scheduler/{applier,inventory,__main__}.py` | `.env` on every node and on the orchestrator, running containers | probe, diff, apply | a route in the local `.env` names a service that the plan placed and that did not fail; one node's failure stays on that node |
| Setup, `scripts/{setup,lib,manage,install-vllm,manage-vllm,...}.sh` | `.env`, generated config files, running containers | roles `all`, `up`, ...; readiness wait; team allowlists | what was generated is what runs; waiting ends |
| Gateway, databases, vLLM, whisper, SearXNG, LiteLLM itself | external | | |

### 1.2 Interactions

`setup.sh all` dispatches the node installation over SSH, runs the scheduler
(which writes node `.env` files, recreates containers and writes the routes
into the local `.env`), waits for the routes, generates `config.yaml` and
starts the stack. LiteLLM reads `config.yaml` at start; the gate reads it too
and polls the routed nodes. The shims are independent HTTP services that hold
their state in one process each and talk to a backend that may be slow, busy,
dead or restarted.

### 1.3 What is hard to test here

- **Interleaving.** The gate's poll thread and the event loop share two
  dictionaries without a lock. In the shims every `await` is a point where
  another request runs: between reading the shared browser and using it, between
  joining a search and its end, between choosing a backend and counting it.
- **Failure in the middle.** `scheduler apply` is a list of SSH commands, any of
  which may fail, time out after taking effect, or be the last one before the
  operator's Ctrl-C. A browser is given up before the next one has started.
- **Stale information.** Gate flags rest on samples, plans on probes, the search
  cache on rows of two ages; each may be outdated when it is used.
- **Liveness.** A strict alias must open again, a dead browser must be replaced
  or the process must end, a caller must be answered though the one that started
  its call has left, planning must not move models forever.
- **Sums and rounding.** The planner promises memory over three phases, in
  shares rounded to a hundredth of a card.

`PROJECT.json` lists the hazards one by one, with the line where each one bites
and the properties that cover it.

## 2. The plan

Modules are ordered by what their failure would cost: data leaving the
boundary first, then outages, then waste.

| Order | Module | Specifies | State |
|---|---|---|---|
| 1 | `LiteLLMRoutes`, `ConcurrencyGate`, `ConcurrencyGateProofs` | generated routes; gate, hooks and router on top of them | done |
| 2 | `Slots`; `PageFetch`, `PageFetchProofs` | abstract admission gate; browser, watcher, scrapes | done |
| 3 | `SearchShim`, `SearchShimHistory`, `SearchShimProofs` | coalescer, cache, gate; which rows are due | done |
| 4 | `SchedulerApply`, `SchedulerApplyProofs` | probe, diff, run, routes | done |
| 5 | `Planner`, `PlannerProofs` | the four phases, planned again | done |
| 6 | `OcrShim`, `PageLoad`, `OcrShimProofs`; `PageLayout` | admission and worker slots under time limits, both as `Slots`; limits of a page; reading order | done |
| 7 | `ImagePool`, `WhisperShim`, `BackendsProofs` | choice of a backend against requests in flight | done |
| 8 | `DocumentStore`; `IndexShim`, `ChunkText`, `IndexShimProofs` | a store of whole documents; put and delete transactions, embedding models; pieces of a text | done |
| 9 | `SetupRollout` | generated files against what runs; composes the routes `SchedulerApply` writes with what `LiteLLMRoutes` reads | to do |
| 10 | `WaitReady` | the readiness loop and its deadline | to do |
| 11 | metrics hostname cache, team allowlists | | to do, small |

Every safety property that the passing runs check is a theorem. What the plan
has left is in the table: the setup script composed with the routes that
`SchedulerApply` writes and `LiteLLMRoutes` reads, the readiness wait and the
small ones; and, within modelled parts, two operators who apply at once.

## 3. The modules and the code

### 3.1 `LiteLLMRoutes` — `scripts/gen-litellm-config.sh`

Constant-level: from an environment (URLs, which nodes answer `/v1/models`, a
key for OpenRouter, pictures, caps, forced names) to the deployments, the
router's fallbacks and the gate map that `ConcurrencyGate.__init__` reads back
from them. A name is a pair of a prefix (`local`, `strict`, `slug`) and a model.
Prices, context windows, media entries and the splice of the text into
`config.yaml` are left out.

### 3.2 `ConcurrencyGate` — `services/litellm/callbacks/concurrency_gate.py`

One LiteLLM worker (the container runs four, each with a gate of its own and
nothing shared between them). `saturated` and `age` are `_saturated` and
`_last_success`; the poll thread is `Wake`, `Scrape` of one node after another,
`Gathered`, then per alias the two assignments `Stamp` and `SetFlag` as separate
steps, since a hook may run between them. A request is `Arrive`, `PreCall` (reads
the stamp), `Decide` (reads the flag), and then LiteLLM's router (external):
`Route`, `UpstreamFails` with a fallback by name, `UpstreamAnswers`, and the
failure hook. `evidence` and `overload` are history variables for the
properties. Time is discrete, ages saturate past every threshold. `Restart`
leads to an initial state of any environment.

| Property | Says |
|---|---|
| `StrictStaysLocal` | a `strict-local/*` request never reaches OpenRouter, through any configuration, retry and fallback |
| `AdmittedOnRecentRoom` | a strict request passes only on samples that show room on all nodes and are at most `STRICT_STATE_TTL + ScrapeDelay` old (except between the poll's two assignments, see 7) |
| `SpillOnlyOnOverload` | a normal request leaves for OpenRouter before it was tried only if some poll saw a node at its cap |
| `StrictFailuresNormalised` | a strict request that fails ends as `strict_local_unavailable`, and no other request does |
| `StrictStaysGated` | no operator setting of caps takes a strict alias out of the gate |
| `StrictRecovers` | a strict alias whose nodes keep answering with room is opened for good, and its stamp keeps being renewed |

### 3.3 `PageFetch` — `services/crawl4ai-shim/{app,gate}.py`

`crawler` and `generation` are the globals of the same names; a browser is named
by its generation and can die (its calls fail), hang (only the watcher finds it)
or not start. A scrape reads both before it renders and compares them after,
`Restart(c)` is `_restart_browser` with one step per await (probe, close, start)
under `restart_lock`, and the watcher runs `_check`. `dead_in_a_row`, the exit and the restart of
the container by Docker are there. Left out: the page cache, the redirect
check, the address guard, `/health`. Abstractions: `fresh` says whether a render has
succeeded since the last sleep; the counter saturates at `EXIT_LIMIT`; a hung
browser does not recover; the lock is taken in a step of its own even when it is
free, which allows more interleavings than the code.

`Slots` is the abstract gate: at most `Limit` holders, each holding one slot, the counter equal
to their number, and `LeaveAll` when the process ends. `SlotsKept` is the
refinement, with the scrapes between `acquire` and `release` as holders.
`ReplacedOnlyIfLost`: a generation is left only if its browser was lost.
`OneBreakdownIsAbsorbed`: "browser unavailable" goes only to a scrape that met
two failures. `BrowserComesBack`: once failures stop, a browser that works stays. `RepairUnderWay`
(proved): no lock is left behind, and a shim without a browser is making one or
failed to.

### 3.4 `SearchShim`, `SearchShimHistory` — `services/search-shim/{app,store}.py`

One event loop; a step lasts from one await to the next, and a task's done
callback is a step of its own. `age`/`order` are the rows of `ResultCache`,
`inflight` is the coalescer's table, `calls` the tasks, `caller` the requests.
Actions: a request looks up, joins or starts a task; the task queues for the
gate, is answered or fails; its callback unregisters it; the caller resumes and
may fall back to a stale row; callers may leave at any wait. Properties:
`OneCallPerKey`, `SlotsKept` (refines `Slots`), `StaleRatherThanError`,
`EveryoneAnswered`, and (proved) `CallsUnderWay`: whoever waits, waits for a call of
its own query that is still under way.

`SearchShimHistory` adds one variable that no action reads: for each row that is
due, the keys put or hit since its own last use. `RecentlyUsedStay` (the
cache at its limit) is stated by it and not by `order`: a row that was put is there
until as many other keys as the cache has places have been used since, or a
lookup finds it past its stale time; and the cache never holds more rows than
it may. So what is evicted is the row longest unused, never the one just put.

### 3.5 `SchedulerApply` — `scheduler/{applier,inventory,__main__}.py`

`env` and `running` are the nodes' `.env` files and containers, `urls` the routes
in the orchestrator's `.env`. `Probe` reads each node, where each of the three
reads may fail on its own, computes `Diff` and asks; `Confirm`/`Decline`; `Run`,
`Fail` (with or without the effect of a command that timed out) and `Skip` (an action on a node in
`failed_nodes`) process the actions; `Finish` writes the routes without the dead
ones; `Killed` ends the run anywhere. `Stops` is a container that ends by
itself. The options are two representatives: one that is always written, one
written only where it differs from compose's default.

`StartedAsPlanned`, `NoDeadRoute`, `AppliedIsServed`, `ReapplyIsNoOp` and
`NoDrift` are stated over any number of runs after each other. `UntouchedMatch`
(proved) is the part of "the cluster already matches the plan" that is true: it holds
until a command fails or a run is killed.

### 3.6 `Planner` — `scheduler/{planner,types,kv_model,registry}.py`

The phases are `Cover`/`Delegate`, `Restore`, `Replicate`, `Restore` again, one
action per placement or doubling, with the sizing arithmetic of the code on
whole GiB and its real constants (activation 10 or 2 GiB capped at 12% of a
budget, reserve of 8% between 1 and 8 GiB, shares in hundredths between 5 and
95, a margin of 10% on the KV cache, ties within 1 GiB). `PlanAgain` deploys
the plan and plans anew, with what runs as the incumbents. The order in which
restoration visits the nodes is left open: nodes share no memory. Reasons and notes are left
out.

`CardsAddUp` and `SharesFit`: no card is promised past its memory, and the shares that services are started
with, which the code rounds up and clamps, add up to no more than the card.
`SeatsAreSound`: replicas and grown placements still meet every condition of a first one.
`DelegatedForLackOfRoom`: only models that go before it can cost a model its
only instance. `NoIdleRoom`: replication ends with no place left. `PlansSettle`:
planning over its own result changes the placement finitely often (one more plan
is not always enough: a replica becomes the incumbent of the next plan).
`PlanEnds` (proved): each plan by itself ends, since every step leaves less to do.

### 3.7 `OcrShim`, `PageLoad` — `services/ocr-shim/app.py`

A request passes two gates: `admitted` is `_admitted`, taken before the body is
read, and `free` is the value of `_GATE`, the semaphore of the worker threads,
with its queue `waiters`. A step lasts from one await to the next. `Admit`,
`Busy`, `BodyRefused`, `BodyRead` follow `_admitted_body` and `_body`; `StartThread`,
`ThreadEnds` (the done callback) and `TimesOut` follow `_run`. A thread cannot be stopped: the
request of a timed-out page is answered and leaves admission, while its thread
(an "orphan") goes on and keeps the semaphore. `Restart` is the container's.

`GatesKept`: both gates implement `Slots`, the semaphore with the threads that
really run as holders. `PagesAnswered`: whoever was let in is answered;
`NobodyForgotten` (proved): whoever waits for a thread has a place in the queue, and a thread
is free or as many run as may.

`PageLoad` is `load_page` with its two readers. An upload is its kind, whether its
library fails to open it or to count its frames, and its pages; a page is its
sides and whether it fails to load or to be drawn; the one variable is what was
asked for and the answer. A picture that fails at any step is refused; a PDF page that PDFium
cannot load or render is an exception nobody catches (`Failed`, 500). A rendered page is as
large as its scale makes it, each side rounded up (`Rounded`), and one that would pass
`MAX_PIXELS` is scaled down first (`Fitted`), so it can have a row and a column more
than the limit allows; since the scale is a float, a side that needs no rounding may
come out one larger too. Rounding errors beyond that are left out.
`ServedIffThere`: served is exactly what is there, can be read and is within the
limits, at the resolution asked for where it fits; a page that is there is never
told as missing, and nothing but a PDF page that cannot be drawn ends in a 500. The recogniser, the
table finder and the bytes by which a file type is recognised are left out.

### 3.8 `PageLayout` — `services/ocr-shim/layout.py`

From the boxes of lines and tables to the order in which lines are read: rows,
gutter, columns, full-width rows that end a stretch of columns, tables, the last
sort by the top. A line is its number; a text is the sequence of its rows, and
a row the set of its lines, which the code reads from the left. The texts of cells and
the Markdown of a table are left out. `AnyLayout` are the pages there can be: lines and
tables that are found in any order, anywhere.

`LinesReadInOrder`: every line of any page is read in exactly one row. On a
level page (`Level`: lines of about one size, those outside tables beside or above each other,
tables that stand alone), of two lines one over the other the upper one is read first.
The one exception is a table that lies inside two columns (`Cuts`: from a row above the
table down to the line below it, no row has a line across the gutter): the code
reads the stretch as one block, by its top, and so the table after it. The
property says that too: just these lines come before the table, and any other
table on a page with columns (over a full-width row, over a stretch that begins below
it, over another table) comes in its place.

### 3.9 `ImagePool` — `services/imagegen-shim/{app,pool}.py`

`busy`, `cooling` (what is left until `_down_until`) and `turn` are the pool's;
`drawing` holds each request's order of backends, computed once before the first
await, and how far it is. `Sorted` says of an order what `sorted` with the key of
`Pool.order` makes of the pool; `Orders` has the one there is. `Refuses` is a refused connection
(mark down, next backend), `GivesUp` the last one, `Draws` any answer (which ends a
cooldown), `Breaks` a connection lost on the way (502 at once). `FirstTryLeastBusy`
compares the choice with the requests really in flight; `GivesUpAfterAll` says
that a request fails as unreachable only after every backend refused it.

### 3.10 `WhisperShim` — `services/whisper-shim/app.py`

`health`, `checked` and `inflight` are `_HEALTH`, the age of `_HEALTH_AT` and
`_INFLIGHT`; `prober` holds `_HEALTH_LOCK` during a round of checks, one `CheckBack`
per backend. `dead` is how long each backend has really been silent. The code's
`_INFLIGHT_LOCK` is never held across an await that yields, so picking and
counting are one step. `HEALTH_PROBE_TIMEOUT_SEC` stands for the longest a check takes:
httpx applies the time limit of that name (62) to each phase of a request, so a
check may last a few times as long. `DeadAvoided`: a silent backend is left within
the TTL and one round of checks. `UploadsSpread`: work goes where fewest uploads really are
under way.

### 3.11 `IndexShim`, `DocumentStore`, `ChunkText` — `services/index-shim/app.py`

`rows` is the table of chunks, committed; `req` what each request is doing in
its transaction: `todo` and `gone` are the rows its DELETE has yet to reach and
has deleted; `model` and `others` the embedding models it asks. PostgreSQL is
external: READ COMMITTED, a DELETE waits for rows another transaction has
deleted, an INSERT waits for and then fails on a key that is there, and of deletes that wait
for each other in a circle (`WaitsForItself`) one is rolled back. The pool of connections is bounded. Begin, delete, pin, embed, insert,
commit, roll back, search, health and restart are the actions.

`DocumentStore` is the promise: a document is there whole or not at all, one put
replaces it, only a request to forget takes it away. `StoreKept` is the
refinement: a document's version is read off its rows (`Content`), and any set
of rows that is not all those of one put is "torn". `EveryRequestEnds`: nobody waits
for ever for a connection or a lock. `SomebodyGoesOn` (proved): while requests are
under way, what the next step of one of them waits for is there. `OneModelKept` (proved) is
the part of "a collection holds one embedding model's vectors" that is true: a
second model comes only with a put that finds nothing in the collection.

`ChunkText` is `chunk_text`: a text is its length and where breaks are, of two
characters (a blank line, a full stop) or three (the Korean one); `Pieces` are the
windows. The text is written a character at a time, so that every text is one
of its states. `PassagesStayWhole` says that no passage as long as the overlap
is lost at a cut. That pieces are stripped and blank ones dropped is left out.
Vectors, ranking, the reranker and the dimension check are left out too.

### 3.12 Composition

`Slots` is implemented by the render gate, the search gate and both OCR gates.
`ConcurrencyGate` stands on `LiteLLMRoutes`. `MCBackends` holds `ImagePool` and
`WhisperShim` side by side; they share no state, so a behaviour moves one of
them only. `MCOcrShim` holds `OcrShim`, `PageLoad` and pages for `PageLayout` side by
side, and `MCIndexShim` `IndexShim` and `ChunkText`: an upload is looked at, a
page laid out or a text written while nothing else is under way.

## 4. What is checked

Every run names its bounds in its `.cfg`.

| Run | Instance and bounds | Shows |
|---|---|---|
| `gate_timing` | 1 model, 2 nodes, 1 request at a time (again and again); `POLL_TTL`, `SCRAPE_TIMEOUT`, `ScrapeDelay` 1; samples 0 or 1 against a cap of 1 | `TypeOK`, `AdmittedOnRecentRoom`, `SpillOnlyOnOverload`, `StrictRecovers` |
| `gate_configs` | every combination of URLs, answering nodes, key, pictures, caps and forced names of 1 model; times 0; restarts while a request is upstream | `StrictStaysLocal`, `StrictFailuresNormalised`, `StrictStaysGated` |
| `page_fetch` | 3 scrapes on 2 slots, 2 failures of any kind, exit after 3 | 3.3 |
| `search` | 2 requests at a time, 3 keys, 2 tasks, 2 rows, 1 slot; ages fresh, stale, too old | 3.4 |
| `apply` | 3 plans on 2 nodes and 2 models, any number of runs, 2 failures or kills, 1 surprise | 3.5 |
| `apply_no_changes` | the same | violation, see 7 |
| `plan` | 3 models of 12 mixes on 3 nodes, each of 6 kinds, of 1 or 2 cards; 3 caps; 4 first deployments | 3.6 |
| `plan_context` | the same | violation, see 7 |
| `ocr` | 6 requests, 2 threads, 1 place in the queue; PDFs, pictures and others of up to 5 pages against a limit of 3, a first page and others of 6 sizes, none to 9 pixels against a limit of 4, failing to open, to be counted, loaded or drawn or not at all, asked for pages 1 to 5 at 72 or 100 dpi; every page of up to 6 rows of 6 kinds, a table found or not | 3.7, 3.8 |
| `backends` | 3 pictures on 3 servers with a cooldown of 2; 3 uploads on 2 backends, TTL 3, a round of checks of 1 | 3.9, 3.10 |
| `index` | 3 requests on 2 connections: two that put one document or forget all, a third that puts another, searches or asks for the health; 2 models; texts of up to 11 characters cut at 7 with overlap 3, breaks anywhere | 3.11 |
| `index_mixed` | the same | violation, see 7 |

Why the bounds are enough. *Gate*: requests do not write what other requests
read, so one at a time meets every state of the poll; two nodes are the least on
which one answers and the other does not; with every time at 1 the strict limit
is 3 and all orders of stamp, flag, sleep and hook occur. The configurations are
checked apart, with time standing still, since no route depends on an age.
*Page fetch*: two scrapes on the same browser and one that waits are the least
for a late report during and after a replacement; with two failures a retry meets a second
one, and the exit is reached. *Search*: two callers share, three keys overflow two rows, also after a hit has
moved the older one.
*Apply*: two failures let a failed run follow a killed one. *Planner*: two
models contend for what a third wants, and a sharded model needs two cards; the
mixes make each filter (class, architecture, checkpoint, head or pool, width)
decide somewhere. *OCR*: three may be let in and two threads may be orphans, so
a sixth request meets every gate full; six rows let a stretch of four lines per
column (the least that makes a gutter) be broken by a full row and a table; the sizes of
a page are below the pixel limit, at it, above it, above twice it and without an area,
and 100 dpi does not come out in whole pixels. *Backends*:
with two image servers a stale order shows nothing, with three the second try may meet a
cooldown that began since; ages are counted one past every threshold. *Index*:
two connections for three requests let the pool be the limit; a put against
a put, a delete and another document of the collection are all pairs that share
rows or a model, and two pieces are the least for half a document. A window of 7
with an overlap of 3 is the least with a break of each width in its back half,
and a text of 11 is cut several times.

Each property has at least one mutant in `PROJECT.json`: a variant of one
definition with a plausible bug, under which the property fails in its own run.

### Fairness

- *Gate* (`OneLifeSpec`): the poll thread's steps and the hook's decision are
  weakly fair, as a thread's and a coroutine's next steps are; the passing of
  time is strongly fair. Nothing is assumed of upstreams or clients.
- *Page fetch*: weak fairness of the container's restart (`restart: always`),
  of sleeping and of the watcher's own steps; weak fairness of the steps inside
  `_restart_browser`, each under a time limit; strong fairness of the watcher
  getting `restart_lock`, which asyncio grants in order of arrival. Nothing is assumed
  of scrapes.
- *Search*: weak fairness of each task's steps (its request has a time limit)
  and of resuming callers, that is, of the event loop.
- *OCR* (`FairSpec`): weak fairness of bodies that end, of the semaphore handing
  its slots out in order, of threads that return and of handlers that resume. The
  time limit is no progress: it frees no thread.
- *Index* (`FairSpec`): strong fairness of each request's steps: calls of the
  gateway are under a time limit, and the pool and PostgreSQL serve those who
  wait in order.
- *Backends*: none, only safety.
- *Apply*, *Planner*: none. `PlansSettle` needs none: it only says that there
  are not infinitely many changes.

## 5. What is proved

Proved for every value of the constants that meets the modules' named
assumptions, which TLC evaluates in the runs.

| Theorem | States |
|---|---|
| `ConcurrencyGateProofs!TypeCorrect` | `TypeOK` |
| `ConcurrencyGateProofs!StrictNeverLeaves`, `StrictFailuresAreNormalised`, `StrictAlwaysGated` | `StrictStaysLocal`, `StrictFailuresNormalised`, `StrictStaysGated` |
| `ConcurrencyGateProofs!StrictAdmittedOnEvidence`, `SpillNeedsOverload` | `AdmittedOnRecentRoom`, `SpillOnlyOnOverload` |
| `PageFetchProofs!TypeCorrect`, `LostBeforeReplaced`, `OneBreakdownCostsNobody` | `TypeOK`, `ReplacedOnlyIfLost`, `OneBreakdownIsAbsorbed` |
| `PageFetchProofs!RenderGateIsSlots` | `SlotsKept`: the render gate implements `Slots` |
| `PageFetchProofs!NeverAbandoned` | `RepairUnderWay` |
| `SearchShimProofs!SearchedOnce`, `CacheKeepsRecent`, `StaleServedExactly` | `OneCallPerKey`, `RecentlyUsedStay`, `StaleRatherThanError` |
| `SearchShimProofs!SearchGateIsSlots` | `SlotsKept`: the gate implements `Slots` |
| `SearchShimProofs!NobodyWaitsInVain` | `CallsUnderWay` |
| `SchedulerApplyProofs!TypeCorrect`, `StartsAsPlanned`, `RoutesAreLive` | `TypeOK`, `StartedAsPlanned`, `NoDeadRoute` |
| `SchedulerApplyProofs!AppliedLeavesNothing`, `AppliedRunsServe`, `NothingDrifts` | `ReapplyIsNoOp`, `AppliedIsServed`, `NoDrift` |
| `SchedulerApplyProofs!UntouchedClusterMatches` | `UntouchedMatch` |
| `PlannerProofs!PlacementsAreSound`, `NoRoomIsIdle`, `OnlyForLackOfRoom` | `SeatsAreSound`, `NoIdleRoom`, `DelegatedForLackOfRoom` |
| `PlannerProofs!NoCardOverdrawn`, `NoCardPromisedTwice`, `CardsAreShared` | no card and no two instances on one past what was free; `CardsAddUp`; `SharesFit` |
| `PlannerProofs!EveryPlanEnds` | `PlanEnds` |
| `OcrShimProofs!GatesAreSlots`, `BodiesBounded` | `GatesKept`: both gates implement `Slots`; `BodiesInMemory` |
| `OcrShimProofs!PagesServedIffThere`, `EveryPageIsAnswered` | `ServedIffThere`, for every upload; and there always is an answer |
| `OcrShimProofs!PageReadInOrder` | `LinesReadInOrder`, for every page |
| `OcrShimProofs!NobodyLost` | `NobodyForgotten` |
| `BackendsProofs!FirstTryIsLeastBusy`, `AllAskedBeforeGivingUp` | `FirstTryLeastBusy`, `GivesUpAfterAll` |
| `BackendsProofs!SilentAvoided`, `LoadSpread` | `DeadAvoided`, `UploadsSpread` |
| `IndexShimProofs!DocumentsKeptWhole` | `StoreKept`: the index implements `DocumentStore` |
| `IndexShimProofs!NoStandstill`, `OneModelStays` | `SomebodyGoesOn`, `OneModelKept` |
| `IndexShimProofs!NoPassageLost` | `PassagesStayWhole`, for every text |

*Gate.* The boundary: lemmas about `LiteLLMRoutes` (every deployment of a strict
name is inside, no strict name is a fallback's source) and the invariant
`StaysStrict`, that a request asked for under a strict name still carries one.
Admission: `EvidenceInv` has four parts. `SamplesYoung` bounds the samples' age by the
poll's duration, `StampNew` says that between the two assignments the stamp is
new, `EvidenceFollowsStamp` that an open strict flag rests on samples hardly older than its
stamp (except in that gap), and `StampStillFresh` that what a hook has read of the
stamp still holds when it reads the flag, since a hook's two reads take no time.
Spilling: `SpillInv`, that the set flag of a normal alias rests on an overload some
poll saw, and that a hook at its second read has not found a normal alias stale.
How requests fail: `Normalised`, that no step gives a request a strict name it did
not come with, and that the failure hook goes by the name and the flag it came with.

*Page fetch.* `ReplacedOnlyIfLost` is not inductive: that a browser is lost when
it is discarded needs to know that the caller inside `_restart_browser` holds
the lock (`LockInv`), that what stands in `crawler` is the browser of this
generation or nothing, and nothing only during a replacement or after a failed start
(`PlaceInv`), and that a process that is down has nothing under way (`DownInv`). `SlotInv`
(the counter is the number of holders) gives the refinement. For `OneBreakdownIsAbsorbed`,
`AttemptInv` counts the failures a scrape must have met by where it is: one to
have left its first attempt, both once the browser that took the place of its
first is lost too; `LostInv` says which browsers can be lost at all, and which of
them is the one in `crawler`. `RepairUnderWay` is read off `LockInv` and `PlaceInv`.

*Search.* `Registered`: a task is registered under its key from its creation to
its done callback, so a key with a task is never without one in the table.
The cache: `RowsInv`, that the order lists the rows, each once; removing, moving
and evicting a row are lemmas about any such list. `RecentInv` relates the order to its history:
whatever is behind a due row has been used after it (`Behind`), so a due row
at the front has all the others in its history, and is due no longer when one too
many makes it go.
`StaleInv` is for the caller
that resumes after an error: its task was started without a fresh row
(`NoRowYet`), so the row it finds is past its fresh age, gone, or was put since
by a later task in the same instant (`LateRows`).

*Apply.* `WrittenInv`: on a node on which nothing has failed, each option of a
placed model is still to be written or is in force, if only as compose's
default; so a container started on it has the plan's options. `RouteInv`: a placed
service is there, was there, will be started, or is in `dead_urls`. For what
an applied run leaves, `SettleInv`: on a node that has not failed, an option is
still to be written or a probe would leave it alone, and a service that is not
placed is still to be stopped or is not there; `MatchInv` keeps that until the
next probe. `DriftInv`: without failures a container has the options of its `.env`,
or a start or recreate of it is still to come, and an option is only written
with one of them to come after it. So where nothing has failed, an option that a probe
leaves alone is in force in the container too (`LeftAsPlanned`).

*Planner.* The invariant has a part for each theorem. `SeatsInv`: a placement
meets every condition and its charge is just what its context and sessions
need, also after a doubling. `RoomInv`: from the end of replication there is no room,
since restoration only takes. `CardsInv` and the sums: for any placements and
any card, charges and what is left add up to what was there; seating adds one
term, growing replaces one. The shares follow: each share is at most the charge
behind it, so a hundred of them would be more than the card. `OrderInv` (models
have their turn in order, one place each at their floor, counted as they come)
and `LackInv` (a model that was passed over would still find no place beside the
first instances of those before it) give `OnlyForLackOfRoom`: `LackInv` holds when a model is
passed over since only those were seated by then, and nothing later changes
who was first.

`SumFunctionOnSet` is a fold of the community modules. The prover has no
induction over it, and none is needed: the library's well-founded induction,
as "a set of numbers that is not empty has a least one" (`LeastExists`), gives
of a claim about all finite sets that fails a smallest set for which it fails,
and that set less one element contradicts it. The function that the
fold is defined by is shown to exist in the same way.

*A plan ends.* What is left to do is a number: models without their turn, phases,
and the sum over all models and nodes of what a context is short of its target. A
placement or a doubling makes one term of the sum less (`SumLess`), and every other step takes a
model or a phase away.

*OCR.* Each counter is the cardinality of its holders (`WorkersInv`,
`AdmissionInv`), and the queue holds exactly requests that wait, each once
(`QueueInv`): without that, a thread could start for a request that has one. That
no more bodies are held than `ADMIT + CONCURRENCY` follows. `PagesServedIffThere`
goes through the checks of both readers for an upload of any size. That the sides a page is
rendered with, less their rounding, keep the limit is multiplication of inequalities
(`RoundedArea`, `FittedArea`); that there are such sides is the least number that is
large enough (`FittedIs`). `NobodyForgotten`
adds `InQueue`, the converse of `QueueInv`, and that the queue is no longer than
admission, since its places map into the admitted one to one (`ShortQueue`).

*Reading order.* Rows and sorted blocks are recursive functions on the set of what is
left; that they are defined is shown one size at a time (`UnfoldsExists`), and what
they say by smallest counterexample. Of the rows (`Grouped`): each has a head that
is the highest of what was left, its lines are within half a line of that, and
those of later rows are farther. Since the median is the sum of two heights (`Tall2Is`) and heights are
of about one size, of two lines one above the other the upper is in an
earlier row (`AboveEarlier`), so tops descend with the rows (`TopsDescend`). Blocks hold disjoint
rows, all of one before all of the other (`BlocksApart`); within a stretch no line reaches over
the gutter, so each column reads down (`FlowReadsDown`); and the sorted blocks are told
one after the other (`Told`). A table over a line comes first (`TableOver`) since a block of the
flow that holds the line and begins no lower than the table would be a stretch
with a row above it, which is what `Cuts` denies; where `Cuts` holds, the row above and the
line are in one block, as between them no other begins (`TableAfter`).

*Whisper.* `AgesInv`: a backend whose check came back good in this round has
been silent no longer than the round lasts, and one found up no longer than the
checks are old and their round lasted. `CountsInv`: the counter of a backend is the
number of its uploads. Since the least element of a set of numbers is wanted for
every set, `LeastExists` uses the library's well-founded induction.

*Images.* `PoolInv`: `busy` of a backend is the number of requests that are at it,
and the order of each request is the whole pool, each backend once, with
those before its place in `refused`. So the last one to refuse completes the
pool, and what `order` compares is what is really in flight.

*Index.* The invariant says of `rows` that each document is there as one put
left it, or not at all; of each request that what it has found and what it has deleted are
whole documents of its own; and that no two have deleted the same row. A put
whose insert conflicts with nothing then finds no row of its document left: another
version would have a piece 1, and so has its own.

*No standstill.* Who has a connection is at a delete, an embedding call, an insert or a
select; embedding calls and selects wait for nobody. An insert that waits for another's
rows has deleted nothing itself, since those are rows of its document, and a
document is deleted as a whole (`InsertHoldsNothing`). So where nobody can go on, all
who have a connection are at deletes that others block, and the smallest set of them
that is closed under who blocks whom is a circle (`SomeCircle`), which PostgreSQL breaks.

*One model.* A put that finds a row in its collection is given that row's model and no
other (`PinAgrees`), and a commit adds rows of just the model its put was given
(`InsertAgrees`); collections share no document (`CollectionsType`).

*Pieces.* `chunk_text` is a function on places of the text whose every step
leads further (`NextIs`); that it is defined, and that from every place the pieces cover
the rest, are both shown for the last place at which they would fail
(`CutsExist`, `WholePieces`). The overlap is at most half a window (`ChunkType`; the
code has 150 of 900): a window cut at a break is longer than that, so the
next one begins further on and still within reach.

*Only model-checked*: all liveness (`StrictRecovers`, `BrowserComesBack`,
`EveryoneAnswered`, `PagesAnswered`, `EveryRequestEnds`, `PlansSettle`), since
the prover handles neither `ENABLED` nor fairness. Of most of them the safety half is
proved: that nothing waits for what cannot come (`CallsUnderWay`, `NobodyForgotten`,
`SomebodyGoesOn`, `RepairUnderWay`) and that a plan has an end (`PlanEnds`). These,
`UntouchedMatch` and `OneModelKept` are proved and no run repeats them. Of the three runs
that expect a violation, two have beside them what of the statement is true:
`UntouchedMatch` of `apply_no_changes`, `OneModelKept` of `index_mixed`.

## 6. What is not modelled

`PROJECT.json` gives every component and the reason. In short: pure text
(configuration templates, formatting, metadata parsing, the Caddyfile, the
exporter), third-party images, and, until the plan reaches them, the setup
script, the readiness wait, the metrics shim's hostname cache and the team
allowlists. Within modelled components: a torn write of an `.env`, two
applies at once, and commands that time out and take effect only after the next
probe; the page cache and the address guard of page fetch; in the OCR shim the levelling of a
tilted page (see 7); in the index, a client that leaves in the middle of a put,
which rolls back as a failed insert does.

## 7. Where the code and its words disagree

With a run that is expected to find the violation; `PROJECT.json` quotes both
sides:

- `apply_no_changes`: "the cluster already matches the plan" is also said when an
  earlier run wrote an option and ended before it recreated the container.
- `plan_context`: restoration is said to raise contexts until nothing grows; a placement
  whose doubled context costs no further memory is left at its floor.
- `index_mixed`: a collection is said to hold one embedding model's vectors; two
  first documents put at once into an empty collection may be embedded by
  different models, and the one whose model has fewer rows is never found.

Without a run, read off the code while modelling it:

- `STRICT_STATE_TTL` is said to bound the age of the last good sample
  (`concurrency_gate.py:37`); it bounds the age of a stamp taken after the poll's slowest
  scrape (272). `AdmittedOnRecentRoom` therefore allows `ScrapeDelay` more.
- The watcher of page fetch is said to end the process when replacing the browser
  has not helped (`crawl4ai-shim/app.py:229`); it goes by the failures in a row,
  and enough scrapes on one dead browser reach the limit before any replacement was tried.
- A row of the search cache is said to be stale for `stale_ttl` seconds after it stops
  being fresh (`store.py:42-43`); it is until `stale_ttl` seconds after it was put.
- A node whose `.env` cannot be read is said to be recreated rather than assumed
  (`test_scheduler.py:871`); an option at its default is assumed (`applier.py:174`,
  `inventory.py:60`).
- A refused image server is said to sit out for a cooldown unless every backend
  is out (`pool.py:5-6`); an order computed before it was marked still sends it a
  second try, and a slow answer that began before ends its cooldown.
- Reading order is said to use the level position of a line (`layout.py:5`); the
  last sort uses the top of the box of a row's first line (178). On a page tilted by 2
  degrees a right-aligned line can so be read after the next short one at the left.
- A put that is under way when its document is deleted leaves its rows: the delete does
  not see them. `DocumentStore` allows it, as a put that came later.
- A card's share is said to be rounded up (`planner.py:130`), so that it covers the
  need behind it; it is also clamped to 95 hundredths, which a card whose
  probe found more than that free can exceed. `SharesFit` allows that one case.
- An id named twice in `VLLM_MODELS` is planned twice, as two placements that share a
  service, a port and a route (`registry.py:185`).

# A TLA+ verification of fastapi-mqtt-gateway

The repository is an HTTP/WebSocket gateway in front of an MQTT broker
(`src/fastapi_mqtt_gateway`) together with the tooling that releases it
(`scripts`). This directory holds TLA+ models of both, the TLC configurations
that check them on small instances, and TLAPS proofs of the results that hold
for every instance. `PROJECT.json` lists components, runs, mutants, the map from
definitions to source lines, findings, hazards and theorems.

## 1. Inventory

### The gateway

| Component | State it keeps | Operations | Hard part |
|---|---|---|---|
| `MQTTService` subscriptions | `_owners`, `_subscriptions` | `acquire_subscription`, `release_subscription`, used by REST, WebSockets and retained queries | consumers with different QoS share a topic; a SUBSCRIBE fails half-way |
| `MQTTClient` connection | `_connected`, `_subscriptions`, paho's own state | `_on_connect`, `_connection_changed`, `_on_disconnect`, `subscribe`, `unsubscribe` | two threads: paho changes state at once, the event loop hears of it later |
| `MQTTClient` ingress | `_pending_messages`, `_dispatch_pending`, `_message_queue`, callbacks | `_on_message`, `_drain_messages`, `_deliver_message` | cross-thread hand-over, bounded queues, order |
| Topic ACL | allow and block lists | `validate_topic`, `filter_contains`, `filters_overlap`, `authorize_topic` | inclusion and intersection of wildcard filters, decided once for a stream's whole life |
| WebSocket endpoint | queue, overflow event, owner, acquired topics, three tasks | handshake, `ws_callback`, `send_messages`, `receive_disconnect`, clean-up | disconnect, expiry, overflow, broker failure and cancellation at every await |
| Retained queries | a future and a callback per query | `query_retained` | concurrent queries, time-out against a late packet |
| Topic statistics | an LRU of `TopicInfo` | `handle_message`, `get_topic_info` | eviction at the limit |
| Lifespan | the client, paho's thread, the worker that joins it | `lifespan`, `connect`, `disconnect` | start-up time-out while paho's thread lives, cancellation during shutdown |
| Login and tokens | rate limiter, JWT | `login`, `verify_token` | expiry |

REST handlers, WebSocket endpoints and retained queries call `MQTTService` on one
event loop; the service calls `MQTTClient`, which calls paho. In the other
direction paho's network thread reaches the event loop only by
`call_soon_threadsafe`: connection reports one by one, packets through a deque and
one scheduled drain. Packets then reach consumers by callbacks registered in a
list.

### The release tooling

| Component | State it keeps | Operations | Hard part |
|---|---|---|---|
| Release ledger | `release-version-state.json`: counter, publication floor, plans | `reserve_plan`, `verify_reservation`, `verify_promotion_order`, `begin_publication` | compare-and-swap, crashes, lost responses, reruns |
| GitHub access | what one read has seen so far | `_read_get`, `CreateReadback.pages` | truncated answers, shifting pages, bounded effort |
| Release publication | tag, draft, assets, release; the source's branch; the run's gate | `_publish_prepared`, `_reconcile_created_release`, `publish_versioned`, `wait_for_executing_run` | several public writes, none atomic with the next, in a repository that others write to |
| Candidate verification | a published candidate, read in many requests | `promote`, `verified_rc`, `scheduled_reuse`, `publish_verified` | each check is stale when the next is made |
| Release notes | the scanner's fence and comment state | `_release_lines`, `release_notes` | the same text is scanned several times |
| Version plans | version inputs on disk; build and sequence counters | `sync_versions`, `verify_checkout`, `create_plan` | files replaced one by one; projections with limits |
| Version preparation | topic branches and pull requests | `prepare_version.main` | people work on the same branches |
| Build receipts | staged payloads, receipts, uploaded artifacts | staging, receipt, `collect` | artifacts of earlier attempts |
| Verified images | input archives, output archive, registry tags | `merge_archives`, `publish_verified.main` | inputs rewritten while read; `latest` moved last |

Release runs share nothing but GitHub and the registry: the ledger file, tags,
branches, releases, artifacts and image tags.

## 2. Modules

| Module | Models |
|---|---|
| `Subscriptions` | owner registry, desired state, connection event, broker session |
| `LossyChannel` | abstract specification: a FIFO that loses a packet only to `Capacity` newer ones |
| `Dispatch` | deque, drain, delivery, stream inboxes; implements `LossyChannel` |
| `TopicAcl` | validation, containment, overlap, authorization, and what a stream forwards |
| `WebSocketStream` | one `/ws` connection from handshake to clean-up |
| `RetainedQuery` | overlapping retained queries, the broker's retained values, packets under way |
| `TopicStatistics` | the bounded LRU of topics heard |
| `Lifespan` | start-up, serving and shutdown over event loop, network thread and joining worker |
| `ReleaseLedger` | candidate and promotion runs over the ledger and the tags |
| `ApiReads` | one GitHub read with its attempts and the classification of their output |
| `InventoryReadback` | two paginated listings that must agree |
| `ReleaseTransaction` | tag, draft, uploads, inventory and PATCH, with others writing |
| `RunGate` | the wait for the release gate of the executing attempt |
| `PublicationSource` | source, default branch, workflows and superseding runs |
| `CandidateVerification` | four readers of a published candidate and the order of their checks |
| `BuildReceipts` | sync, build, stage, attest, upload, rerun, accept |
| `OciMerge` | walk, verification, copy and publication of a merged OCI archive |
| `ImagePublication` | version tags and `latest` in the registry |
| `ReleaseNotes` | the changelog scanner, sections, guidance, underlined headings |
| `VersionSync` | version inputs rewritten beside edits and kills |
| `VersionPreparation` | two operators and developers on the topic branches |
| `VersionProjection` | PEP 440 and Apple projections of the counters |
| `SubscriptionsProofs`, `DispatchProofs`, `WebSocketStreamProofs`, `LifespanProofs` | the theorems about the module they are named after |
| `GatewayProofs` | theorems about `TopicAcl`, `TopicStatistics`, `RetainedQuery` |
| `GitHubProofs` | theorems about `ReleaseTransaction`, `ApiReads`, `InventoryReadback`, `RunGate` |
| `PublicationProofs` | theorems about `ReleaseLedger`, `CandidateVerification`, `PublicationSource`, `ImagePublication` |
| `ArtifactsProofs` | theorems about `BuildReceipts`, `VersionSync`, `OciMerge`, `VersionProjection`, `VersionPreparation`, `ReleaseNotes` |
| `MC*` | values of constants that a cfg cannot write; composition of parts in one run |

Operators introduced by a comment "The bug of ..." are not used by any
specification. Each is a plausible defect of the definition that follows it, and
`PROJECT.json` names the property that detects it when it takes that
definition's place.

`MCGateway`, `MCGitHub`, `MCPublication` and `MCArtifacts` check several
components in one run. Those components share no state, so a product of them would
only multiply their states: the variable `part` is chosen once, one component runs,
and the others stay in one of their initial states. The modules are extended, not
instantiated: a run and the theorem that generalises it are about the same
definitions.

### Subscriptions

Every service call runs on the event loop. `MQTTClient.subscribe` and
`unsubscribe` contain no await that suspends, so everything under
`_subscription_lock` is one action: `Acquire`, `AcquireRejected` (paho refuses
because the link dropped after `is_connected()`), `ReleaseShared`,
`ReleaseLast`. A refused or disconnected request changes nothing and is a
stuttering step. The paho thread is `OnConnect`, `OnRefused`, `OnDisconnect`;
each changes `link` and appends to `loopQ`. `ConnectionChanged` runs one report,
resubscribing every desired topic. `broker` is the session as the broker will
hold it once it has read what paho queued on the same connection; the client
asks for no session expiry, so a lost connection loses it.

### Dispatch

`OnMessage` and `DrainTake` are the two critical sections of `_dispatch_lock`;
`DeliverMessage` is one round of the drain's loop. That loop does not suspend, so
the event loop's other actions need an empty `batch`, whereas `OnMessage` does
not. A consumer is a WebSocket callback with its inbox and overflow event.
`log`, `since`, `taken` and `accepted` are history variables. Oversized payloads
return early and are stuttering steps.

### TopicAcl

A topic is a sequence of levels; levels are words, `$` words, `+`, `#`, levels
with a wildcard among other characters, and levels that cannot be encoded. The
early-return loops are written as "a deciding level with only passing levels
before it". `topic_matches_sub` is paho's and is modelled from its use.

### WebSocketStream

An action runs from one await to the next. The finally block never suspends and
belongs to the action that leaves the try. `Cancel` raises at any await after
the first. Time is abstracted to `expired`; a time-out may fire whenever its
await is pending. The model has one stream; its subscriptions are the set of
topics it holds (`Subscriptions` is the model of many).

### RetainedQuery, TopicStatistics, Lifespan

A query has three steps, because nothing between two awaits is interruptible and
no holder of the subscription lock suspends: it is asked (callback, owner and
repeated SUBSCRIBE), packets are drained into its future, and it ends by answer,
time-out or cancellation with its clean-up. The broker answers every SUBSCRIBE
with the retained value of that moment. `promised` and `quiet` are history: whether
a packet that would complete the query is under way, and whether no earlier packet of
its topic was when it was asked.

The order of the `OrderedDict` is abstracted to the number of the message that
inserted a key last; `last` is history.

`Lifespan` has three threads. Reports and the result of the join reach the event
loop through one FIFO, `callbacks`, because `call_soon_threadsafe` is one; that
order is what makes "disconnect has returned" imply "no report is left". `Cancel`
may hit any await, the shielded one and the one behind it included.

### The ledger and the release transaction

In `ReleaseLedger` every request that writes is one action: create the branch,
reserve, advance the floor, create the tag, create the draft, publish. Between any
two of them the run may die (`Crash`), its response may be lost (`Answered`), and a
failed run may start again under the same run ID. The blob SHA identifies the
content, so a compare-and-swap succeeds exactly when the ledger equals the
snapshot. The read-only checks of run identity, receipts, signatures and asset
bytes are "the run may fail here"; they have modules of their own. One base version
is modelled, with RC candidates and byte promotion; `build_number_floor` is 0. The
variable `grouped` says whether the workflow's concurrency group is in force: chosen
initially, it decides whether a run may start while another is active.

`ReleaseTransaction` opens up one publication. What the engine learns of a create
call is separate from what the server did; other people add releases, replace
assets, edit and move the tag at any step. A listing is one read there;
`InventoryReadback` shows why two agreeing listings may be taken so.

### Readers of GitHub

`ApiReads`: an attempt is a `gh` process whose output (exit code, header blocks,
stderr class, truncation, kill) is any the server state allows; the classifiers of
`_read_get` are translated as predicates on it. `RunGate`: GitHub's reports lag, and
carried-over jobs of an earlier attempt are listed. `CandidateVerification`: each of
the four readers is a sequence of checks (`Order`), one request each, while others
replace assets or the manifest, move the tag or revoke authorization; `changed`
records when. `PublicationSource`: requests of the superseded, workflow-tree and
head checks interleave with pushes and changes of the default branch; content of
commits is immutable.

### Artifacts and versions

`BuildReceipts` follows payload bytes from build to acceptance: bytes are identified
by platform, attempt and whether they were altered, so a receipt speaks of exactly
one content. `OciMerge` walks real (small) graphs of indexes with the depth, count
and size limits, and others may rewrite an input at any step. `ReleaseNotes` keeps
the state of all scans of one changelog at once, so notes of any length are
covered; a line is its comment end, body and comment start. `VersionSync` makes each
read, comparison and `os.replace` a step. `VersionProjection` keeps the arithmetic
of the projections with the limits as constants.

## 3. Runs

| Run | Instance | Result |
|---|---|---|
| `subscriptions` | 2 topics, REST, one stream, one query, 3 faults | passes, 67,586 states |
| `dispatch` | 2 topics, 2 consumers, queues of 2, inboxes of 1, 4 packets | passes, 281,011 states |
| `stream` | 2 topics, queue of 2 | passes, 895 states |
| `lifespan` | 6 connection reports, 3 cancellations | passes, 6,323 states |
| `gateway` | ACL rules of up to 2 levels ("/#" among them) and requests of up to 3; 2 queries over 2 topics; 4 topics with room for 2 statistics | passes, 1,433,351 states |
| `github` | 2 files and 2 releases with 3 interventions; 3 read attempts; up to 6 releases on pages of 2 in 7 calls; 3 run attempts, deadline of 5 | passes, 175,711 states |
| `publication` | ledger: 2 candidates and 1 promotion racing, 3 and 1 serialized, 2 attempts each; candidate: 2 files, 3 changes; source: 4 commits, 2 branches, 3 changes; images: 2 destinations, 3 publishers, 1 push by hand | passes, 4,434,978 states |
| `artifacts` | receipts: 2 platforms, 2 attempts; archive: 11 blobs, 10 roots, 2 platforms; notes: any length; sync: 2 files, any subset of 4 declarations, 2 edits, 2 kills; preparation: 2 operators, 3 versions, 5 commits; projection: 3 plans, 2 runs, 4 attempts | passes, 1,928,213 states |
| `subscriptions_orphan` | 1 topic, REST only, 1 fault | violated: finding 1 |
| `release_first` | 1 candidate, 2 attempts | violated: finding 2 |
| `retained_foreign` | 2 queries of 1 topic, 2 values | violated: finding 3 |
| `notes_fence` | notes of any length, with fences after comments | violated: finding 4 |

Why the bounds are enough. Three faults allow a loss and a refusal behind it while
earlier reports are still queued. Four packets fill a deque of two, replace its
oldest packet and leave a drain with a full batch while the next fills. Two topics
let the second acquisition of a stream fail. Six reports allow a connection, a loss
and another connection both before and during shutdown; the third cancellation meets
a disconnect that has already been cancelled twice. Three candidates allow one
published, one in progress and one delayed at the same time, and two attempts let a
lost response be met again. Three interventions replace an asset together with the
manifest and move something else. Seven calls let two listings of three pages
exceed the limit. Two edits and two kills allow an edit of each file and a kill of
the repeated sync. The limits of the projections are scaled down so that every field
carries and every limit refuses. Bounds appear in guards only; the theorems of
section 5 hold for all their values.

Deadlock is checked for `subscriptions`. It is switched off where the modelled part
may really stop: all packets delivered, the stream done, all runs ended.

Fairness. `ConnectionChanged`, `DrainTake`, `DeliverMessage` and `RunCallback` are
weakly fair because the event loop runs what is scheduled on it; `OnConnect` because
paho's `loop_start` thread reconnects for ever and the broker is assumed to accept
in the end; the endpoint and the sender of a stream because each of their awaits has
a time-out or is answered by the server, its receiver and overflow watcher because
the event they wait for has happened when they are enabled. In `Lifespan` the
disjunction of `Established` and `ConnectTimeout` is fair (one of them ends
`wait_for`), and so are the end of the network thread once `loop_stop` has asked for
it, the join and the end of `disconnect`. `Attempt`, `GetPage` with `CallLimit`, and
`Step` of the gate are single-threaded loops whose requests have time-outs. Nobody is
assumed to subscribe, disconnect, expire, cancel, publish or send a packet, and no
request is assumed to succeed.

## 4. Properties

- `Subscriptions`: `RegistryAgreement`, `BrokerServesOwners`, `EventConverges`, the
  action property `OwnersDecide` (only owners make, and only the last one unmakes, a
  subscription) and the liveness property `OwnedTopicServed`.
- `Dispatch`: `SingleDrain` (no lost wake-up, no second one), `InOrder`,
  `NoSilentGap` (a consumer without its overflow event was handed, in increasing
  order, exactly the packets it wants of those delivered since it registered), the
  liveness property `NewestDelivered` and the refinement
  `ImplementsChannel`, which contains what the queues may lose.
- `WebSocketStream`: `HeldUntilTheEnd`, `ToldOnceAndLast`, `OneLateFrame` and the
  liveness property `StreamEnds`.
- `Lifespan`: `EndedForGood` (afterwards neither a thread nor a report is left that
  could connect the client again, unless `disconnect` itself was cancelled twice: the
  wait behind the shielded one is not shielded) and the liveness property `LifespanEnds`.
- `TopicAcl`: `ForwardsOnlyAllowed`, `OverlapExact`.
- `RetainedQuery`: `QueriesAreServed`: a retained packet on its way to a query stays on
  its way until it completes the query's future, and a query is not answered with a
  value older than its request unless a retained packet was already under way then. `TopicStatistics`:
  `KeepsMostRecent`.
- `ReleaseLedger`: `LedgerConsistent`, `PublishedOnce` without any serialization of
  runs, and `NoDowngrade` under the workflow's concurrency group. `NoDowngrade` does
  need the group: without it two runs can pass `begin_publication` in order and PATCH
  their drafts in the opposite order. `docs/VERSIONING.md` relies on the group too
  ("remains serialized through publication").
- GitHub: `OneOwnDraft`, `PublicIsExact`, `AnswersAreSound`, `AgreedIsComplete`,
  `GateReallyPassed`, and `WaitsEnd` for the three loops that wait.
- Candidate and source: `AcceptedIsEvidence`, `NothingStale`, `SourceIsCurrent`.
- Artifacts: `AcceptedIsAttested`, `OutputIsClosed`, `OutputIsVerified`,
  `LatestIsComplete`, `NotesAreReadable`.
- Versions: `SyncIsSafe`, `TopicNeverRegresses`, `BuildsAscend`.

### Findings

1. `MQTTClient.unsubscribe` skips UNSUBSCRIBE whenever `is_connected()` is false.
   After a loss and a reconnect within one stall of the event loop, a topic
   subscribed on the stale event and released between the two reports stays with
   the broker although nobody owns it (`subscriptions_orphan`). Its packets are
   still dispatched, and matched against consumers that do not want them.
2. `reserve_plan` creates the state branch and then writes the ledger. A first
   run that ends in between makes every later run fail with "restore it from
   history", although there is no history (`release_first`).
3. `receive` in `query_retained` accepts any retained packet of its topic. A query
   can be completed by the packet another query's SUBSCRIBE asked for, with a value
   replaced before the query was made, although the README calls concurrent queries
   independent (`retained_foreign`).
4. `release_notes` scans the masked text again for the Upgrade and Security sections.
   A fence on the line where a comment ends is ignored by the first scan and opens in
   the second, so that a heading inside a code example passes for a section
   (`notes_fence`). `NotesAreReadable` in `artifacts` is checked for changelogs
   without such a line.

An observation without a run: `_release_has_setext_heading` scans the raw section
from a fresh state (`release_control.py:1896`). `NotesAreReadable` covers it for
changelogs whose version heading opens no comment (`CommentOnHeading`); with one, the
two scans start differently.

## 5. Proofs

Every safety invariant and every action property that a passing run checks is a
theorem, for every value of the constants that satisfies the named assumptions of the
modules. The bounds that make the runs finite (`MaxFaults`, `MaxMessages`, ...) are
arbitrary natural numbers in the proofs. Each theorem about a specification rests on
an inductive invariant, a lemma per action that keeps it, and one step of temporal
logic.

### The gateway

- **Subscriptions.** `IInv` is the conjunction of the type invariant and the three
  safety invariants; none of them is inductive alone. A release needs
  `RegistryAgreement` to know that nobody else is served; `BrokerServesOwners` after a
  reconnect needs `clientSubs = subs`, and across a queue of reports it needs
  `EventConverges` to know that a live link without a "connected" report has been
  reported. `OwnersAlwaysDecide` is the action property, from the same invariant.
- **Dispatch.** `IInv` joins types, `SingleDrain`, `BoundedQueues` and `InOrder`.
  Order across the hand-over needs "everything in `log` precedes `batch`, which
  precedes `pending`, and no number exceeds `accepted`". `Refinement` maps `inFlight`
  to `batch \o pending`: a packet that overflows the deque is the removal of the first
  element behind `batch`, a drain is a stuttering step. `GapsNeverSilent` needs
  `GapInv`: what a consumer was handed is, element for element, what it wants of the
  log since it registered, and the message queue is an end of the log.
- **TopicAcl.** `ContainmentSound`, `OverlapComplete` and `OverlapSound` are about
  filters and topics of any length over any alphabet. `StreamsRespectAcl` combines the
  first two: every filter a stream holds was allowed, hence every topic it matches is.
  `OverlapSound` builds the common topic of two filters that `filters_overlap`
  reports, level by level. It has one exception, found as a proof that would not go
  through: "/#" and "+" have only the empty name in common, which no broker accepts;
  `filters_overlap` reports them, and a block rule "/#" thus refuses "+" although no
  topic is shared. `OverlapExact` names that pair, and the instance has the rule "/#".
  `BlockingIsExact` assumes that requests may be any topic and that there is a
  non-empty word; the common topic is one of them.
- **TopicStatistics.** `OrderIsRecency`: the order of the dictionary is the order of
  last use. Evicting the first key then evicts the least recently heard topic.
- **RetainedQuery.** `QueryIInv` says that values age only forwards, that what was
  promised to a waiting query is under way or has arrived (`Promises`), and that
  nothing under way to a query asked in a quiet moment is older than the query
  (`NothingOlder`).
- **WebSocketStream.** The invariant follows the endpoint's life in five parts:
  before anything is held, while it is open, what is released at the end, what the
  client was told, and which frame may be late. The point of the strengthening is
  `acquired`: a topic enters it right after it is held, with no await in between, so
  that cancellation at any await releases exactly what is held.
- **Lifespan.** The invariant orders `callbacks` ("stopped" is the last entry and is
  queued only when the thread has ended), relates worker and thread, and says that a
  lifespan that has ended, with less than two cancellations inside `disconnect`,
  waited for "stopped".

### GitHub

- **ReleaseTransaction.** `OwnWork`: only what this run's POST made has the request's
  fields or is worked on. `ChecksHold`: what the last inventory and tag checks
  established stays until others disturb it. Assumed: `Files` is finite and does not
  contain `Extra`, the name that stands for assets nobody asked for.
- **ApiReads.** `AnswersAreSound` is inductive as it stands; the work is in the
  classification of one attempt's output (`AttemptIsSound`).
- **RunGate.** `Trustworthy`: a fresh success in a listing was executed by this
  attempt, and the first attempt has nothing to carry over; it holds of what GitHub
  would list now and of what the last poll returned.
- **InventoryReadback.** While the first listing is read (`FirstPages`): as long as
  nothing it recorded was deleted, its pages were full and every release that stayed
  and was not seen is older than all it has. So an unseen release can only be skipped
  by a deletion of one that is recorded; the second listing cannot have that one, and
  the listings differ (`FirstDone`). Therefore agreement of the second listing with
  the first is enough, although neither is a snapshot. `NewerAreFewer` is the counting
  lemma behind it.

### Publication

- **ReleaseLedger.** The invariant says that plans in the ledger are numbered without
  repetition up to the counter, that a plan drawn from a snapshot is new with respect
  to that snapshot, that a run behind verification holds the ledger's own plan for
  it, and that a run behind `begin_publication` is at or below the floor. The
  compare-and-swap is what carries "new with respect to the snapshot" to "new with
  respect to the ledger". `LedgerStaysConsistent` and `EachPublishedOnce` need no
  serialization. `NeverDowngrades` adds `GroupInv`: with the group one run is active at
  a time, its number is the floor while it publishes, and nothing public is above it.
- **CandidateVerification.** `CandidateInv` states what the checks passed so far have
  established (`ContentProved`, `StillInOrder`), each with the change that may have
  undone it since; an asset under a listed ID has the listed bytes (`SameUnderId`).
- **PublicationSource.** `SourceInv` has a clause for each request whose answer a
  later step relies on: the newer run that replaces this one, the workflow tree, the
  tag, the head.
- **ImagePublication.** `RegistryInv` is about the commands a publisher has still to
  run: checks come before copies, and a copy to `latest` follows the copy of the
  version in every destination or finds it there (`Backed`). Assumed: tag content 0
  stands for "no such tag" and differs from every release.

### Artifacts and versions

- **BuildReceipts.** `ReceiptsAreTruthful`: every receipt, written or uploaded, names
  payloads of its own attempt and platform that carry the plan.
- **VersionSync.** `SyncInv`: a file still to be rechecked or replaced is as it was
  read unless others edited; the file just compared differs only if it was edited
  late; computed edits agree with each other.
- **OciMerge.** `Explores`: the digests opened so far and those on the stack contain
  the root and the children of every opened index, and lie in every closed set that
  contains the root. With the stack empty they are the reachable ones, for any acyclic
  content (an index names smaller digests, as a hash graph allows). That the unpacked
  size is a number, a recursive function over the layers, is shown by taking the least
  counterexample.
- **VersionProjection.** `ProjectionInv` gives every plan the build, nightly or
  sequence number its strings come from; `AppleAscends` and `NightlyAscends` are the
  arithmetic of carries, for any widths of the fields.
- **VersionPreparation.** `GraphOK` describes the commits (ancestors are older, no
  commit has less of the default branch than an ancestor); `OperatorOK` what an
  operator at "push" still knows of the topic it verified earlier, after any pushes and
  merges by others.
- **ReleaseNotes.** `ScansAgree`: scanning masked text again yields the same
  eligibility, guidance and fence as the first scan. `NotesInv` then makes the state of
  the second to fourth scans a function of the first and of what a reader sees.
  Assumed: neither of the two kinds of line where the scans disagree (finding 4 and the
  observation after it).

### What is only model-checked

The liveness properties `OwnedTopicServed`, `NewestDelivered`, `StreamEnds`,
`LifespanEnds` and `WaitsEnd`: fairness and ENABLED are out of this prover's reach.
The four violations are counterexamples and need no proof.

## 6. Plan

Done, in order of importance: subscriptions, dispatch and its refinement, the ACL, the
stream, the ledger; retained queries, statistics and lifespan; the release
transaction, reads of GitHub, the gate, source and candidate; receipts, archives,
images and notes; version synchronisation, preparation and projection; theorems for
every safety and action property of all of them.

Open:

1. Abstract specifications beside `LossyChannel`: the ledger as a counter that hands
   out each number once, the registry as a set of complete releases, each with its
   refinement proved.
2. A composition of several streams over `Subscriptions` and `Dispatch`, with the
   abstract specification "a stream sees what its topics receive from ready to close".
3. Runner preflight and change scope as decision tables; assembly of a native
   archive.

## 7. Not modelled

Password hashing, JWT encoding, TLS contexts and certificate stores are libraries
without state of the gateway's own; of login only expiry appears, as a stream meets
it. Publishing is one guarded call that changes nothing in the gateway. Payload
decoding, JSON shapes, logging and metrics carry no decision that a property here
depends on. Archive formats, manifests, signatures, labels and workflow YAML are data
whose check either lets a release run continue or ends it; that outcome is in the
model, the format is not. Runner preflight, packaging, fuzz evidence and metadata
writers are sequential I/O without shared state. Selectors and schemas of version
files, and indented code and containers in release notes, are left out of the
modules that model the rest of their component.

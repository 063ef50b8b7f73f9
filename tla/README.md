# TalaDB: specifications and proofs

TLA+ models of the parts of TalaDB whose correctness depends on the order in
which things happen, the TLC runs that check them on small instances, and
theorems about them checked by TLAPS. TalaDB is an embedded document and vector
database: an engine in Rust, bindings for browsers, Node, C and React Native, a
TypeScript client, and a React layer that keeps a local collection in step with
an application's backend. What is modelled are the places where several actors change
the same state with awaits between: the React query layer's writes and reads, the
web worker that shares one database between browser tabs, the change webhook, the
polling subscriptions of the client, and the document versions that let builds of
different ages share a collection.

Paths below are relative to the repository; `query/` stands for
`packages/clients/react/src/query/`, and `worker.js` for
`packages/bindings/web/worker/taladb.worker.js`, and `index.ts` and `webhook.ts` for
the files of that name in `packages/clients/taladb/src/`.

## 1. Inventory

| Component | State it keeps | Operations | What is hard | What makes it correct |
|---|---|---|---|---|
| Sync envelope, queued writes (`query/envelope.ts`, `mutate.ts`, `canonical.ts`, `useSyncStatus.ts`) | nine `_` fields on each document: `_sync`, `_op`, `_revision`, `_changed_at`, `_retry_at`, ... | insert, update, delete, retry, discard | read, await, write: no write is conditional on what was read | no write lost in silence; a settled document agrees with the server |
| Drain (`query/drain.ts`, `send.ts`, `endpoint.ts`) | requests in flight | select, send, check, settle, defer | edits during a request, lost replies, reloads, two tabs | the same, and order per document; queued writes leave the queue |
| Scheduling (`query/context.tsx`) | `runningRef`, `queuedSinceDrainRef` | request, threshold, tick, hide, reconnect, run | requests declined while a cycle runs | what is queued is sent in the end |
| Immediate writes (`query/useMutation.ts`) | none between calls | send, then store | partial failure, no body, documents that are queued too | nothing is shown that nobody wrote or confirmed |
| Hydration (`query/hydrate.ts`) | one chain of hydrations per collection | read, refresh one by one, insert | stale responses, writes in between | queued work survives a response |
| Query reads (`query/useQuery.ts`, `inflight.ts`, `queries.ts`) | shared requests, query records, timers | fetch, share, revalidate, forget | aborts racing joins, timers racing mounts | one fetch serves all; a mounted query is not forgotten |
| Web worker (`worker.js`, `packages/clients/taladb/src/index.ts`) | lock, epoch, queue, pending requests, snapshot | init, command, flush, close, take over | owners end at any moment; timeouts; storage that fails | all tabs together are one database |
| Live queries (`index.ts`, `packages/clients/react/src/useFind.ts` and its siblings) | pollers, the snapshot shown | subscribe, poll, nudge, unsubscribe | answers after the filter changed; a generation noted before its query | the last change is seen, and only the own filter's |
| Schema versions (`index.ts`, `applySchema`) | `_v` and `_changed_at` on documents | stamp, upcast, write back, guard | write-backs applied over other builds' work | edits and newer fields survive |
| Webhook (`webhook.ts`) | bounded queue, chains, retries | emit, deliver, flush | post-images read after the commit, overflow | events of a document in order; the endpoint ends with the collection |
| Engine: collections and indexes (`packages/core/src/collection.rs`, `index.rs`) | tables in one transaction | document and index operations | index maintenance on every path | index entries equal documents |
| Engine: durability (`engine.rs`) | redb tables, commit mode | commit, flush, export, restore | crash with eventual commits | a prefix survives |
| Engine: watching (`watch.rs`) | bounded channels, write generation | notify, next | a full channel | an event carries nothing, so a full channel loses none |
| Engine: migrations (`migration.rs`, `migrate.rs`) | `user_version` | apply | crash between two | each commits with its number, so each is applied once |
| Engine: vector indexes (`vector_api.rs`, `vector_graph.rs`) | build sessions, segments | begin, step, cancel, publish | writes during a build | the published graph covers the documents |
| Engine: text search, queries, aggregation, values | none | pure | | |
| Bindings, command line | none of their own | marshalling | | |

How they interact. A mutation hook changes the local collection (envelope,
local store) and asks the scheduler for a drain cycle; a cycle picks queued
documents and sends each to the backend; replies and query responses are written
into the same collection, each by its own read and its own later write. Tabs
share the collection through the worker that owns the storage, and only the tab
that owns it drains. A query reads the record of its key, asks the backend once for
all hooks of the key, and has the answer hydrated into the collection. Live queries
learn of writes by polling, in the browser nudged by the worker. A webhook wraps a
collection and reports what its mutations changed. Builds of an application share a
collection through the version each document carries. The application's
backend is external: it is modelled as
the query layer relies on it, upserting or strict, answering with the four
outcomes of `query/types.ts`.

`PROJECT.json` lists every component with its status, every hazard with its
line, and the source lines each definition stands for.

## 2. The modules

### The write path

`Envelope`, `LocalStore`, `Backend`, `LocalWrites`, `DirectWrites`, `Drain` and
`Hydration` each model one part; `WriteQueue` composes them over one collection.

- **`Envelope`**: what a document is. Application fields are abstracted to the
  *content*, the set of edits a document carries, so that merging and replacing
  mean something without modelling fields. `StampPending`, `StampSynced`,
  `Coalesce` and `PendingOp` are the functions of `envelope.ts` and `mutate.ts`.
- **`LocalStore`**: the collection, the `_changed_at` order (`rank`), and the
  revision counter. Each operation is atomic; everything between two is an await.
- **`LocalWrites`**: `writeLocal`. An insert is one step. An update, a delete and
  a discard are two: `FindExisting` or `FindDiscarded` reads the document into
  `call[w]`, and `CommitWrite`, `CancelInsert` or `Discard` writes it from what
  was read. `Retry` is decided from a list that may be out of date (`Decide`).
- **`DirectWrites`**: `sendThenStore`: the server first (`DirectAnswered`), then
  `writeConfirmed`, with its own read and write, or the fallback when there is no
  body. `DirectRetried` is `attemptWrite`, which sends the same request again
  wherever the attempt before it failed, `DirectLost` the error of the last one.
- **`Backend`**: the external server and network. A request is taken or lost, its
  reply is delivered or lost, and a request whose page is gone can still arrive
  (`stray`), even after later ones. `Upsert = FALSE` is a server that answers 409
  to an insert of an existing row and 404 to an update of a missing one.
- **`Drain`**: `drainOnce` and `sendOne`. `Begin`, `Select`, `Received` or
  `Refused`, `Check` (the comparison of `_revision`, drain.ts:133-142), `Settle`
  (the write of the reply, an await later), `TransportFailure`, `End`; `Reload`
  forgets every request of a tab; `OwnershipMoves` is the takeover of the storage.
- **`Hydration`**: `FetchAnswered` snapshots the server's rows; `responses` are the
  answers on their way and those that wait in the chain of `hydrate`, in any order.
  `HydrateRead` takes the next, and decides from one `find` which documents are idle,
  `HydrateDoc` refreshes one document per step, `HydrateFresh` inserts the new ones in
  one commit.
- **`WriteQueue`**: composition, fairness and properties. `made`, `accepted`,
  `abandoned`, `served` and `raced` are history variables. `raced` holds the edits
  that were committed while another actor stood between its read and its write of
  the same document, in one of the ways that can undo an edit (`AtRisk`): the code
  has no conditional write, so such an edit can be lost, and the properties say
  that nothing else is.

### `DrainScheduler`

One tab's `QueryProvider`: when a cycle starts. `Ask` is the hook's call of
`requestDrain` or `noteWrite` after its commit; `Tick`, `Hide`, `Reconnect` are
the effects; `Run` is `runDrain`, which declines while a cycle runs and does not
remember; `Select` .. `End` are a cycle in less detail than `Drain` gives it.

### The shared database

- **`SharedDatabase`** is the abstract specification: one database, each request
  taking effect at one instant between being asked and being answered ok, a refused
  request having none, writes that stay unless durability is eventual, and a flush
  that makes everything safe.
- **`WorkerOwnership`** is the worker of each tab: `init` (`InitAlone`,
  `InitOther`, `InitOpens`, ...), the queue of 128 places (`MaxPending`), commands
  carried out by the owner or forwarded (`Forward`, `Timeout`), the channel
  (`OnOwner`, `OnResponse`, `OnRequest`), the takeover (`LockGranted`, `TakesOver`),
  the snapshot (`Saving`, `SaveDone`, `SaveFails`, `TimerFires`), `Close` and
  `Crash`. A worker owns the storage at most once, so a worker names its epoch.
  The lock's holder is the only one with a database in memory because
  `disposeOwner` runs before the lock's callback returns, so one record `db` stands
  for it. Messages to one worker arrive in the order they were posted, and any
  amount of time later.

### `QueryReads`

`useQuery` with `inflight.ts` and `queries.ts`. A *hook* is a place where a component
is mounted on a key; it makes *calls* of three kinds, each of which awaits one
request: the effect's (`Mount`, `ReadRecord`), a trigger's (focus, reconnect, poll)
and `refetch`'s. A *run* is a request of `runShared`: `slot` is the map of keys to
requests in `inflight.ts`, `Join` and `Start` are its two branches, `Leave` what a
caller's abort does to the count, `Refetch(h, TRUE)` is `cancelShared`. A run asks,
updates its record, and inserts one where there was none (`Answered`,
`UpdateRecord`, `InsertRecord`), each an await after the other; it can be rejected
before (`Rejected`) or fail in the store (`Refused`). An effect whose key has changed
before its record was read is `late`: an answer it drops, but a read that fails sets
the new key's status to idle (`LateReadEnds`). `TimerFires` and
`ForgetRecord` are the forgetting timer and the delete it starts. A result set is
the number of changes the server had made when it was read; whether a record counts
as stale, and whether the device is online, is left open. A place is mounted again
only when its calls are over, and one trigger and one refetch are outstanding for
each. `alone` is a history variable.

### `Webhook`

`wrapCollectionWithWebhook` and the dispatcher of `webhook.ts`. A document is the
number of commits that touched it and whether it is there. A mutation resolves its ids
(`Resolve`; inserts know theirs) and commits (`InsertDocs`, `CommitUpdate`,
`CommitDelete`); an insert and an update then read the post-image (`ReadImages`). What
the engine does for a call and what the client does with its answer (`Report`, which
queues the events) are two steps, because answers need not come in the order of the
work. The variable `inOrder`, which no step changes, says whether they do: the browser's worker answers one message after
the other, and the React Native client queues its calls (index.ts:1257-1280), but on
Node `find`, `updateOne` and `deleteOne` are tasks of the libuv pool
(index.ts:1109-1118, `bindings/node/src/lib.rs:714-790`). `ahead` holds the answers
that come before a write's. Any call may reject, before the commit or after it
(`Rejected`: the read fails, the snapshot is not saved, the owner changes).

`Emit` is the bounded queue; `chains` is the map of promise chains; `Send`,
`Delivered`, `Refused` and `Errored` are `deliver`, with its attempts. The endpoint is
external: it honours the Idempotency-Key (`heard`) and stores the post-image in `copy`;
a request the client gave up can still arrive. `told` (the latest commit an event of a
document tells of), `crossed` (documents with an event queued behind a later one's),
`owed` (documents whose last change no last event reports) and `given` (events that
failed) are history.

### `LiveQuery`

`nudgedPoller` and `makePoller`, told apart by `platform`, under the one
subscription that `useFind`, `useFindOne` and `useAggregate` each are. A poll is
three steps at most: `AskGeneration`, `Query`, `Answer`, with the reading of the
engine and its answer apart. The generation is the owner's epoch and its write
counter, which starts again with a new owner (`Failover`). `Render` is the render with
another filter, which is given the snapshot there was; `Subscribe` is its effect, which
ends the subscription of the filter before and makes the hook load. Until then
`Subscribed` is false. React runs the effects of a render before the next one.

### `SchemaVersions`

`applySchema`. A shape is one field named by its version, and a migration computes
its field from the one that the document's version names. `Insert` stamps, `Update`
changes the fields without a stamp, and both `Update` and `Delete` are guarded against
documents of newer builds (`Writable`); `Read` upcasts and, with `persistMigrations`,
leaves a write-back outstanding, which `WriteBack` applies later if version and
`_changed_at` still match. `clock` is the millisecond, which several changes may
share; `last` is history.

### Models for TLC, and proofs

`MCWriteQueue`, `MCWorkerOwnership` and `MCSchemaVersions` add symmetry sets and
constants that are functions. The theorems and their proofs are in modules of their
own: `WriteQueueProofs` and `NoSilentLossProofs` about the write path,
`DrainSchedulerProofs`, `WorkerOwnershipProofs` (which holds the refinement of
`SharedDatabase`), `QueryReadsProofs`, `LiveQueryProofs`, `WebhookProofs` and
`SchemaVersionsProofs` each about the module it is named after.

Definitions introduced by a comment "Fault:" are variants with a plausible
mistake. Nothing uses them; each is listed in `PROJECT.json` with the definition
it stands in for and the property that fails when it does, which shows that the
property depends on that code.

## 3. What is checked

### Runs that pass

| Run | Instance | Properties | Distinct states |
|---|---|---|---|
| `write_queue` | 1 document, 2 callers, 2 tabs with a fixed owner, 2 edits, with and without a route; insert, update, delete, retry, discard | `TypeOK`, `NoSilentLoss`, `Converged`, `PerDocumentOrder` | 1.7 M |
| `handoff` | 2 tabs, ownership moves, one stray request | `NoSilentLoss` | 0.8 M |
| `immediate` | immediate and optimistic inserts and updates, retries, 1 response at a time, an upserting server | `ShownIsAccountedFor` | 2.9 M |
| `progress` | 1 caller, 2 documents, batches of one, a strict server that never gives one of the documents a definite answer | `QueueDrains` | 76 K |
| `scheduler` | 2 documents, interval policy, threshold 2, all kinds of writes | `TypeOK`, `CounterCoversBacklog`, `QueueEmpties` | 20 K |
| `ownership` | 3 tabs, a write and a read, queues of 2, both storages, both durabilities | `TypeOK`, `OneDatabase`, `FencedByEpoch` | 1.2 M |
| `ownership_live` | 2 tabs, a write, a read and a flush, storage that fails | `OneDatabase`, `Answered`, `SavedInTime` | 0.4 M |
| `query` | 1 component, 2 keys, 2 requests at a time, 2 calls, 1 change of one key, 1 timer for each key | `TypeOK`, `WaitersCounted`, `OneRequestPerKey`, `RequestsHaveTakers`, `FetchingHasCall`, `AbortedByTheLast`, `RecordMonotone`, `FetchingEnds` | 1.1 M |
| `webhook` | 2 documents, one of them stored at first, 2 writers, a queue of 2, 1 retry, 3 commits, answers in order and in any order | `TypeOK`, `Accounted`, `Converges`, `EventsInOrder`, `NeverOvertaken`, `Drains` | 0.6 M |
| `live_query` | 2 filters, 2 results, 2 pollers, one write, one change of owner, one failure | `TypeOK`, `ShowsOwnFilter`, `SkipsWhatItHas`, `CatchesUp` | 1.4 M |
| `schema` | 1 document, builds of versions 0 to 3, 2 reads, 4 edits, 3 milliseconds | `TypeOK`, `Readable`, `VersionsGrow`, `EditsCarried`, `NewerFieldsKept`, `NewerUntouched` | 1.9 M |

What they show:

- **`NoSilentLoss`**: an edit the user saw committed stays queued until the server
  has taken it, the user gave it up, or it fell into another actor's window.
  Reloads, lost replies, retries and changes of owner lose nothing. That refetches do
  not either is proved (section 4); the runs of the queue have none, for their size.
- **`Converged`**: a document that is settled, and had no edit given up or raced,
  is the same on device and server. It assumes an upserting server and no request
  that arrives after its page has gone.
- **`PerDocumentOrder`**: the server takes the writes of one document in the order
  they were made, under the same assumption, and with one tab that drains.
- **`ShownIsAccountedFor`**: no document shows content that was neither written
  here nor confirmed by the server, however an immediate write fails and whether or
  not it is retried. This is so with a server that upserts: a strict one answers an
  insert of a row it has with a 409, which `sendThenStore` takes for success
  (useMutation.ts:553, 565-568), and the document then shows what nobody took.
- **`QueueDrains`**: a queued write that has a route is confirmed or parked; another
  document whose every attempt fails does not keep it out of the batch.
- **`CounterCoversBacklog`**: the flush counter never falls behind the writes that
  no cycle has come past, so the threshold can do its work.
- **`QueueEmpties`**: under the interval policy, in the tab that owns the storage
  and while the connection stays up, what is queued leaves the queue.
- **`OneDatabase`**: the workers implement `SharedDatabase`. With it hold the
  guide's statements that reads issued after an awaited write see that write
  (docs/guide/web.md:442), that default durability acknowledges a write only when
  it is in the storage (455), and that `flush` is the durability barrier (457).
  The refinement mapping takes as the writes in effect those in the owner's memory
  when durability is eventual and those in the storage otherwise.
- **`FencedByEpoch`**: a forwarded request takes effect at the owner it was sent to
  or never.
- **`Answered`**: every request is answered, whatever happens to owner and channel.
- **`SavedInTime`**: an eventual write in the IndexedDB snapshot becomes durable
  without a flush, unless its owner ends or a save fails first.
- **`WaitersCounted`**, **`OneRequestPerKey`**, **`RequestsHaveTakers`**,
  **`AbortedByTheLast`**: the reference count of `runShared` is exact however callers
  join, leave, fail and are cancelled; a key has one request out beside those a
  refetch cancelled; a request that nobody cancelled has someone to deliver to, and
  is aborted by the last who leaves and by nobody else.
- **`FetchingHasCall`**, **`FetchingEnds`**: no component shows "fetching" with nothing
  under way, and none does so for ever.
- **`RecordMonotone`**: a record goes back to older results only through a request that
  a refetch cancelled, or one begun beside it.
- **`Accounted`**: the counters and the chains of the webhook agree at every step, so
  that the bound of the queue and `flush` mean what they say.
- **`Converges`**: when all is quiet, the endpoint has the collection, but for the
  documents with a change that was dropped, failed or not reported (its call rejected
  after the commit, or its ids drifted), or reported behind a later one. Concurrent
  writers, post-images that tell of a later write, and repeated requests do no harm;
  nor do answers out of order, on Node, but for the documents whose last event is one
  of those.
- **`EventsInOrder`**: where the engine's answers come in the order it worked, no event
  of a document is queued behind that of a later commit. On Node some are (below).
- **`NeverOvertaken`**: on every runtime, what goes back at the endpoint was queued out of
  order or given up: delivery keeps the order of the queue. With `EventsInOrder`, the
  events of a document arrive in the order of its commits where answers come in order.
- **`Drains`**: the queue becomes empty; no chain stays behind an event that fails.
- **`ShowsOwnFilter`**: from the effect of a render on, what a live query shows as loaded
  is the filter's it was rendered with, whatever answers come in late. The render
  itself is another matter (below).
- **`SkipsWhatItHas`**: a poll that skips its query because the generation is
  unchanged would have brought nothing new, over changes of owner too, unless its last
  query failed.
- **`CatchesUp`**: once writes stop, a mounted live query shows what its filter matches,
  without nudges, unless its last query failed.
- **`Readable`**, **`VersionsGrow`**: a document always has the field its version names,
  and its version never goes back while it stays.
- **`EditsCarried`**: a write-back carries the last edit over to the newer shape, except
  an edit in the same millisecond as the change before it.
- **`NewerFieldsKept`**, **`NewerUntouched`**: no build removes a field of a newer shape,
  and none that knows of versions changes a document newer than itself.

### Bounds

One document suffices for the safety of the write path: no step of it relates two
documents except the batch limit and the hydration's order, and those are covered
by `progress` (two documents) and by the freedom of the order in which documents
are refreshed. Two edits are the least that can race, coalesce and cancel; two
callers and two tabs the least that can interleave; one stray request the least
that can be overtaken. `MaxEdits`, `MaxStrays` and `MaxWrites` bound counters only.
Workers, requests and ownerships of `WorkerOwnership` are finite by themselves: a
closed tab that is opened again is another worker. Three workers are needed for an
owner to change under a tab that does not become the owner; a queue of two places is
full while one job is in progress. Symmetry is used over documents, callers and
tabs in the safety runs, never with liveness.

One component suffices for the sharing of requests, since its effect, its trigger and
its refetch are three callers of `runShared`; two keys are needed for it to change
key, two requests for a cancelled one beside its successor. The theorems cover any
number of each. The webhook's queue of two is full with two documents of one
mutation; two writers race on one document; one retry is what a late request can
arrive after; three commits let a later event make good what an earlier one did not
tell. One document suffices for the schema versions, whose write-backs are
made one document at a time, and four versions for a build that is older than one
writer and newer than another, with a build that knows of none.

Deadlock is checked in `query` and `live_query`, where something can always happen.
In the other systems everything may be done, or the bounds reached, with nothing
left to do.

### Fairness

*Write path.* The drain is asked for again and again (strongly fair `Begin` and
`Select`: reloads and other cycles may interrupt), a cycle's own steps go on, and
the back-off's time passes. `Received` and definite answers are strongly fair for
`Answerable` documents only: a write sent again and again is answered some time.
A fetch that hangs for ever is excluded, and has to be: `send.ts` sets no time
limit, and one hanging request holds its cycle for ever. Nobody owes another
write, a retry, or a reload.

*Scheduler.* Timers fire, hooks run, cycles go on. `Hide`, `Reconnect`, `TakeOver`
and further writes are not fair.

*Workers.* Event loops turn, the browser grants a free lock to some waiting worker
and ends every transaction, and timers fire. Issuing, closing and crashing are not
fair, and neither is `init` of a new tab.

*Reads.* The database answers reads, and requests end: the network's and `queryFn`'s
promise, as `useQuery` sets no time limit. Users, timers and triggers owe nothing.

*Webhook.* Engine calls return or reject and requests end, which the runtime's own limits see
to. The endpoint need not accept anything.

*Live queries.* The engine answers or fails, React runs the effects of a render, and poll
timers fire; nudges are not fair, writes
and subscriptions neither. The schema versions have no fairness.

### Runs that fail, and why

One statement of the sources is refuted by a counterexample.

- `claim_first_snapshot`: index.ts:958-960 says that the first snapshot is always
  delivered, as docs/api/collection.md:497 does. `nudgedPoller` notes the generation
  (985) before it makes the query (991). If that query fails, the generation stays
  noted, every later tick finds it unchanged, and nothing is delivered until the next
  write.

Other divergences met while modelling, which no run is spent on.

Of the write path:

- drain.ts:137-139 says that "the local edit wins and stays queued". `sendOne`
  compares the revision and writes the reply in a later await; an edit between the
  two is replaced by the reply, marked synced, and lost.
- mutate.ts:80 says an insert cancelled by a delete is one "the server never saw". It
  may be in flight, or have landed with its reply lost: the row then stays on the
  server.
- drain.ts:147-149 takes a 409 to mean the write has landed. An insert whose reply was
  lost, and that was edited since, is sent again as an insert; its 409 settles the
  document and the edit is never sent.
- types.ts:165 says `auto` sends a write as soon as it commits. A cycle asked for
  while another runs is declined (context.tsx:197), and nothing asks again.
- hydrate.ts:19-20 promises that a response never overwrites unsynced work;
  `hydrateOnce` decides from one read (90-94) and writes later (113).
- envelope.ts:64-66 says `stampSynced` is applied to no pending document;
  `writeConfirmed` (mutate.ts:121-135) applies it to whatever it reads.
- A retry after a discard queues a document without an operation
  (useSyncStatus.ts:92): every attempt to send it is a GET with a body, which
  fetch rejects, and it is deferred for ever.
- drain.ts:86-87 says the writes of a document stay ordered; a keepalive or
  abandoned request can arrive after a newer one.
- A document without a route is picked and left (drain.ts:110-114), still the
  oldest: enough of them fill every batch, against "every eligible queued write"
  (drain.ts:52).
- Under `auto` a write made on a tab that does not own the storage is sent by
  nobody until the owner's next cycle (drain.ts:71-74), and a write that backed
  off has no timer (drain.ts:188-202).
- A threshold reached while a cycle runs flushes nothing when the cycle ends
  (types.ts:177, context.tsx:197), and a threshold flush does run while offline
  (context.tsx:236 says it does not).
- docs/guide/web.md:444 says a waiting worker acquires the lock and opens the
  storage. With its queue full it gives the lock up for good (worker.js:47, 254).
- A tab that says hello while the owner is still opening is not heard
  (worker.js:91): its `init` waits thirty seconds, fails, and the tab's worker is
  terminated, though the owner is there.
- query.md counts eight reserved fields; the code has nine. `watchUntilSynced`
  reports a discarded write as synced and never reports a delete
  (useMutation.ts:390-423).

Of the reads:

- A trigger's or a refetch's answer for the key a component had before is patched into
  it after its key has changed (useQuery.ts:533, 581-582, 881-884), against 293-298.
- A component's forgetting timer deletes the record of a key that another component
  still shows (useQuery.ts:394-399, against types.ts:369).
- A fetch paused by being offline, with data still fresh when the connection returns,
  stays `paused` (useQuery.ts:577-579, against types.ts:362-363).
- A caller can join a request whose signal was just aborted, and ends idle with no
  data (useQuery.ts:536-538). Requests of focus, reconnect and poll outlive unmounting
  (344-346).
- A request that a refetch cancelled while it was storing its answer still stores it,
  over a newer record; `RecordMonotone` excepts it.

Of the schema versions:

- docs/api/schema.md:128 says `_v` is stamped on every write. Updates do not stamp:
  one in the new shape to a document not migrated yet is recomputed by its migration.
- Changes in the same millisecond are the same to the write-back's guard, which can
  lose an edit.
- The comment of `applySchema` (index.ts:110) says aggregate is not covered, while
  438-443 normalizes it.

- A read made by the effect of a key the component no longer has looks at its signal
  only after it succeeds: one that fails sets the component to idle while the fetch of
  its new key is under way (useQuery.ts:654-683).

Of the webhook:

- docs/api/webhook.md:42-44 says that the events of a document always arrive in the
  order they happened, and 174 that all runtimes behave alike. On Node `find`,
  `updateOne` and `deleteOne` are tasks of a thread pool: the answer of a post-image's
  read can come after that of a later commit, and the older document is queued, and
  arrives, behind the later event. The endpoint may be left with a document that is
  deleted, or with an older one. This is what `crossed` and `owed` except.
- A call that rejects although it has committed (the post-image cannot be read, 537;
  the snapshot is not saved or the owner changes, worker.js:178) sends no event.
- `close` and `flush` (index.ts:1567-1573) do not wait for committed mutations whose
  post-image is still being read.
- A late request of a failed event may arrive after later ones. Dispatchers of several
  tabs are not ordered. A document inserted between the pre-image of a `deleteOne` and
  its delete is deleted with no event.

Of the live queries:

- useFind.ts:41-42 says that the caller sees loading and then data when the filter
  changes. Loading is set when the effect subscribes (45); the render before it is given
  the old filter's documents as loaded. `useFindOne` (36) and `useAggregate` (49) do the
  same.

## 4. What is proved

| Theorem | Module | Statement |
|---|---|---|
| `WriteQueueTypes` | `WriteQueueProofs` | `Spec => []TypeOK` |
| `NothingIsMadeUp` | `WriteQueueProofs` | `Confirming => (Spec => []ShownIsAccountedFor)` |
| `QueueLosesNothing` | `NoSilentLossProofs` | `Upserting => (Spec => []NoSilentLoss)` |
| `QueueKeepsOrder` | `NoSilentLossProofs` | `Undisturbed => (Spec => PerDocumentOrder)` |
| `DevicesConverge` | `NoSilentLossProofs` | `Undisturbed /\ Upsert = TRUE => (Spec => []Converged)` |
| `SchedulerTypes` | `DrainSchedulerProofs` | `Spec => []TypeOK` |
| `SchedulerCounts` | `DrainSchedulerProofs` | `Covering => (Spec => []CounterCoversBacklog)` |
| `ReadsTypes` | `QueryReadsProofs` | `Spec => []TypeOK` |
| `WaitersAreCounted` | `QueryReadsProofs` | `Spec => []WaitersCounted` |
| `OneRequest` | `QueryReadsProofs` | `Spec => []OneRequestPerKey` |
| `TakersExist` | `QueryReadsProofs` | `Spec => []RequestsHaveTakers` |
| `FetchingAwaits` | `QueryReadsProofs` | `Spec => []FetchingHasCall` |
| `LastOneAborts` | `QueryReadsProofs` | `Spec => AbortedByTheLast` |
| `RecordsGoForward` | `QueryReadsProofs` | `Spec => RecordMonotone` |
| `SchemaTypes` | `SchemaVersionsProofs` | `Spec => []TypeOK` |
| `AlwaysReadable` | `SchemaVersionsProofs` | `Spec => []Readable` |
| `VersionsOnlyGrow` | `SchemaVersionsProofs` | `Spec => VersionsGrow` |
| `UpcastsCarryTheLastEdit` | `SchemaVersionsProofs` | `Spec => EditsCarried` |
| `NewerFieldsStay` | `SchemaVersionsProofs` | `Spec => NewerFieldsKept` |
| `NewerDocumentsUntouched` | `SchemaVersionsProofs` | `Spec => NewerUntouched` |
| `OwnershipTypes` | `WorkerOwnershipProofs` | `Spec => []TypeOK` |
| `OwnerFenced` | `WorkerOwnershipProofs` | `Spec => FencedByEpoch` |
| `TabsAreOneDatabase` | `WorkerOwnershipProofs` | `Spec => OneDatabase`, the refinement of `SharedDatabase` |
| `WebhookTypes` | `WebhookProofs` | `Spec => []TypeOK` |
| `CountersAgree` | `WebhookProofs` | `Spec => []Accounted` |
| `EndpointConverges` | `WebhookProofs` | `Spec => []Converges` |
| `EventsKeepOrder` | `WebhookProofs` | `Spec => []EventsInOrder` |
| `EndpointNeverGoesBack` | `WebhookProofs` | `Spec => NeverOvertaken` |
| `LiveTypes` | `LiveQueryProofs` | `Spec => []TypeOK` |
| `OwnFilterShown` | `LiveQueryProofs` | `Spec => []ShowsOwnFilter` |
| `NothingSkipped` | `LiveQueryProofs` | `Spec => []SkipsWhatItHas` |

They hold for any finite set of documents, any callers, tabs, operations, keys,
components, workers, requests, filters, builds and bounds. The assumptions are the
ASSUMEs of the modules (sets that are finite, bounds that are numbers, and a `None`
that is none of the values it stands beside) and the hypotheses named:
`Upserting` is a server that upserts and no immediate writes (otherwise edits are
lost, as section 3 tells of a strict server and its 409), `Confirming` a server that
upserts or no immediate writes (a strict server answers an immediate insert of a row it
has with a 409, which counts as success and shows content nobody took: TLC finds it),
`Undisturbed` one tab that drains, no request that arrives after its page has gone, no
immediate writes and no refetches (with any of the four the other way TLC finds
both statements broken), and `Covering` a batch that holds all documents.

*No silent loss.* `NoSilentLoss` is not inductive: that settling is harmless
depends on what was checked before, and that on what was sent. `LossInv` adds that
revisions are handed out once (`Revisions`), that a request of the stored revision
is the stored document (`SentAsStored`), that a definite reply comes from a server
that took the write (`Landed`), and, for each actor that stands between its read
and its write, that whatever it is about to undo is accounted for (`SettleSafe`,
`HydrateSafe`, `CallsSafe`). Reloads, strays, lost replies and changes of owner
disturb only what `Landed` and `SentAsStored` say, and those are about requests
that are still waited for. The proof has one lemma per action and conjunct.

*Order and agreement.* Where the drain is undisturbed a document has one request at a
time (`Alone`). `OrderInv` says that a revision that is stored or under way is never
older than the one the server took last, nor one under way newer than the stored one,
and that a document without a revision has no route, so that no retry can send it.
`AgreeInv` says that whatever is queued, sent or about to be given up contains an edit
made here, so that giving it up is on record; that while a request is out its document
is queued, unless an edit of it was given up or raced; and that an answered request is
what the server has. Each step leaves a document as it was, queues it again, gives it
up, renews it, or replaces it by what the server answered (`Moves`), and only a
replacement has to be compared with the server's row.

*Nothing is made up.* Content reaches a document from an edit, a reply, a fetched row
or an immediate write, each of which has carried it for a while. `AccountInv` says of
every place where content travels (documents, rows, requests, late requests, immediate
writes, fetched rows) that it consists of `Known(d)`: edits made here or taken by the
server. `Known` only grows, so each action has to account only for what it moves.

*The counter.* `fresh` grows by one document with a commit, which also raises the
number of hooks that have still to ask; an ask moves one from that number to the
counter; only a cycle that is about to pick resets the counter, and picking empties
`fresh`. `Told`, the sum of counter and pending asks, is the quantity followed.

`QueueLosesNothing` covers refetches, stray requests and moving ownership together,
which no run does: `immediate` fires the actions of `Hydration`, and `handoff` those of
ownership.

*Shared requests.* `ReadsInv` is the set of books that `runShared` keeps: the count of
a request is the number of calls that wait for it (`Counted`), the map and the
requests agree (`Mapped`), every caller is tied to a request of its own key (`Tied`), a
component that reports fetching has a call (`Busy`), and a key whose timer is held has
a live one. Joining, leaving and settling are lemmas about the books alone, which
every action cites; counting needs the cardinalities of finite sets only.

*Records.* `FreshInv` adds that no record is newer than the server, and that a request
which began alone and was not cancelled is the only one of its key, so that nobody
else has written the record since it was answered.

*One database.* The invariant `TabsInv` has five parts. `HoldInv` says who holds what:
the lock, the open database, and what a worker's phase and step allow in its queue.
`TrackInv` follows each request: it is in one place at a time (a tab's own queue, an
inbox, the owner's queue), is forwarded to one owner, and what is in memory and not in
the storage got there through the present owner. `EpochInv` says what a worker will
have heard of the owner by the time it comes to a message in its inbox; `AwaitInv`,
from it, that what a worker awaits it awaits of the owner it knows. `AnswerInv` says
that a refused request is dead (nobody who could carry it out has it) and that the
responses under way are true. Every step either lets requests take effect, drops what
an owner had in memory only, or changes nothing an abstract client can see, and is
`Honest` in the answers it gives; it then maps to a `Serve`, a `Lose`, an `Ask` or an
answer of `SharedDatabase`, or to a stutter. `OwnerFenced` needs `HoldInv` and
`TrackInv` alone.

*Webhook.* `WebhookInv` says for each document what its chain of events, the request in
the network, what the endpoint has heard under each Idempotency-Key, and its copy have
to do with each other. While the document is not in `crossed` the events of its chain go
forward, none newer than `told`; and unless it is in `owed` or `given`, its last
event, or its copy where there is none, is the document as it is, or a write is under
way whose answer will tell it. `Accounted` is inductive beside it. Neither supposes
anything of the order of answers. `EventsKeepOrder` does, and adds `OrderInv`: the
answers on their way form one line (`ahead`), each with images no older than those
before it, and none older than `told`.

*Live queries.* `LiveInv` says of a poller (`Sound`) that the generation it noted is not
newer than the one it would be told, and that if it is the same, the answer it has, or
will have when the query under way is answered, is the result set as it is.

*Schema versions.* `SchemaInv` says that a document carries the field its version
names, that its last change is not later than the clock, and that a document which a
read saw, and which has the same version and time now, is the document as it was
seen, unless a change shared its millisecond with the one before. The guard of the
write-back is then enough: what it writes was computed from what it replaces.

Every safety invariant and action property of the passing runs is so stated by a
theorem, under the hypotheses named, which the runs meet. What is only model-checked
is everything under fairness (`QueueDrains`, `QueueEmpties`,
`Answered`, `SavedInTime`, `FetchingEnds`, `Drains`, `CatchesUp`), which the proof system
does not treat.

## 5. What the models leave out

*Write path.* One collection; url templates and development warnings; pauses and scopes
of immediate writes, and `mutationFn`; `onSynced`. Local store operations do not fail, so the
early rejection of `Promise.all` in `drainOnce` is left out. Revisions are unique,
while in the code two tabs could in principle make the same one. `runDrain`'s test
for managed collections is left out. Hydration refreshes documents in any order.

*Workers.* Encrypted databases, differing configurations, size limits, a worker that
its tab gives up on after an error event while it lives on, and the few microtasks
between the end of a `close` and the release of the lock. The message that tells
other tabs to poll is `LiveQuery`'s nudge.

*Reads.* Disabled queries, `initialData`, `offline: 'collection'`, the counters and delays of
retries (a request fails after its last attempt), a second late effect of one component, errors, placeholders, `select` and
the assembly of results.

*Live queries.* The pending flag of `useWrite`, and the handles that providers of one name
share and close an await later (`packages/clients/react/src/context.tsx:165-290`).

*Webhook.* Validation of the configuration, stripped fields, and `flush`, which only waits.

*Schema versions.* `allowFieldRemoval`, validation, downgraded views, `aggregate` and
`subscribeAggregate`, documents without `_changed_at`, a `_v` the caller
sets itself (index.ts:241-244), and clocks that step back.

### Not modelled

The migrations of the engine run in sequence, each in one transaction with its number,
and its watch channels carry nothing: neither leaves a question of order. Ranking,
vector arithmetic and value conversions are pure functions over reals or strings, and
index maintenance happens inside one transaction of an engine with one writer. The
bindings and the command line keep no state. Generated code
(`packages/bindings/web/pkg`) and built documentation (`docs/.vitepress`) are no part
of the implementation.

## 6. Plan

1. Write path: done; its safety is proved. Order and agreement with refetches, of
   documents that no response older than their last write reaches, are the next step.
2. Scheduling: done and proved.
3. Shared database: done; the refinement is proved.
4. Query reads: done; the safety of the sharing and of the records is proved.
5. Webhook: done; its safety is proved.
6. Live queries: done; their safety is proved.
7. Schema versions: done and proved.
8. Candidates for further modules: the shared handles of named providers, the vector
   build session against writes during a build, index entries equal to documents on
   every path of `collection.rs`, and the engine's durability.

The abstract specifications worth stating: `SharedDatabase` (done), an outbox that
delivers at least once and in order for the write path, and a log with a durable
prefix for the engine.

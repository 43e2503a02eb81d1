# cubby in TLA+

cubby is a local object store with the S3 API and a web UI: buckets and objects
are kept as plain files below a data directory, and described by rows in one
SQLite database. This directory specifies how its parts behave when requests
overlap, when a request is cut short and when the server stops, checks that with
TLC, and proves the main results with TLAPS for every size of the system.

All source paths below are relative to the repository's root.

## The system

| Component | Source | State | Operations |
|---|---|---|---|
| Object store: bucket and object handlers | `src/store.rs`, `src/db.rs`, `src/api/objects.rs`, `src/api/buckets.rs` | tables `buckets` and `objects`; the trees `buckets/<name>/`; files in `.tmp/` | create, delete, list and head buckets; put, copy, get, head and delete objects, one or many |
| Multipart uploads | `src/store.rs`, `src/multipart.rs`, `src/db.rs` | tables `multipart_uploads` and `multipart_parts`; `.multipart/<id>/<n>` | create, upload part, list parts, complete, abort |
| Listing engine | `src/listing.rs` | none (reads `objects`) | `list_page`: prefix, delimiter, pages |
| Key to path mapping | `src/keypath.rs` | none | `key_to_relpath`, `relpath_to_key` |
| Event bus and live stream | `src/events.rs`, `src/api/events.rs` | ring of recent events, broadcast channel, id counter; one receiver per stream | `emit`, `clear`, `subscribe`, stream |
| Webhook notifier | `src/notify.rs`, `src/api/notifications.rs` | table `bucket_notifications`; the sequencer; a task per event | `notify`, deliver, add and remove destinations |
| Reindex | `src/reindex.rs` | tables, from the trees | `run` |
| Seed loader | `src/seed.rs` | tables and trees, before the server listens | `apply` |
| HTTP front | `src/http.rs`, `src/access_log.rs` | connections, what the access hook found of each request | accept, route, answer preflights, capture an event per request |
| CORS rules | `src/cors.rs`, `src/api/cors.rs` | one document per bucket | match, put, delete |
| Data directory, process start | `src/datadir.rs`, `src/main.rs`, `src/cli.rs` | the layout of the directory | bootstrap, start, stop |
| Presigned URLs | `src/presign.rs`, `src/api/presign.rs` | none | sign |
| UI API | `src/api/mod.rs`, `src/api/search.rs`, `src/api/health.rs` | none | dispatch a path to its handler, search, health |
| Web UI | `web/src/` | folder shown, search, detail; the log's rows, pause, filters | load, search, open; ingest, pause, clear |

How they interact. Every request is a tokio task. Handlers share one SQLite
connection behind a mutex, so a call of the database is atomic, and the file
system, where an operation is; between two such calls a handler gives way at an
`await`. Nothing locks a key or a bucket for the length of a request. After the
row is written a handler calls `fire`, which passes the event to the notifier,
which delivers it to the matching webhooks, one after the other, in a task of its
own, and records each delivery on the event bus. `http.rs` records an event of
the live log there for each S3 request, and each open tab has a
handler that streams them. The seed loader works on the
database and the trees before the server listens, the reindexer (`cubby reindex`)
while no server is running; nothing in the code keeps it from being started earlier.

What is hard, and which property each part needs:

* **Object store.** Rows and files change in separate steps, in an order chosen
  per operation (file before row for a write, row before file for a delete). Two
  requests for one key interleave; a crash, a client that hangs up or a failed
  operation stops a handler between the two. Needed: row and file agree wherever
  nothing of that kind happened; a read answers with bytes and ETag of one
  version; no object without a bucket; nothing left in `.tmp/`; an event for each
  change and no other; each request one atomic effect on the catalogue.
* **Multipart.** Complete reads the parts and assembles files that UploadPart and
  Abort may replace or remove. Needed: a completed object is made of the parts
  its ETag names; an upload completes once; nothing is left behind.
* **Listing.** Pages of a rolled-up listing while objects come and go. Needed:
  concatenated pages equal the listing; a key there throughout is listed once.
* **Keys and paths.** Keys whose paths are the same, or contain one another, and
  files that users drop. Needed: a row's bytes are at its path wherever no other
  key has that path, and a PUT is refused for no other reason than such a conflict.
* **Event bus.** An id taken outside the lock, a replay joined to a live
  receiver, a ring and a channel that overflow, clears, restarts. Needed: a
  stream is in order, has no gap it is not told of, does not show what was
  cleared, and catches up.
* **Notifier.** One task per event, destinations read late, receivers that never
  answer, buckets that are deleted and created again. Needed: at most one attempt
  per event and destination, none to a destination that was removed, none of the
  others forgotten because one fails, and an end to every task.
* **CORS and the front.** A preflight and the request it asks about are answered
  apart, from rules that other requests change. Needed: the rules go with their
  bucket, a promise of a preflight is kept, each S3 request leaves one true line in
  the live log, and each path comes to the handler it is meant for.
* **Web UI.** Answers in another order than the questions. Needed: what is shown
  is what was asked for last.

`PROJECT.json` lists the hazards one by one, at the line where each bites.

## The modules

| Module | What it is |
|---|---|
| `ObjectCalls` | The object API: the calls, what each changes and what each reads |
| `ObjectStore` | The handlers of the store, step by step, with accidents and reindexing |
| `Catalogue` | What the store promises of buckets and objects: atomic effects |
| `ObjectStoreProofs` | Theorems about `ObjectStore`: agreement of rows and files, effects, events, and that it implements `Catalogue` |
| `Multipart` | Multipart uploads, step by step |
| `MultipartProofs` | Theorems about `Multipart` |
| `EventBus` | The bus of the live log and its streams |
| `EventBusProofs` | Theorems about `EventBus` |
| `Notifier` | Destinations of events and the tasks that deliver to them |
| `NotifierProofs` | Theorems about `Notifier` |
| `Orders` | A set of numbers in order, and the part of a sequence that is in a set |
| `OrdersProofs` | What the operators of `Orders` return, and induction over sets of numbers |
| `KeyPath` | The mapping of keys to paths and back |
| `Listing` | The listing engine, one fetch at a time |
| `ListingProofs` | What the operators of `Listing` return |
| `Keyspace` | One bucket: its keys, its files, and a client that lists it |
| `KeyspaceProofs` | Theorems about `Keyspace`: its paths, its files and the listing |
| `Cors` | Validation and matching of CORS rules |
| `UiApi` | Which handler answers a path and method of the UI |
| `Front` | The routing in front of all handlers, the CORS rules, the live log's lines |
| `FrontProofs` | Theorems about `Front` |
| `MCObjectStore`, `MCMultipart`, `MCEventBus`, `MCNotifier`, `MCKeyspace`, `MCFront` | The same for TLC |

`ObjectCalls` is extended by `ObjectStore` and `Catalogue`. `ObjectStore`
instantiates `Catalogue` with a refinement mapping and is shown to implement it.
`KeyPath`, `Listing`, `Cors` and `UiApi` hold functions and no state; `Keyspace`
composes the first two and `Front` the last two. `Orders` is what `EventBus`,
`Notifier` and `KeyPath` use where the code sorts or filters: it is defined by
counting instead of recursion, so that its lemmas can be proved.

### ObjectStore

An action is what one handler does between two awaits. `pc[r]` says what the
handler of request `r` does next; `seen`, `todo`, `removed` and `served` are its
local variables.

| Operation | Actions, in order |
|---|---|
| CreateBucket | `MakeBucketDir`, `InsertBucket`, `Reply` |
| DeleteBucket | `DeleteBucketRow`, `UnlinkFile`*, `RemoveBucketDir` |
| PutObject | `CheckBucket`, `CreateTemp`, `FinishBody`, `MakeParentDirs`, `Rename`, `InsertRow`, `Reply` |
| CopyObject | `ReadSourceRow`, `CheckBucket`, `CreateTemp`, `CopySourceFile`, `MakeParentDirs`, `Rename`, `InsertRow`, `Reply`; onto itself `ReadSourceRow`, `CheckBucket`, `InsertRow`, `Reply` |
| DeleteObject | `DeleteRows`, `UnlinkFile`, `Reply` |
| DeleteObjects | `CheckBucket`, `DeleteRows`, `UnlinkFile`*, `Reply` |
| GetObject | `ReadRow`, `OpenFile` |
| HeadObject | `ReadRow`, `Reply` |

`Fault`, `HangUp` and `Crash` cut a handler short before any of these; `Restart`
and `Reindex` follow a crash or a stop. The UI's upload, folder, bucket and delete
handlers in `src/api/` take the same steps with their database calls made
directly instead of through the blocking pool.

The history variables say what has happened and constrain nothing. `torn` is the
set of objects on which two requests have met, one of them changing the object,
or on which a request was cut short between its first change and its last.
`raced` is the set of requests that met another one. A request that runs
undisturbed to its end takes its objects out of `torn` (`Repair`): writing again,
or deleting, is the cure for every disagreement, and the model says so. The
properties speak of what is outside `torn` and `raced`, and the violated runs
show what happens inside.

Abstractions:

* A body stands for its own MD5: two bodies are equal if their ETags are. Sizes,
  ranges, times, content types and user metadata ride in the same row and file as
  the ETag and are left out.
* Distinct keys have distinct files, none of which contains another; the
  directory of a bucket stands for the chain of parent directories of a key. The
  keys for which that is false are a hazard of their own (`src/keypath.rs`).
* A crash ends the process, not the machine: what a system call has done stays
  done. The code syncs a file before it renames it and never syncs a directory.
* A client that hangs up makes hyper drop the handler at its next await. A
  database call or file operation handed to the blocking pool completes all the
  same, and the request counts as in flight until then.
* `Fault` stands for any failing operation, of the file system or the database,
  and for a body that breaks off or fails its checks.
* A refusal for a missing key makes one more read, to tell NoSuchBucket from
  NoSuchKey; it changes nothing and is left out. So are signature checks, the
  limit of 1000 keys per DeleteObjects, HeadBucket and ListBuckets.

### Catalogue

The same calls with no files and no steps: a request changes `buckets` or `rows`
at most once, in one step between being sent and being answered. Success follows
the effect, a refusal means there was none, and after a 500 or a lost connection
either may be true. A copy reads its source in a step before the one that writes.
`ImplementsCatalogue` says that each handler of `ObjectStore` does this, its one
database write being the effect (`stages` maps `pc` and `applied`).

### Multipart

As in `ObjectStore` an action is what a handler does between two awaits, but a
handler takes one request after another: `pc[h]` is its next step, `call[h]` what
it was asked for, `selected` and `joined` are its local variables. So any number of
requests is made on one upload, retries among them, as many at once as there are
handlers.

| Operation | Actions, in order |
|---|---|
| CreateMultipartUpload | `CheckBucket`, `MakeStagingDir`, `InsertUpload` |
| UploadPart | `FindUpload`, `ReceivePart`, `MakePartDir`, `RenamePart`, `RecordPart` |
| CompleteMultipartUpload | `FindUpload`, `Validate`, `AssemblePart`*, `PlaceObject`, `Commit`, `UnlinkPart`*, `RemoveStagingDir` |
| AbortMultipartUpload | `FindUpload`, `DeleteUploadRows`, `UnlinkPart`*, `RemoveStagingDir` |

`Cut` is whatever ends a handler early: a failed call, a client that hangs up, a
crash. Everything but the handlers' own variables survives it, so a restart needs
no action.

`commits` and `aborted` record how uploads have ended. The other histories say what
is in doubt: `torn` the parts and objects on which requests have met or one was cut
short, or that were made of such a part; `littered` the uploads whose end was cut
short or met an UploadPart; `contested` those that two requests were ending at once;
`raced` the handlers that have met another. A request that meets no other takes what
it writes out of `torn` when it is done.

Abstractions: a body stands for its MD5, the bytes of an object are the sequence of
the bodies of its parts, and its composite ETag the sequence of their ETags. The
temporary files are seen by one request only and are left out, with the rename that
ends them kept; the parents of an object are made in the step that renames it. An
object is one that no other kind of request touches (`ObjectStore` has those), and
whether its bucket exists is left open. The code never asks: Complete stores the
object in whatever bucket and key the request names, even one deleted, or other than
the upload was created for. ListParts changes nothing. Events, content types and
metadata are left out.

### EventBus

`Stamp` and `Push` are the two halves of `emit`, the first outside the lock of the
ring; `ClearLog` is `clear`; `Connect` is a subscription, of a new page or of one
that reconnects with its Last-Event-ID; `Replay`, `Recv` and `RecvLagged` are what
the handler of a stream sends next; `Disconnect` and `Restart` are the world. `sent`
is the history of all that was broadcast, and a receiver is a position in it;
the channel retains the last `ChannelCapacity` positions, as tokio's does.
`Clear` has no id, and is skipped over by the Last-Event-ID.

An event is its id; what it says of a request is left out. A frame counts as
handed over when the browser has it, so a frame lost in a broken connection is one
that was not handed over. The keep-alive comments are left out.

### Notifier

`CreateBucket` and `DeleteBucket` with its cascade; `BeginCreate` and `EndCreate`
for the two halves of the request that creates a destination, before and after its
body; `DeleteDestination`; `Commit` for a handler that calls `notify`. The task of an
event is `Load` (or `LoadFails`), and then for each destination `Post` followed by
`Answered` or `TimedOut`. `Restart` ends all tasks: nothing of them is stored.

A destination is a position in the history `made`, since its id is used again once
it was the newest and is deleted; `rows` maps ids to positions. `gone` and `born`
say when a destination was removed and how many there were when its bucket was
created. Transport errors and any status of an answer are one action, as the code
only logs which. The payload, its sequencer and the wording of the lines are left
out. Which handler fires which event is the subject of `ObjectStore`; here an event
may be of any object, of a bucket that is gone too.

### KeyPath, Listing, Keyspace

A character is a number in the order of code points, and a key a sequence of them.
`PathOf` and `KeyOf` are `key_to_relpath` and its inverse; an escape `%XX` is the
percent sign and the character it stands for, in place of its two digits. A space
at the end of a name is treated as a dot. The surrogate range, which `successor`
jumps over, is a gap in `Scalars`.

`Turn` is one turn of `list_page`: a fetch and what becomes of each key of the
batch (`Absorb`). In `Keyspace` each fetch is a step (`FetchBatch`, `FetchFails`), as
it takes the lock anew; `NextPage` is the client that follows the token or, in v1,
the marker. `PutObject`, `DeleteObject`, `Drop` and `Reindex` change the bucket
meanwhile. The first two are whole requests here, since what their steps do to one
another is the subject of `ObjectStore`, where on the other hand distinct keys have
distinct files that do not contain one another. `FetchFails` restarts the page, which
is what a client does after a 500. The UI's listing is v2 with a delimiter.

`encoding-type`, owners and `max-keys=0` only shape the answer and are left out.

### Cors, UiApi, Front

A request is routed in the order of `Router::call` (`Arrive`): to the UI, as a
preflight, as a probe of a browser, to the front door, and else to S3. A preflight
may be for the path of a probe, which is taken for a bucket without rules (a bucket
called `favicon.ico` is left out). A path of the
UI goes through `Dispatch`, which is `dispatch` with the route functions of
`src/api/`. The page builds a URL (`ObjectUrl`), and the browser sends it without
segments of dots (`Resolved`), which may lead it anywhere. In S3 a request with a wrong
signature is refused with 403 (`WronglySigned`), one of no operation, such as a plain
OPTIONS, with 501 even if it is not signed (`NoOperation`), both by s3s before the access
hook, and an anonymous one of an operation by the hook (`Denied`). Where a request is
both wrongly signed and of no operation, either may come first. Any other runs; the
requests that change the rules or their bucket are actions of their own, with the
gap of PutBucketCors between its look at the bucket and its statement
(`BeginPutBucketCors`, `EndPutBucketCors`). `Capture` is what `log_and_serve_s3` does
after the call, from the rules as they are then. `HangUp` drops a request where it
is; a statement that the database has begun runs all the same (`PutDetached`).
Reading the rules may fail, and counts as no rules (`RulesRead`).

An origin is a sequence of words of which a pattern may replace one by `Star`. A
path is a sequence of segments and a segment one of words, split only where the code
looks for a word. Byte counts, durations and error codes of a line, and the headers
that a grant merely copies from its rule, are left out; so is the accept loop.

## What TLC checks

| Run | Shows |
|---|---|
| `ObjectStore` | Settled, NoStrayRows, CleanReads, NoTempLeft, EventsMatchEffects, ReindexOnlyAdopts and the refinement of Catalogue, for any two requests of the eight kinds, in any order and interleaving, with all accidents and reindexing |
| `ObjectStoreCrash` | (violated) that a crash in a PUT leaves at most an orphan file |
| `ObjectStoreBucket` | (violated) that no object outlives its bucket |
| `ObjectStoreEtag` | (violated) that the ETag is the MD5 of the body once all requests were answered |
| `Multipart` | PartsSettled, ObjectsWhole, CompleteStoresList, NothingLeft and EndsOnce, for any number of requests on an upload, two at a time, with accidents and retries |
| `MultipartRows` | (violated) that no rows of parts are left of a completed upload |
| `MultipartAbort` | (violated) that an aborted upload is not completed |
| `EventBus` | RingIsRecent, InOrder, NoSilentGap, ClearIsDurable and that streams catch up |
| `EventBusResume` | (violated) that a reconnecting tab gets every event the ring retains |
| `Notifier` | BucketStateDies, OnceEachInOrder, OnlyToSubscribers, NobodyForgotten and that every task ends, with late, failing and silent receivers, restarts, and buckets and ids that are used again |
| `Keyspace` | ListedOnce, FilesHoldKeys and RefusedOnConflict, for keys with empty segments, escapes, the last scalar, and prefixes of one another, and paged listings while the bucket changes |
| `Front` | RulesNeedBucket, PreflightHonoured and HandledAndLogged, for three requests at a time of browsers, the page and S3 clients, cut short anywhere |

Bounds.

* `ObjectStore`: two requests, one bucket, two keys, two bodies. Each property
  relates an object to the requests that touch it, and each way to break one that
  is known (a mutant per property, and the violated runs) takes two requests. Two
  keys let a copy have a source, DeleteObjects have more than one file to unlink,
  and an object be left alone. One bucket suffices, because buckets share nothing
  but requests and a copy between buckets differs from one within a bucket only in
  which bucket is checked. Requests come one after the other as well as at once,
  so a write after an accident is among the behaviours. Symmetry of requests, keys
  and bodies is sound: no property names one, and all are safety properties. The
  theorems hold for any number.
* `Multipart`: one upload of two parts, two bodies and one object, two requests at a
  time and any number in all. Uploads share nothing but the object they complete to,
  and that is shared as well by two Completes of one upload. Two parts are the fewest
  with an order and a subset; the lists submitted have one part, two in order, two
  out of order, and none. The violated runs need one part only. Symmetry of handlers
  is sound, as no property names one. No guard bounds anything:
  `commits` counts to 2, which stands for more.
* `EventBus`: a ring of two and a channel of one, so that four signals evict and
  lag; two threads, the fewest that push out of order; one tab, because tabs share
  nothing but the bus, which no tab changes; two runs of the server, the fewest in
  which an id of one is used in the other. `MaxSignals` and `MaxBoots` are the only
  guards that the code does not have.
* `Notifier`: two events, two destinations, two lives of one bucket, two runs of the
  server and one tab. Two destinations are the fewest with an order, and with one
  that fails and one that must not suffer; two lives let a create request, or an
  event, of one meet the other. The drafts are one that names an operation, one that
  names families and a folder, and one with a timeout out of range, which must not
  be stored. `MaxEvents`, `MaxMade`, `MaxBirths` and `MaxBoots` bound histories. No
  symmetry, as a liveness property is checked.
* `Keyspace`: any three of eight keys and two strays, of which some collide (`a//b`
  and `a/b`, `:` and `%:` in their encodings), some contain one another (`a`, `a/`,
  `a/b`) and two end with the last scalar. Two keys conflict at most in pairs; the third
  is what a page ends before. Pages of one and two keys end within a group and at
  its end; with two changes a key comes and goes. `MaxUsed` and `MaxChanges` are the
  bounds.
* `Front`: three requests, each used once, on one bucket that begins with or without
  rules: a preflight, the request it asks about, and one that changes the rules or
  the bucket in between. Rules of a bucket affect that bucket only. Two sets of rules
  let the first rule that matches the preflight differ from that which matches the
  request. Among the keys that the page asks for are one whose dots lead to another key
  and one whose dots lead out of the UI. Symmetry of requests is sound, as no property names one and all are
  safety properties.

Fairness. `ObjectStore` and `Multipart` have none: any request may stop for good at any step.
`EventBus` assumes weak fairness of `Deliver(c)`, that is of the handler of a
connected tab: tokio polls a task that has been woken, and the client reads its
connection. Without the second the stream rightly waits. Nothing forces threads to
emit or tabs to connect. Because the number of signals is bounded, `StreamsCatchUp`
says that a stream catches up once the bus falls silent, however far behind.

`Notifier` assumes weak fairness of what the task of an event does by itself (`Step`):
the runtime polls a spawned task, and fires its timer. Nothing is assumed of
receivers: `Answered` may never happen, and `TasksEnd` holds because of the timeout.
`Keyspace` and `Front` have no fairness and no liveness properties.

In `Notifier`, `Keyspace` and `Front` the bounds end the run, so deadlock is not
checked. Every other run checks for deadlock: a request can always be sent, cut short or the
server stopped and started, an idle handler can always be asked for something, and a tab can always connect or disconnect.

## What is proved

`ObjectStoreProofs`, for all `Buckets`, `Keys`, `Bodies`, `Requests` and `Ops`, from the
assumptions that `Ops` are operations of the API, `None` is not a body and
`Partial` is neither (`OpsAssumption`, `NoneAssumption`, `PartialAssumption`):

| Theorem | Statement |
|---|---|
| `TypeCorrect`, `TypeOKAlways` | types, and that every handler is at a step of its own operation |
| `Invariance` | the inductive invariant `IInv` |
| `SettledAlways` | `Spec => []Settled` |
| `NoStrayRowsAlways` | `Spec => []NoStrayRows` |
| `CleanReadsAlways` | `Spec => []CleanReads` |
| `EffectsInvariance` | the second inductive invariant, `TypeInv /\ EffectInv` |
| `NoTempLeftAlways` | `Spec => []NoTempLeft` |
| `EventsMatchEffectsAlways` | `Spec => []EventsMatchEffects` |
| `ReindexOnlyAdoptsAlways` | `Spec => ReindexOnlyAdopts` |
| `StoreImplementsCatalogue` | `Spec => ImplementsCatalogue` |

The argument. `Settled` is not inductive: before the rename, nothing in it says
that the temporary file holds the body whose ETag will be written, that the source
of a copy is still what its row said, or that the directory will be there. `IInv`
adds, for each request that nobody has met (`ProgressInv`), what its steps so far
have made true of the row, the file and its own variables and what its next step
relies on. That a step of one request leaves the progress of another alone is the
point of the history variables: if the two touch an object in common, they were
both recorded when the second was sent (`Recorded`), and then nothing is claimed
of either. `ReadsSound` says the same of a copy or a get and what it reads,
`FilesInDirs` that a settled file is in a directory that exists. Lemmas per kind
of step then follow: what a step touches (`StepTouches`), that it preserves the
progress of the others (`ProgressStepOthers`) and its own (`ProgressStepSelf`), and
that it preserves agreement (`AgreeStep`); accidents (`IInvCut`, `IInvCrash`) only
add to `torn`, and reindexing (`IInvReindex`) adds rows only where there was a file
and none.

What each request has done is a matter of that request alone, whoever it meets.
`EffectInv` says of each one what its step tells of its temporary file (`TempAt`),
its effect and what it removed (`AppliedAt`), what it has read (`SeenAt`) and what
it announced (`FiredAt`); from it the theorems on temporary files and events follow
at once, and that of the refinement by mapping each action to the step of
`Catalogue` that it takes (`StepImplements`) and each accident to one that loses or
fails the request. The catalogue has its own copy of the calls, which `SameCalls`
shows to be the same. That reindexing alters nothing settled follows from `Settled`.

`MultipartProofs`, for all `Uploads`, `PartNumbers`, `Bodies`, `Objects`, `Submissions`
and `Handlers`, from the assumptions that part numbers are numbers and there are some,
that a submission is a list of parts, and that `None` is no body and a part no object
(`NumbersAssumption`, `SubmissionsAssumption`, `NamesAssumption`):

| Theorem | Statement |
|---|---|
| `UploadsInductive` | the inductive invariant `UploadInv` |
| `UploadsTyped` | `Spec => []TypeOK` |
| `PartsAreSettled` | `Spec => []PartsSettled` |
| `ObjectsAreWhole` | `Spec => []ObjectsWhole` |
| `CompletesStoreTheirList` | `Spec => []CompleteStoresList` |
| `NothingIsLeft` | `Spec => []NothingLeft` |
| `UploadsEndOnce` | `Spec => []EndsOnce` |
| `UploadsNeverReopen` | `Spec => NeverReopened`: no step brings back the row of an upload that is over |

`UploadInv` has a part per question, each the property with what handlers know:
`StagedAt` of the file an UploadPart has renamed, `CompleteAt` of what a Complete has
validated and put together, `EndAt` of whether the upload that a handler is ending is
open, `LitterAt` of who may still add a part to it. What a handler knows can be undone
by another only if the two meet, and `MeetInv` says that then what they may spoil is in
doubt; it is what every other part rests on. `MintInv` (an id is minted once, and an
upload that anything is known of was created) is what keeps an upload from opening
again. Each action has a lemma for each part.

`EventBusProofs`, for all capacities above 0, all `Clients` and any finite set of
`Emitters`, and for any bounds (`CapacityAssumption`, `BoundsAssumption`):

| Theorem | Statement |
|---|---|
| `BusInductive` | the inductive invariant `BusInv` |
| `BusTyped` | `Spec => []TypeOK` |
| `RingAlwaysRecent` | `Spec => []RingIsRecent` |
| `StreamsInOrder` | `Spec => []InOrder` |
| `StreamsHaveNoSilentGap` | `Spec => []NoSilentGap` |
| `ClearsAreDurable` | `Spec => []ClearIsDurable` |

`RingIsRecent` is inductive with types. The streams need more (`Going`): that the
places where a stream's ring began, where it joined and where its receiver is are in
order, that no Clear lies between the first two, and that no id is broadcast twice
(`IdsInv`), so that an event of the ring has one place in the history. Counting what is
due against what was handed (`NoSilentGap`) then uses cardinalities of intervals. That
signals are bounded by `MaxSignals` follows from a count of the ids that are taken.

`NotifierProofs`, for all `Buckets`, `Drafts`, `Changes` and any finite set of `Admins`,
and for any bounds (`ChangesAssumption`, `BoundsAssumption`):

| Theorem | Statement |
|---|---|
| `NotifierInductive` | the inductive invariant `NotifierInv` |
| `NotifierTyped` | `Spec => []TypeOK` |
| `DestinationsDieWithBucket` | `Spec => []BucketStateDies` |
| `PostedOnceInOrder` | `Spec => []OnceEachInOrder` |
| `PostsOnlyToSubscribers` | `Spec => []OnlyToSubscribers` |
| `NobodyIsForgotten` | `Spec => []NobodyForgotten` |

`TableInv` says that the rows are in the order of creation although ids are used
again, and are those of exactly the destinations that are not gone. `Task` says of each
event what its task has yet to do, has done, is doing and still owes: the destinations
to come are after those posted to, and whoever is owed a post is among them. The lemmas
on `Sorted` and `Only` (`OrdersProofs`) give what a task reads from the table.

`FrontProofs`, for all `Buckets`, `Requests`, `Inputs` and `Configs`, from the
assumptions that `ui`, `probe` and `root`, the other places a request may go to, name
no bucket (`NamesAssumption`), that rules a bucket begins with were accepted
(`ConfigsAssumption`), that CreateBucket names a bucket (`OperationsAssumption`), and
that the page asks for an object by the URL that the browser makes of the one it built,
with a bucket and a key that are not empty (`PageAssumption`, from
`web/src/lib/api.ts`):

| Theorem | Statement |
|---|---|
| `RulesNeedBucketAlways` | `Spec => []RulesNeedBucket` |
| `PreflightHonouredAlways` | `Spec => []PreflightHonoured` |
| `FrontInductive` | the inductive invariant `FrontInv` |
| `FrontTyped` | `Spec => []TypeOK` |
| `RequestsHandledAndLogged` | `Spec => []HandledAndLogged` |

The first is inductive once it is known that `cors` and `fresh` are functions on
`Buckets`: the steps that could break it are those of PutBucketCors, whose statement
does nothing without the bucket, and DeleteBucket, which takes the rules along. For
the second, `GrantInv` says of each request that where it is tells what it is, and
that the headers of its answer are what the matchers make of the rules read for it;
`MatchersAgree` says that rules with a match for a preflight have one for the
request. `FrontInv` says of each request what was asked, what the access hook recorded
and how many lines it has, where it is. A step of one request leaves that of others
alone (`OthersKeepGrants`, `OthersKeepLines`). `PageReaches` is about keys of any
length: without segments of dots a URL arrives as it was built (`UrlArrives`), and
unless the word of notifications begins a segment of the key, the first separator in it
is the one the page put there (`ObjectsGetTheirs`).

`KeyspaceProofs`, for all `Keys`, `Strays`, `Queries`, characters and bounds, from the
assumptions that keys and prefixes are strings over `Scalars`, paths sequences of names,
and the slash and the percent sign characters (`StringsAssumption`,
`CharactersAssumption`), that a query asks for at least one key a page and has no empty
delimiter (`QueriesAssumption`), that characters are numbers, with 0 among them
(`ScalarsAssumption`), that the percent sign is escaped (`PercentAssumption`), that
`NoKey` is no string (`NoKeyAssumption`), and that the bounds are numbers
(`BoundsAssumption`):

| Theorem | Statement |
|---|---|
| `KeyOfPathIs` | the path of a key gives back the key without its empty segments, which has the same path |
| `PathsShared` | two keys have one path exactly if they differ in empty segments alone |
| `TreeInductive` | the inductive invariant `TreeInv` |
| `FilesAreATree` | `Spec => []IsTree` |
| `RefusedOnlyOnConflict` | `Spec => []RefusedOnConflict` |
| `BytesInductive` | the inductive invariant `BytesInv` |
| `FilesHoldKeysAlways` | `Spec => []FilesHoldKeys` |
| `ListingInductive` | the inductive invariant `ListingInv` |
| `ListedOnceAlways` | `Spec => []ListedOnce` |
| `KeyspaceTyped` | `Spec => []TypeOK` |

*Refusals.* A key is refused because of what is in its way, and the property speaks of
who put it there; `IsNamed` is the link: a file is at a path that a key or a user has
named, and a directory above one, also after the file is gone. `AncestorIs` is about
sequences: what is above a path is a strict prefix of it.

*Bytes.* `FilesHoldKeys` needs to know of each file whose it is (`FilesInv`): that of a
key that was put and has this path, or a stray where a user dropped it. Reindexing is
the step that matters: it makes a row of what a path gives back, and the row has its
bytes there because that key has the same path (`KeyOfPathIs`). The lemmas under this
one are about one name and about all of them. `DecodeEncode`: a name gives its segment
back, since every percent sign in it begins an escape, those in the segment included.
`NamesAre`, `JoinedIs`, `NamesUnique`: the names are the runs of a key between its
slashes, joining them keeps them apart, and runs can be told in one way only.
`JoinedIsCanonical`: what joining leaves out are the slashes that `Canonical` leaves out.

*The listing.* `ListedOnce` says at the end of a listing what `ListingInv` says at each
of its steps: what is shown is in order (`Ordered`), each item is that of a key that was
there (`Sourced`), every key that stayed and comes before the cursor has been shown
(`Complete`), and whatever the listing may go on with is beyond what is shown
(`Resumable`), the marker of v1 included. Within a batch the same is kept from key to
key (`TurnKept`): `ListingProofs` says that a batch is what is in range, lowest first,
with none left out between two (`FetchIs`), that `Successor` is the least string after a
group, over the gap of the surrogates and over the last scalar, and that groups do not
interleave with other keys.

The recursion of `Decode`, `Taken` and `FlattenSeq` is one of functions on numbers, and
what each computes is shown by induction over a set of numbers (`Induction`, `Recursion`
and `SortedUnique` of `OrdersProofs`), in which no operator is a parameter.

Only model-checked: the liveness properties `StreamsCatchUp` and `TasksEnd`, as liveness
under fairness is out of the prover's reach, and the violated runs. Every other property
of the passing runs is a theorem.

## What the code does otherwise than it says

1. *A crash in a PUT is not always harmless* (`ObjectStoreCrash`). The new bytes
   are renamed over the old ones before the row is replaced. A crash in between
   leaves the row of the old version, with its size and ETag, over the new bytes;
   `src/store.rs:128-130` speaks of "only a harmless orphan file", which is true of
   a key that did not exist. Reindex does not repair it, as it skips keys that
   have a row; writing or deleting the key does.
2. *An object can outlive its bucket* (`ObjectStoreBucket`). PutObject looks for
   the bucket before it reads the body, and never again; `try_delete_bucket`
   excludes a put only for the length of one database call.
3. *The ETag may not be that of the bytes* (`ObjectStoreEtag`). Two puts of one key
   may rename in one order and insert in the other; both are answered with 200, and
   the object keeps the bytes of one and the ETag and size of the other.
4. *A tab may miss an event on reconnecting* (`EventBusResume`). The id is taken
   before the lock, so ids may enter the ring in another order than their own;
   resuming from the higher id skips the lower one for good.
5. *A completed upload may leave rows behind* (`MultipartRows`). UploadPart looks for
   the upload before it reads the body and not when it records the part. If the
   upload ends in between, the row of the part and its file in a staging directory
   made anew stay, and no request can remove them: the upload is unknown.
6. *An aborted upload may be completed* (`MultipartAbort`). A Complete that has read
   the parts goes on while an Abort is answered, and stores its object; its
   transaction does not look whether the upload is still there.

The following are stated as exceptions in properties that hold otherwise.

7. *Two keys may share a file* (`FilesHoldKeys`). Empty segments add nothing to a
   path, so `a//b` and `a/b` are one file with two rows, and a PUT or DELETE of one
   replaces or removes the bytes of the other; `src/keypath.rs:55` calls the mapping
   injective. A file dropped under a name that the encoding would have escaped gets
   a row whose key has another path, and is never found.
8. *A PUT may be refused for a key that is gone* (`RefusedOnConflict`). Directories
   stay when their last object is deleted, so `a` cannot be put once `a/b` was. A
   key that ends with a slash can never be put.
9. *A group may be left out* (`ListedOnce`). The engine stops at a group of nothing
   but the last scalar, which has no successor, without listing it
   (`src/listing.rs:239`).
10. *Some objects are out of the page's reach* (`HandledAndLogged`). The path of a
    UI request is split at the first `/notifications` in it, wherever that is:
    `src/api/mod.rs:75-77` says that it is the separator because a bucket has no
    `/`, and `None` is returned for other paths. A request for the object
    `notifications-2024.txt` is answered with the list of destinations, an upload
    with 405, a delete with 400. `parse_cors_path` looks for a slash in what stands
    before it and so is not affected; nor are keys that hold `/objects`.
    The bytes of a key that ends in `/content` are sent where its data are asked for.
    And `encKey` (`web/src/lib/api.ts:127`) leaves segments of dots as they are, which the
    browser takes out of a URL: a delete of `a/../b` in the page deletes `b`, and with
    more of them a request goes to another bucket, or to S3, which refuses it.
11. *An id of a destination may come back* (`src/db.rs:783`). The table has no
    AUTOINCREMENT, so the newest id is used again after it is deleted, and a delete
    that a tab sends late removes a destination it did not show. No property covers
    it, as the API promises less.

## Plan

Done: `ObjectStore` with `Catalogue`, `Multipart`, `EventBus`, `Notifier`, `Keyspace`
with `KeyPath` and `Listing`, `Front` with `Cors` and `UiApi`. What would be next:

1. `Multipart` composed with the buckets of `ObjectStore`, for a Complete whose bucket
   was deleted.
2. A seed that fails half-way over an existing directory, as a start of `ObjectStore`
   (the code calls what it leaves acceptable, `src/seed.rs:114-117`).
3. The web UI: the browser's folder, search and detail with answers out of order, and
   the log's ingest across clears and reconnects (with `EventBus`).

No theorem is left to come for the modules there are: each module of this plan would
bring its own.

## What is not modelled

* Signing (`src/presign.rs`) is a computation over bytes that keeps no state and is
  better tested. A signature is right, wrong or absent here.
* Search and health read a few rows and answer; the handlers of the UI that change
  state take the steps of their S3 counterparts, and are there with them.
* The command line, the banner, embedded files, and the components and formatting of
  the web UI are input and output.
* The web UI's own state (`web/src/stores/browse.ts`, `web/src/routes/live-log.ts`) is
  in the plan; so are the compositions named there.
* Of the accept loop (`serve` in `src/http.rs`) only its effect on handlers is
  modelled: they run concurrently, and are dropped when the connection ends.
* Of an accident only what a handler sees is modelled: a machine that loses power
  and with it what was not synced is left out.

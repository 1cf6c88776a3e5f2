# Verification of service-object-storage

TLA+ specifications of the object-storage agent and gateway in this repository,
model-checked with TLC and, where it pays, proved with TLAPS. Paths are those of
the repository.

## The system

The agent (`main.go`, `runtime.go`, `builder.go`) is a codefly plugin, one
process per run of a service. Its `Init` starts a gateway container and, for the
`local` backend, a MinIO container over a directory it keeps custody of. The
gateway (`cmd/service-object-storage`) is a gRPC server in front of one bucket of
one backend (MinIO, S3, GCS, Azure, memory). A replica publishes the writes it
serves to the Watch streams it serves. Replicas share the bucket and nothing else.

| Component | State it keeps | Operations | Interacts with | Hard behaviour | What makes it correct |
|---|---|---|---|---|---|
| Event hub, `internal/events` | subscriptions, their channels, `closed` | Subscribe, Publish, Subscription.Close, Hub.Close | handlers publish and subscribe; `run` closes | drop, close and close again in any order; a full buffer | no double close; a gapless run of events until the cut |
| Gateway writes and Watch, `internal/server/server.go` | none of its own: the bucket, the hub | Put, Copy, Delete, DeleteMany, Watch | backend first, hub afterwards | no lock over the two; lost answers; entries that fail; clients that fall behind | every change is hinted; no event without a write |
| Gateway reads | none | Stat, Get, GetMany, List, Presign, Capabilities, Ready | backend, monitor | an object replaced while it is streamed | a body has the size of its header or ends in an error |
| Bindings, `internal/server/binding.go`, and egress, `internal/egress` | a store per call | backendFor, boundConfig, dial check, redirects | every RPC with a binding | names that resolve differently later; caps at their limit | only admitted addresses are dialled |
| Backends, `internal/backend/*` | the bucket | Put, Get, Delete, DeleteMany, List, Copy, Presign, Probe | gateway, monitor | conditional writes; partial results; retries of the client libraries | what the `Backend` interface promises, per backend |
| Prefix wrapper, `internal/backend/prefix.go` | none | every backend operation | wraps a backend | listing under two prefixes | keys in and out of the wrapper are inverse |
| Error classes, `internal/serr`, `internal/server/errors.go` | none | CodeOf, toStatus, refuse | all | none | total, and stable under wrapping |
| Monitor, `internal/health` | last status, last verdict | Run, check, Verdict | backend, health service, Ready | a probe cut off by shutdown; a verdict read between the probes | the health service and Ready agree; bounded age |
| Gateway process, `cmd/.../main.go` | the listener | run, gracefulStop | all of the above | streams that do not end | stops within its grace |
| Local MinIO custody, `minio_custody.go` and `Init` in `runtime.go` | the custody directory, a lock file, the container, the bucket | prepareMinIOData, ensureMinIOCustody, ensureBucket, commitMinIOProvisioning, rollback, Destroy | Docker, the file system, other runs | killed between any two steps; two runs; names that collide; lost parts; power loss | a store with objects is never succeeded by an empty one |
| Runtime lifecycle, `runtime.go`, `minio_network.go`, `minio_user_probe.go` | two containers, a network, a token | Init, WaitForReady, Stop, Destroy | Docker, the gateway | a run tears down while the next one starts | a run takes down only what it made |
| Builder, plugin, image evidence | none that outlives a call | render, register, SBOM | templates, registries | none | not modelled |

## Modules

| Module | Models | Status |
|---|---|---|
| `Hub` | `internal/events/events.go` | checked and proved |
| `Gateway` | the write RPCs and Watch of `internal/server/server.go`, over `Hub` | checked, safety proved |
| `Custody` | `minio_custody.go`, the provisioning part of `runtime.go` | checked, safety proved |
| `ObjectStore` | what `internal/backend/backend.go` promises of a bucket | abstract specification |
| `Backends` | `internal/backend/{mem,minio,s3,gcs,azure}` | checked and proved to implement `ObjectStore` |
| `Readiness` | `internal/health/health.go`, `run` and `gracefulStop` of `cmd/.../main.go`, the Ready RPC, `WaitForReady` of `runtime.go` | checked, safety proved |
| `Listing` | a page of `List` in each of `internal/backend/{mem,minio,s3,gcs,azure}`, under `prefix.go` | operators, used by `Reads` |
| `Reads` | List, GetMany and Get of `internal/server/server.go`, with the bounds of `binding.go` and `egress.go`, over `Listing` | checked, safety proved |
| `Uploads` | the stream of a Put in `internal/server/server.go`: handler, feeder and pipe, with the upload of each backend | checked, safety proved |
| `Refusals` | `internal/serr`, `internal/server/errors.go`, `mapErr` and `probeErr` of each backend | operators, used by `BoundCalls` |
| `BoundCalls` | `internal/server/binding.go`, `internal/egress`, the constructors and `Probe` of the backends, over `Refusals` | checked and proved |
| `MinioNetwork` | `minio_network.go`; `Init`, `teardown` and `Destroy` of `runtime.go` | checked, safety proved |
| `MCGateway`, `MCCustody`, `MCBackends`, `MCReadiness`, `MCReads`, `MCUploads`, `MCBoundCalls`, `MCMinioNetwork` | small instances | |
| `GatewayProof` (with `Hub`), `CustodyProof`, `BackendsProof`, `ReadinessProof`, `ReadsProof`, `UploadsProof`, `BoundCallsProof`, `NetworkProof` | theorems and proofs | |

`Gateway` extends `Hub`: the hub's actions are conjuncts of the gateway's, so
each handler step is the hub method it calls and what the handler does around it.
`Backends` instantiates `ObjectStore` and implements it. `Reads` extends `Listing`, which has
no state: how each backend makes one page of its listing. `BoundCalls` extends `Refusals`, which has
none either: what an error is told as. `Uploads`, `Custody`, `MinioNetwork` and `Readiness` stand alone: `Uploads` has
the content of one Put and nothing of its conditions, which are in `Backends`, or of its event, which is in `Gateway`; `MinioNetwork` has the start and end of a run's containers and
nothing of the store, `Custody` the store and nothing of the network.

Operators whose comment begins with *Mutant* are a definition with a plausible
bug in it. No specification uses them; each shows that a property would notice
that bug.

### Hub

One action for each method: every method holds `h.mu` for its whole body. A
receive takes no lock and is an action of its own (`Receive`). The loop of
`dispatch` sends to several channels while receivers run, but a receive touches
one channel and commutes with the sends to the others, so one step for the loop
(`Dispatch`) loses no behaviour.

A channel is what was ever sent into it (`stream`) and how much of that was
received (`taken`); an event is its place in `log`, the history of all dispatches.
`panicked` is set when a closed channel is closed again or sent on.

### Gateway

A call goes through `Begin`, one `StoreCommit`, `StoreRefuse` or `StoreLose` for
each key, one `Publish` for each key without an error, and `Reply`. `StoreLose` is
a backend call that took effect and still returned an error; it exists only where
`Lossy` is set. `DeleteMany` with an error and no entries is modelled as all its
entries failing. `WriteOutside` is a write that does not go through this replica.
A Watch handler goes through `WatchSubscribe`, `WatchHeader`, `WatchSend`, and ends
in `WatchBehind` (cut off, told so) or `WatchGone`. A hub that is closed at the end
of the process (`Shutdown`) also closes the channels.

The client is external. It does what `storage.proto` asks: it reads every key of
its prefix once the header arrives, and a key again when an event names it. Reading
is one key at a time (`Refresh`), so writes come in between.

Left out: conditions on writes, the content of an upload (in `Uploads`), versions, bindings, and
the authentication in front of the handlers. A condition that fails is a refusal.

### Custody

Each run of the agent has a `pc` that names the last step of Init it finished.
Runs of the model share one Docker display name, and so one container name and
one lock; their owners may be the same (two runs of one service) or not (two
services whose names collide). Each owner has a directory (`disk`) with the record
`custody.json`, `data/` and the marker in it, and a bucket in `data/`. Buckets
and ids are numbered in the order they are made; `written` remembers the bucket
objects were stored in.

What may go wrong is given by `Faults` and `Losses`:

- `crash`: the process dies between any two steps. The kernel drops its lock; its
  container stays.
- `io`: any call fails. In the preflight this refuses and rolls nothing back; after
  it, the containers are torn down, and the teardown may fail too.
- `power`: every process dies, and directory entries that were not synced
  (`unsynced`) may be gone. A file is synced before it is renamed, so what is lost
  is an entry, never the content of a file.
- `Losses`: how often the bucket, the record or the data directory is lost, or the
  data directory is replaced by another store's.

A container is removed by the id its environment got (`IsMine`), which is how the
agent uses `dockerrun`; that library is not in the repository.
`StartContainer` replaces whatever container has the name: the password is new in
every run and part of the fingerprint. `ensureBucket` asks and makes until it has an answer;
`MakeBucketUnanswered` is a bucket made by a request whose answer is lost, after which the
next try finds it there and takes it for one that existed.

Left out: the pull of the image and the user probe, which come before the lock and
change nothing; symbolic links and malformed JSON, which are refusals like those
modelled; version and owner of the record, which a run writes and compares but
which cannot differ under one directory; the 30 s after which `ensureBucket` gives up (a failure,
which `io` has at any step); the tenant store's mapping; the network.

### ObjectStore and Backends

`ObjectStore` is the contract: whatever a call does to the bucket happens in one
step, at a moment when its condition holds; a read delivers one version; a refused
call had reason and changed nothing; a batch calls deleted what it deleted. Where
the code says that less is promised, the call says so too (`promise`): the
condition of a MinIO conditional delete or copy, and of a GCS read, held at some
moment of the call (`bestEffort`); the condition of an S3 copy is not looked at
(`none`).

`Backends` has the requests the five packages really make, one step each. The
kind is chosen at the start. What differs between them is in four operators:
`LooksFirst` (which calls ask about the object in a request of their own),
`AsksAbsent` and `AsksTag` (which condition the acting request carries), `Object`
(what an ETag is: a hash, so that it comes back when the content does, or a new
number for each version), and `Codes` (the codes of a refusal; MinIO refuses a
create-if-absent with `PreconditionFailed`, the others with `AlreadyExists`). An
upload to GCS whose source fails is finalized all the same (`PutPart`), a
conditional GCS delete of an object that is gone succeeds (`DeleteGone`), and every
answer of a provider may be lost. What a look decides is per call: `LookGcs` pins the version it saw for the acting
request, `LookForDelete` and `LookForCopy` (MinIO) judge the condition and let the acting request go without one.

`IsAnObjectStore` is the refinement: the variables of `ObjectStore` are those of
`Backends` of the same name, `promise` follows from kind and call, and the look of a
best-effort call that was passed is `held`.

Left out: versions, ranges, if-modified-since, metadata, the stream of an
upload and its declared size (in `Uploads`), the metadata request after a 304, a key twice in one batch, and what the
client libraries repeat on their own.

### Readiness

One gateway process (`proc`), its monitor (`mon`) and an agent in `WaitForReady`
(`agent`), with a discrete clock. Code that does not wait takes no time: `Elapse` is
possible only when nobody has anything to do at once (`AtOnce`). A probe takes from
none to `Timeout`; it may succeed if the store was within reach at some moment of
it and fail if it was not at some moment (`saw`). Ticks are kept one deep, as by
`time.Ticker`, so a probe longer than the interval is followed by the next at once.
The verdict and its publication are two steps (`Judge`, `Publish`), since the health
service is told after the lock is released. `Flip` is the store, external.

The process leaves `run` by its deferred calls, last first: the monitor's context
is cancelled, then the hub and the store are closed (`Unwind`). `main` may exit while
the monitor is still at a probe. `basis`, `age`, `sinceUp` and `good` are history.

Left out: the transport under the Ready call (a call while nothing serves fails,
at once or at the end of the attempt), and a second gateway, but for its answer to a
stale token, which is `"rejected"` at any time.

### MinioNetwork

`pc` follows a run through Init (one step for each call to Docker), `ready`, and
teardown, which a rollback and `Destroy` share. There is one container of a kind at a
time (`box`: the run that made it), since it has the service's name, and each run
recreates both, because MinIO's password is new in each run and part of what the gateway is
given. `Start` is core's `runner.Init`, `Removes` its `Shutdown`: by id. The lock is that of
`Custody`, released where the code releases it: before the rollback of MinIO
(`GiveUp`), after the rollback of the gateway (`Return`). With `"io"` any call may fail;
a start, a create, an attach and a removal may also have taken effect when they
do. `faulted` and `orphaned` are history: which run met a fault, and whether a network
was made by a create whose answer and second look both failed (nobody can know of that
one). Left out: custody's steps, the environment and mounts of the containers, the
gateway without a local MinIO, which has no network.

### Listing and Reads

`Listing` has the data of a listing: names are numbers in the order of the strings, a
folder (common prefix) is a number before the names it folds, and the configured prefix is
the interval from `Base`. There is one operator for the way each backend makes a page: `MemPage`
(one pass over a map), `StorePage` (S3 and Azure: one request, the store's token),
`GcsPage` (the pager of Google's library asks until the page is full), `MinioPage` (the library hands on
the objects of an answer before its folders, the backend stops at its limit and makes the token itself).

`Reads` is one caller that pulls a prefix, as a datasource does: it lists page by page
(`ListBegin`, then `ListMem` or one `ListStore` for each request), then reads what it listed by GetMany at the
listed ETags or by Get. An object goes through the steps of `getManyItem`: `ItemOpen`, on GCS also
`ItemPinned` and, after a 404, `ItemConfirm`; on MinIO, whose `ItemOpen` is the HEAD of `obj.Stat()`, also `ItemFetch`, the GET
that follows when the body is first read; `ItemLearn` where the store gave no size; `Relay` for each frame
of `streamBody`; `ItemEnd`. MinIO's GET insists on the ETag of its HEAD (`minio-go`, external), so what was replaced or removed in between
is refused, and since that is an error of the body, the whole call ends (`BodyRefused`). A 404 of MinIO's HEAD has no body: whether it says
that the bucket is what is missing is left open (`NotFound`). `mode` is chosen at the start: the backend, whether the calls are bound,
delimiter and limit. `Write`, `DeleteObject` and `RemoveBucket` are others, external, between any two
steps. Bodies are counts of bytes and the version they came from. `absent` is history: the keys that were
missing at some moment while the bucket was there.

What may go wrong is given by `Faults` and `Lies`. `cut`: an answer breaks off. `confirm`: the
second request of `objectErr` fails. A bound store is the caller's own and may be anything: `long`, it answers
more than was asked for; `noToken`, it marks a page truncated without a token; `size`, it gives the
wrong size. Any store may give no size.

Left out: versions, ranges, If-None-Match, a caller that stops receiving, what the libraries
repeat, and which code a failed request gets, which is in `BoundCalls`: an answer that breaks off is `BrokenOff` here, and one that is refused when its body
is read is `BodyRefused`. The caller is told `INTERNAL` of both.

### Uploads

One Put. The client (`Send`, `HalfClose`, `CutOff`) sends messages of four kinds and may stop at any
point. The handler looks at the first message (`StartPut`, `RefusePut`), waits for the backend, and
answers (`Ack`, `Fail`). The goroutine it starts receives (`Receive`), writes to the pipe and ends
(`FeederEnds`, `WriteFails`). A write to the pipe and the read that takes it are one rendezvous
(`Read`). The backend reads to the end of the pipe (`ReadAll`) or, where MinIO is given a length, to its last byte; it meets a
broken source (`ReadFails`), a body shorter or longer than declared (`ReadShort`, `ReadLonger`), or a request of its own that
fails (`StoreFails`); then it makes the object (`Commit`), perhaps by an answer that is lost.

The body is the set of the places of the data messages: a pipe keeps their order, and a piece of data counts as one
byte of the declared size. `Backends` has what a stored object does to others.

### Refusals and BoundCalls

`Refusals` has `mapErr` as the table it is in each backend: rows of codes and HTTP statuses, first match wins (`Class`). On top of it are
`probeErr`, which alone asks whether there was an answer at all, the policy of a bound call (`CallErr`), and the code, reason and delay of the
status (`ToStatus`).

`BoundCalls` is one read from its admission to its status. `RefuseBinding`, `Unresolved`, `Qualify` and
`OpenUnnamed` are `boundConfig`, `egress.Qualify` and the constructor. `Connect` and `ConnectFails` are dials under the guard
(`Admits`): a name resolves anew at every dial, a dial tries several addresses, and one refused is recorded for good
(`Latched`). `ConnectOwn` is the gateway's own backend, whose client has no guard. After that a store does as it likes: sends its
client elsewhere (`Redirected`), gives or denies a token (`TokenGiven`, `TokenDenied`), answers, declines with any status and code its provider
knows, sends too much, or nothing. `Retry` is the provider's library, `Confirm` the second request of
`objectErr` on GCS, `Expire` the deadline. Addresses are classes of the registries; credentials are names for what is on the wire, so that `text` is the set of
credentials a library reads in an error, and `Redacted` what is left for the caller.

A call has a guard and a backend of its own and shares nothing with others, so one call is enough.

Left out: the parsing of endpoints, of the composed list and of addresses; TLS; the details beside a reason; the body of an answer, which is in `Reads`.

## Runs

| Run | Checks | Bounds | Shows |
|---|---|---|---|
| `gateway` | of `Hub`: `ChannelDiscipline`, `ContiguousUntilDropped`; `EveryChangeIsHinted`, `NoPhantomEvent`, `OrderOfCalls`, `CutOffIsTold`, `IndexSettles` | 2 calls of 4 kinds, 2 keys, 1 client of one key, buffer 1, lost answers, 1 foreign write, fairness | the methods of the hub in every order; hints cover the changes, none is invented; a client is told, an index settles |
| `custody` | `NeverReplaced`, `OneProvisioner`, `ReplacesOnlyItsOwn`, `InitializesOverNothing` | 2 runs of 2 owners of one display name, `crash` and `io`, 1 loss | crashes, losses and colliding names never cost a store |
| `custody_power` | `StoredStays`, `PendingResumes` | 1 run, `crash` and `power`, fairness | what is stored goes only with a directory nobody synced, as a whole; a bootstrap resumes from its record |
| `custody_parent` | `CommittedIsDurable`, violated | 1 run, `crash` and `power` | finding 3 |
| `backends` | `IsAnObjectStore` | 2 clients, 2 keys, 2 contents, 3 versions, 5 kinds, 1 key for each delete request | every interleaving of the requests of two calls keeps the contract |
| `readiness` | `VerdictIsObserved`, `VerdictIsFresh`, `ReadyOnRecentAccess`, `GoodIsNotGivenUp`, `WaitEnds`, `SignalStops` | interval 1, probe timeout 2, attempt 1, poll 1, budget 6, grace 1, 1 stream | bounds on how old a verdict, a success and a refusal are; the wait and the shutdown end |
| `network` | `ReadyIsConnected`, `CleanIsGone`, `OnlyASuccessorReplaces`, `LockIsFreed` | 2 runs, `crash` and `io` | runs do not take down each other's containers, nor the network under them; the lock is freed |
| `reads` | `CompleteListing`, `NotFoundIsAbsence`, `FramesAgree`, `BodyIsOfItsHeader`, `Capped`, `FailsForCause`, `PullEnds` | 3 keys, 2 of them in a folder, 1 name on either side of the prefix, pages of 1 or 2, batches of 2, cap 2, 1 change by others, `cut`, every lie, 5 kinds, the bucket removable but on GCS | a pull through each backend misses nothing, takes nothing for deleted that was not (but for a bucket of MinIO's), fails for one object on MinIO only, and ends |
| `uploads` | `StoredIsWhole`, `PutEnds`, `FeederIsGone` | 5 kinds, declared sizes -1, 0, 1 and 2, up to 4 messages, fairness | no torn object but the two named ones; an upload ends and leaves no goroutine |
| `bound_calls` | `OnlyAdmittedReached`, `RefusalIsSaid`, `NoCredentialTold`, `ReasonIsDocumented`, `AbsenceIsAnswered` | 4 kinds, a public, a private and a link-local address, 4 authorities (1 composed, 1 a literal), 10 statuses, 3 requests | where a bound call connects to, and what its failures are told as |
| `reads_gone` | `NotFoundIsAbsence`, violated | GCS, its bucket removable, `confirm` | finding 1 |
| `uploads_size` | `SizeIsAHint`, violated | as `uploads` | finding 2 |

Types are theorems, not runs, in every module but `Reads`, whose `TypeOK` says what its variables
range over (it holds when `MCReads.cfg` lists it; `ReadsProof` has the types it needs in its own invariant). `Uploads` keeps `AckedIsWhole` for a theorem too: it follows from what `uploads` checks.

Why the bounds are enough. A channel of the code holds 256 events; what matters is
that it can be empty and full and that a cut can happen before,
between and after two events, which one place and two calls show. Two calls overlap in every way
two can, and one may begin after the other was answered; one of them can be a
`DeleteMany` with a failing entry. In `network` one run tears down at any pace while the other is anywhere in Init.
Two runs are enough for each race of custody, of two owners so that each has a directory and
both want the one container name: one holds the
lock, one is before, after or killed, and a killed run starts again as a new one
without a bound on how often, which also is how one owner runs twice. `MaxMade` bounds the ids and buckets made; a store that
is refused for good makes none. One
run is enough for `custody_power` and `custody_parent`: a run that was killed starts again as a new one, and runs have
the lock one after the other. `StoredStays` is a theorem for every number of them. Two losses would be too many on purpose: with the
record and the data both gone nothing is left to tell a lost store from a new one.
In `backends`, three versions are what a lost compare-and-swap needs: the first is
looked at, the second overtakes it, the third would overwrite it. Calls that write
reserve their version when they begin, so the bound never stops one half way. Two
keys give a copy two ends and a batch two requests; two contents let an ETag that
is a hash come back. The two clients, keys and contents are interchangeable.

In `readiness` the probe may outlast the interval, so ticks are dropped, and the budget
holds two probes that time out and the polls after them; the three bounds
(`VerdictIsFresh`, `ReadyOnRecentAccess`, `GoodIsNotGivenUp`) fail when made smaller by
one. The clocks of history stop at `Horizon`, which is past the largest of these bounds, so none holds because a clock stopped. By default the interval is the longer one (10 s and 5 s, with a budget of 60 s), but
`SOS_PROBE_INTERVAL` and `SOS_PROBE_TIMEOUT` may be set in either order; the run takes the
harder one.

In `reads` one change by others is enough to come between any two requests: a replaced, deleted
or new object and a removed bucket are each a single change, and no property speaks of a relation between two. Three keys on pages of
one or two make listings of one to three pages, with a folder split between pages and not. A limit above the cap of a
page is asked for by the bound calls only, which clamp it. An unbound limit stays within
`PageMax`, and no object of the prefix comes after the folder, since otherwise MinIO's listing is not complete (see Findings, and `SkipsFolders` in `ReadsProof`). Sizes are none, the cap and one more; a
frame is one or two bytes.

In `uploads` four messages hold a header, two pieces of data and one more of any kind, on both sides of every declared size. In `bound_calls` three requests
are a token, a request sent elsewhere and what it leads to, or a request and two retries; an address of each class that is treated
differently is enough, since the guard judges one address at a time, and a multicast or unspecified one is judged as a link-local one.

Deadlock is checked in `backends`, `readiness` and `bound_calls`. Elsewhere: calls and streams end, a stopped hub has nothing left to
do, and a directory that is refused stays refused until an operator acts.

## Fairness

`Gateway`: a handler that was called goes on, and a backend call returns (each has
a context with a deadline or a client that gives up), so the steps of a call are weakly fair
together; which of commit and refusal happens is not. The handler of a stream
runs while its client reads, so `WatchHeader`, `WatchSend` and `WatchBehind` are weakly fair; so is the
client's reading. Calls need not begin, streams need not end, and nothing is
assumed of writes outside.

`Custody`: a process that is not killed runs Init to its end, and codefly starts the
service again when a process is gone. `PendingResumes` is about executions in
which runs stop being killed (`<>[][~Killed]_vars`), since one killed each time
never gets anywhere.

`Readiness`: goroutines that can run do (`Monitor`, `Process`, `Agent`) and time goes on.
Nothing is assumed of the store, of clients' streams or of a signal.

`MinioNetwork`: a process that is not killed goes on, as the calls it makes have deadlines.

`Reads`: no store need answer, on any backend but memory. The caller goes on with its next call, time passes (`Expire`, only where the
code sets a deadline: in bound calls), and a request whose deadline has passed fails, since its context does. What is in memory
already is relayed. So `PullEnds` says that the deadlines of `binding.go` reach every place where a bound pull can wait.
Of an unbound pull it is not claimed: the gateway sets no deadline there, the client does.

`Uploads`: the handler and the feeder run, and a backend that can go on does; its requests have the call's
context, which ends with the client. The client need not send, end or hang up, and a store need not fail: `PutEnds` asks for the end of the stream or of the client, as
a Put has no deadline of its own.

## Findings

1. **A failed check of the bucket makes its objects look deleted** (`reads_gone`). On GCS a 404 does not
   say what is missing, so `objectErr` lists the bucket. When that request fails in turn (throttled, no
   permission to list, past its deadline) its error is dropped and the item is `NOT_FOUND`, for every item of the
   batch if it keeps failing. `gcs.go:249-250` and `README.md:188-189` say that this is what must not happen. With
   the bucket in place `NotFoundIsAbsence` holds on GCS (run `reads`).
2. **`total_size` is no hint to MinIO** (`uploads_size`). `minio.go:332` hands every size that is not negative to
   `minio-go`, which takes it for the length of the body. A header without the field says 0: the object stored is empty, the call succeeds, its event is
   published, and the feeder waits for ever at a pipe nobody reads or closes: on success nothing closes it (`server.go:279-285`). `FeederIsGone` is of the
   other ends of a call and does not cover this leak; it excludes `Understated`. A size that is too small keeps as much of the body. `storage.proto:240` and `backend.go:144` call it a hint; the tests always send the exact
   size.
3. **A committed store may go with its directory** (`custody_parent`). The parent of a store's directory is synced by the run that
   wrote the first record, after the record is in place (`minio_custody.go:222-233`). When that run is killed in between, the next one finds
   the record and goes on from it, commits, and syncs the record's directory but never the parent. Objects are stored, and a loss of power may then take the whole
   directory; the run after it finds nothing and starts over. `minio_custody.go:280` says that rename and fsync make the commit "a single durable transition",
   `docs/local-minio-recovery.md:21` that this is durable data. Nothing but this directory entry can go: `StoredStays`, checked by
   `custody_power` and proved without any condition on what fails, excuses a directory whose entry was never synced, and nothing else (parts lost by themselves, `Losses`, are the subject of `custody`).

More, seen while modelling, that no run is spent on:

- Events of one key can come out of order: the write and its event are two steps with no lock over them, so of two overlapping
  writes the later one's event may come first. `server.go:393` and `storage.proto:357` promise order. A consumer that reads the key when it gets an
  event is unharmed, as `EveryChangeIsHinted` and `IndexSettles` show, and calls that do not overlap keep their order (`OrderOfCalls`).
- A failed teardown forgets the network: when a container could not be removed, the network cannot be either; `removeMinIONetwork`
  takes that container for a successor's and forgets the network, so the teardown that is tried again leaves it behind and
  reports success. The test of the retry sets `rt.minioNetwork` by hand.

- A write that took effect but whose answer was lost is announced by no event
  (`StoreLose`), although `storage.proto:358` says that a lone replica loses events only by
  `RESOURCE_EXHAUSTED`.
- A store that does not answer is told as `INTERNAL`. `mapErr` of every backend makes `Internal` of an error without an answer; only `probeErr` asks
  `serr.Unreachable`. `serr.go:32-33`, `README.md:67` and `README.md:381` promise `UNAVAILABLE` with `STORE_UNAVAILABLE`. A deadline that passed is
  told as documented, by the policy of bound calls.
- A GetMany from MinIO ends for one object: when it is replaced or removed between its HEAD and its GET, the body's first read fails, and the stream ends with `INTERNAL`
  (`server.go:184`, `232`). `server.go:124-126` says that what happens to one object is its own outcome, `README.md:180-181` that a replacement
  between two requests is `CHANGED`, of GCS. `FailsForCause` names the case, and that it is the only one.
- A GetMany from MinIO whose bucket is missing may say `NOT_FOUND` of each item: its first request is a HEAD, and a 404 without a body is `NotFound` (`minio.go:175`).
  `server.go:126` and `README.md:188-189` say that it never does; `README.md:342-344` says why a HEAD cannot tell. `NotFoundIsAbsence` names the case.
- A teardown may pull the network from under a successor: the lock is released by a deferred call of
  `startLocalMinIOWithRelease` before Init rolls back, and `Destroy` takes none, so the network may go after a
  successor has found it and before it is attached, and the successor's Init fails. `runtime.go:194` says the lock
  covers the rollback. A successor that is attached keeps its network (`ReadyIsConnected`).
- `s3.Copy` does not read its options: with `if_none_match = "*"` the destination is overwritten and the call
  succeeds. `storage.proto:294` promises copy-only-if-dest-absent, `backend.go:199` promises `Unsupported` where
  the capability is false, which for S3 it is.
- An unbound List from MinIO with a delimiter and a limit above 1000 may skip folders: `minio-go` hands on a page's
  objects before its folders, and where the backend stops between them its token, the last name handed on, is past
  folders that were not (`minio.go:450-459`). A bound one may too, where the caller's own store answers with more than it was asked
  for. There is no other way: `ReadsListsAll`.
- A List with a delimiter from the memory backend reports a folder again on the next page when the page ended inside it
  (`mem.go:232`): the token is the last key visited. Nothing is missed, so `CompleteListing` holds.
- A bound Get is held to the cap, not to the size the store declared: `server.go:117` passes -1, while
  `README.md:139-141` reads as if a store that sends more than it declared were refused.
- A GCS Get without a condition is refused with `PreconditionFailed` when the object is replaced between its two
  requests, so GetMany says `CHANGED` of an item without `if_match`.
- An account key for Azure that is not base64 is told as `INVALID_ARGUMENT` with reason `INVALID_ARGUMENT`, a malformed GCS key with `BINDING_INVALID`.
- A 401 of S3, MinIO or Azure and a token that GCS is refused are `INTERNAL`, not `CREDENTIAL_REJECTED`: only GCS has 401 in its table.
- The record of a refused dial lasts for the call, so a later failure of another cause is `DESTINATION_REFUSED` too (`RefusalIsSaid` is written so).
- A dial (10 s) or a wait for headers (30 s) that times out satisfies `errors.Is(DeadlineExceeded)` and is told as `OPERATION_DEADLINE` before the deadline of the call.
- A conditional Get answered with 304 asks for the metadata next (`s3.go:303`, and Azure); an object replaced in between gives `not_modified` with the new ETag.
- A HEAD of an object in a missing bucket is `OBJECT_NOT_FOUND` on S3 and MinIO, since a HEAD has no body to say more, and GCS's Stat does not ask about the bucket.
- A GCS upload whose stream breaks on a message the server refuses, with its context alive, is finalized with what had arrived (`StoredIsWhole` names it).
- MinIO's DeleteMany with a key twice records an error for one of the two entries only (`minio.go:381`).
- The directory of projected GCS credentials is the same for all runs of a service, so a teardown takes a successor's copy with it (`runtime.go:459-475`).
- The age of a verdict is bounded by interval and timeout, not by the interval, as
  `config.go:39` says.

## Proofs

For every value of the constants, `tlapm` checks:

| Theorem | States | From |
|---|---|---|
| `HubTypeCorrect`, `HubNeverPanics`, `HubContiguous`, `HubDropsOnlyTheSlow` | the four properties of `Hub` | `HubAssumption` |
| `GatewayTypeCorrect`, `GatewayHints`, `GatewayNoPhantom`, `GatewayOrder` | `TypeOK`, `EveryChangeIsHinted`, `NoPhantomEvent`, `OrderOfCalls` | and `GatewayAssumption` |
| `GatewayImplementsHub`, `GatewayStreams` | `HubSpec`, and with it `ChannelDiscipline` and `ContiguousUntilDropped`, of the gateway | the same |
| `CustodyTypeCorrect`, `CustodyExcludes` | `TypeOK`, `OneProvisioner` | `CustodyAssumption` |
| `CustodyNeverReplaces` | `NeverReplaced` | and no `power`, `Losses <= 1` |
| `CustodyInitializesOverNothing` | `InitializesOverNothing` | the same |
| `CustodyReplacesOnlyItsOwn` | `ReplacesOnlyItsOwn` | `CustodyAssumption`, whatever fails |
| `CustodyStoredStays` | `StoredStays` | `CustodyAssumption`, whatever fails, dies or loses power |
| `BackendsTypeCorrect`, `BackendsAreObjectStores` | `TypeOK`, `IsAnObjectStore` | `KindsAssumption`, `BoundsAssumption`, `NoneAssumption` |
| `ReadinessTypeCorrect`, `ReadinessVerdictIsObserved`, `ReadinessVerdictIsFresh`, `ReadinessSuccessIsRecent`, `ReadinessGoodIsNotGivenUp` | `TypeOK`, `VerdictIsObserved`, `VerdictIsFresh`, `ReadyOnRecentAccess`, `GoodIsNotGivenUp` | `TimesAssumption` |
| `NetworkTypeCorrect`, `NetworkStaysConnected`, `NetworkCleanIsGone`, `NetworkOnlyASuccessorReplaces` | `TypeOK` and the three safety properties of run `network` | `NetworkAssumption` |
| `ReadsFramesAgree`, `ReadsBodyIsOfItsHeader`, `ReadsCapped`, `ReadsFailForCause` | `FramesAgree`, `BodyIsOfItsHeader`, `Capped`, `FailsForCause` | `KeysAssumption`, `ReadBounds`, `PagingAssumption`, `NoneAssumption` |
| `UploadsTypeCorrect`, `UploadsStoredIsWhole`, `UploadsAckedIsWhole` | `TypeOK`, `StoredIsWhole`, `AckedIsWhole` | `UploadAssumption` |
| `BoundCallsTypeCorrect`, `BoundCallsReachAdmitted`, `BoundCallsRefusalIsSaid`, `BoundCallsTellNoCredential`, `BoundCallsReasonIsDocumented`, `BoundCallsAbsenceIsAnswered` | `TypeOK`, `OnlyAdmittedReached`, `RefusalIsSaid`, `NoCredentialTold`, `ReasonIsDocumented`, `AbsenceIsAnswered` | `CallAssumption`, `NoneAssumption`, `DelayAssumption` |
| `ReadsNotFoundIsAbsence` | `NotFoundIsAbsence` | and no GCS bucket is removed |
| `ReadsListsAll` | `CompleteListing`, unless `SkipsFolders` | as `ReadsFramesAgree`, and `NamesAssumption` |
| `ReadsCompleteListing` | `CompleteListing` | and, where MinIO is used, no `long` and no limit above `PageMax` |

*Hub.* `HubInv` joins types, `ChannelDiscipline` and `ContiguousUntilDropped`: a gap can
only be excluded where a channel that is open is known to be registered.

*Gateway.* Every step of `Gateway` is a step of `Hub` or leaves the hub alone
(`HubSteps`), so the hub's invariant carries over. `Phases` adds that a call which has
not begun has nothing to publish and one at the store has a key left. A commit puts the
key among the call's hints, `Publish` moves it into the channel or cuts the client
off, `WatchSend` moves it into what the client has to read: in none of them is it lost.
`Promises` says whose events are in a call's hints and that an answered call has none left; the order of calls follows,
because a call that began after another's answer began when that other had nothing more to publish (`CallStepShape`).

*Custody.* `NeverReplaced` is not inductive: the invariant has to say why a run that
finds a bucket missing was not told that the store is new. `Kept` says of a store that
is in use (stored in, or behind a run that is ready) that its record, if there, is
committed, that the record or the data is there, and that no run of its owner is at a
step that could initialize it or believes the store to be new. `Progress` says what a
run knows at each step, so that `Ready` can establish `Kept`. `OneProvisioner` makes it enough
to look at the run that holds the lock (`Local`). Steps that touch no store are
dealt with at once (`Quiet`). `Losses <= 1` enters in `Lost` alone, the absence of `power` in
`CustodyNext` alone.

The other three have invariants of their own beside it. `MountKnown` says that a run past its look at the container still
sees there what it saw: none, or one on its own directory, since others that could change that need the lock.
`Housed` and `NothingThere` say that a bucket is in a directory with something in it, so that a run that found nothing has
none to lose. For `StoredStays`, `Course` says what a run has made of the store at each step, whoever made it, and
`Durable` that a store in use is complete, with nothing unsynced but perhaps the entry of its directory. Both need `MarkerFirst`: a record is on disk after the marker
only, so a run that resumes from a record it found has the marker on disk. `Numbered` says that buckets are numbered upwards, so that one made later is never mistaken for the one objects are in.
No hypothesis on faults is left: the case in which the directory goes (finding 3) is in the property.

*Backends.* One lemma for each action maps it to a step of `ObjectStore` or to a
stutter. The invariant next to the types says what a call knows in each phase: a call
that acts after a look on GCS carries the ETag it was judged by, which is the call's own
where it names one, and a batch works on its own keys only. ETags are not compared
between versions, so nothing depends on hashes being free of collisions.

*Readiness.* `Inv` ties the clocks to the loop of the monitor while its context is alive. `Due`: how much of an interval and a probe can have passed since the
last verdict, at each place of the loop, with a tick kept or not. `Met`: a probe that succeeds, or fails, met the store so since it began.
`Speaks`: a verdict is about the time since its probe began. `LookedLately` adds for the agent that the look on which it gives up is at most one poll
old. The four bounds are sums of these, for every interval and timeout, whichever is longer, and every budget.

*Network.* `Inv` says that only the holder of the lock is on its way up, that a container is
remembered by the run that made it, what each phase has attached, and what a teardown
without an error has removed. `BoxStep` sums up what a step can do to a container
of any kind: nothing, remove it, or be the start of the run's own; that is all that other runs
need to know of it.

*Reads.* `Inv` says what an item knows at each of its steps: `Pins`, that the version a batch looks up is
the one listed; `Dated`, that an object which replaces one that an item has seen bears a later version, so that an item of MinIO's that was
overtaken before its GET stays so, and its call failed for that; `Bodies`, that an item is at the version its header named and that under a header the bytes relayed and those still due add up to the
size declared; `Caps`, that neither is past the cap of a bound call. The steps of an item come in a few
shapes (`ToldStep`, `EndsStep`, `MovesStep`, `HeaderStep`, `FrameStep`), each preserving `Inv` once for all
backends and faults. `Absence` adds that an item waiting to confirm a 404, or told `NOT_FOUND`, is of a key that was absent, or of a bucket of MinIO's that is gone.
Its condition, that no GCS bucket is removed, is the one finding 1 shows to be needed.

*Listings.* `PassedIsKnown` says that every key is listed, known to have been absent, or still to come after the token, or after the name
the page goes on from; on the memory backend a name comes after another, elsewhere its entry does, which is why tokens of the two kinds never mix.
An answer is a front of what comes next (`FrontOf`), so its last entry is where to go on. One lemma for each backend shows that its
page passes nothing by (`Passes`): S3 and Azure by their store's answer, Google by as many as fill the page, memory by the keys visited, MinIO
in three ways: with no limit, without folders however long the answers are, with folders when an answer fits in what is left of the page. `SkipsFolders` is what
remains. Nothing here is an induction: the pages of a listing are steps of the model.

*Uploads.* `Fed` ties the three parties together: while the backend reads, it has the data among the messages received but
for the one being written; the pipe is closed as at an end only after the end of the stream, and broken only by what
cannot be received or with the client. So whoever reads to `eof` has the whole body.

*BoundCalls.* `Admission` says what the guard may hold, `Course` that a call not opened has asked nobody. `Errors` keeps what is in
an error apart from what was sent; it needs `TokenIsOut`, that a GCS token is among what was sent by the time a store can quote it. That no class leads to the reason
`DESTINATION_REFUSED` by itself is shown of the tables, row by row. So is that every class has a documented code and reason
(`ClassIsDocumented`). For `AbsenceIsAnswered`, `CodeIsOfKind` says that only a store's answer has a provider's code, and the rows of a missing bucket
come first in every table (`BucketComesFirst`), so no such answer is taken for a missing object.

Only model-checked: `PullEnds`, `PutEnds`, `FeederIsGone`, `CutOffIsTold`, `IndexSettles`,
`PendingResumes`, `WaitEnds`, `SignalStops` and `LockIsFreed`, since fairness is beyond the prover. Every other property of the passing runs is a theorem, some under the hypotheses named above.

## Not modelled

- The builder, the plugin's registration and settings, and the image evidence tooling: rendering, parsing and release I/O,
  without a state that outlives a call.
- Presign: a URL is computed from its arguments and clamped to a lifetime; nothing of the system depends on it.
- Versions and ranges of objects, if-modified-since and metadata: options a provider carries out, handed through as they are.
- The key prefix on writes: the same concatenation that `Listing` has for reads.
- The parsing of endpoints, of the composed list, of configuration and of the registries of addresses: the outcome (usable or not, and its class) is
  an input of the models.
- The probe of the container user, symbolic links under custody, and the projection of GCS credentials, of which the one hazard is listed above.
- What provider libraries do beyond what this code relies on: their retries are any number of requests (`Retry`), their wire formats nothing.
- The authentication interceptor in front of the handlers: it lets a call through or refuses it, before any state is touched.

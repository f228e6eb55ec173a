# TLA+ models of TOR-ONION

The repository is a collection of subsystems taken out of larger programs: the
HTTP client thread of a JavaScript runtime, the main program of Tor, parts of a
browser's GPU, navigation, file system and painting code, a mail client's message
layer. They do not form one program; each has its own state and its own hard cases.
This directory models those with real control: queues between threads, reference
counts under nested callbacks, caches, locks, timers, and work that must wait for
the GPU. Module, action and variable names follow the source; every action is
commented with what it stands for.

    tlasany M.tla                 parse
    tlc -config X.cfg M           model-check
    tlapm M.tla                   check the proofs of a module of section 5

## 1. Inventory

Modelled (details in section 3):

| Component | Source | State | Operations | Interacts with | Hard because |
|---|---|---|---|---|---|
| HTTP thread | `networking/http_thread.rs`, `networking/common/https.zig` | four queues, deferred requests, count of active requests, abort tracker, `has_awoken` | `schedule*`, `wakeup`, `drain_events`, `onAsyncHTTPCallback` | client threads through queues and a wakeup; sockets through callbacks | threads interleave, wakeups can be lost, a limit defers requests, aborts race answers |
| Custom TLS contexts | `networking/http_thread.rs` | a map from the address of a configuration to a counted context | `connect`, the sweep, eviction | clients that hold contexts | addresses are reused, the sweep removes while it iterates |
| Proxy tunnel | `networking/prox_tunnel.rs` | reference count, write buffer, handshake verdict | `start`, `receive`, `close`, `adopt`, callbacks | HTTP client, TLS wrapper, pool, `drain_events` | callbacks nest and drop the tunnel they run on; tunnels are pooled |
| Tor main | `app/startup/main.c` | lock file, pending signals, exit code, state told to the service manager | start-up, signals, reload, shutdown | other processes through the lock, the service manager | every order of signals, every early return |
| Vulkan fence helper | `app/graphics/vv_helper.cpp` | generations, tasks with fences | enqueue, fence, callback, wait, destroy | the GPU | fences and callbacks are seen late and in any order, calls fail |
| Error page reloader | `muim/error_loader.cpp` | pending navigations, page, timer, count | observer callbacks, timer, throttle | the content layer | navigations overlap, the timer races them |
| Mount points | `z-box/handler-store/external_m.cpp` | two maps | register, revoke, crack | any thread, under a lock | overlap is decided by two neighbours in a text order; look-up and crack are two critical sections |
| Alert sockets | `networking/lib/alertsock.c` | two descriptors | create, alert, drain, close | alerting threads and an event loop | fallbacks, partial failure, alerts that race the drain |
| Paint | `networking/common/this_paint.rs` | painters, message channel, shutdown state | web views, `handle_messages`, shutdown | embedder, scripts, WebRender | batches are reordered, painters vanish, shutdown ignores most messages |
| Versions, protocols | `networking/lib/version.c` | a bounded map from protocol lists to summaries | parse, compare, summarize, judge, sort | the caches of descriptors; configuration | old spellings, widths of integers, a cached summary is corrected per relay |
| Addresses | `networking/add.c` | none | print and parse IPv4 and IPv6 | everything that reads an address | `::`, embedded dotted quads, buffers that are too short |

What makes each of them correct is stated as the properties of section 4.

Not modelled, though there is something to say about them:

* `app/TUTA/mail` - a message dispatcher that matches answers to requests by a
  number, over transports that may not be connected yet. Hard: after a page reload
  the numbers start again, so that a late answer may meet a new request.
* `muim/bucket/host.cpp` - a mojo host whose answers come from the quota manager.
  Hard: a refresh of the bucket is asynchronous, the host goes when its last
  receiver is gone, a callback may outlive it. Nearly all of this is decided by the
  manager and the mojo bindings, which are not in the repository.
* `networking/web_sock.rs` - a two-byte header packed into an integer; a test that
  runs through all values says more than a model.
* `app/graphics/glyph/main_gr.cpp` - buffers that glyphs are sorted into. Which
  buffer a glyph goes to is decided by geometry and by a cache that is not in the
  repository.

The first two are what should be modelled next.

Left out: `muim/screen/host_resolver.cpp` (constructors and factories; the manager
with the behaviour is not in the repository), `app/gpu/*`,
`app/startup/start_ex.cpp`, `networking/android/*` (straight-line initialisation
against absent libraries), the other `muim` files (thin wrappers), `proton/*`,
`app/TUTA/ent/*` (constants, types and stateless helpers), `native-header/*`,
`pointers/*` and the files at the top level (language samples).

## 2. Plan

Order of writing, the most important first:

1. `HttpThread` and its proofs: the part with most concurrency. Done.
2. `ProxyTunnel`, `SslContextCache`: the other state of that thread. Done.
3. `TorMain`, `VulkanFenceHelper`, `NetErrorAutoReloader`, `ExternalMountPoints`,
   `AlertSockets`, `Paint`. Done.
4. An abstract `RequestQueue` (requests stand in line, run, or are done; at most
   `MaxRequests` run; only aborted ones leave the line early) and `HttpThread`
   shown to implement it, by TLC and by a proof. Done.
5. `TorVersions` and `InetAddr`, checked against reference definitions over texts
   around the ones the code names; composed in `TorLib`. Done.
6. Theorems for every state machine: each invariant and each action property of
   `HttpThread`, `SslContextCache`, `ProxyTunnel`, `TorMain`, `VulkanFenceHelper`,
   `NetErrorAutoReloader`, `ExternalMountPoints`, `AlertSockets`, `Paint`,
   `TorVersions` and `InetAddr` that holds. Done.
7. `MessageDispatcher` over a transport, and `BucketHost`. Open.
8. Composition: `ProxyTunnel` hands references to `drain_events` of `HttpThread`
   (`DrainProxyDerefs` stands for it today). A module with both would replace that
   external step. Open.

No module declares a RECURSIVE operator, so that all can be proved about.

## 3. The modules and the code

**HttpThread** (`MCHttpThread` adds symmetry and bounds).
`pc` is the phase of the loop: `bodies`, `writes`, `shutdowns` are the three
`drain_queued_*` functions, `tail`, `deferred`, `queue` the rest of `drain_events`,
`tick` the event loop's wait. Each phase takes its whole queue under the lock
(`batch`, `writeBatch`) and handles one message per step, so that clients run
between any two. A client's call is two steps, the push and the wakeup, with
`cpc` in between; the wakeup is lost while `has_awoken` is unset, as in the code.
`where` is how the thread finds a started request: in the abort tracker (`h1`,
`shut`, `h2`, `stale`) or not (`conn`, `h2wait`, `h3`). A started request may finish
at once inside `StartQueuedTask`; its callback then reads the queues as they are, and
so may the request whose body is written or drained (`Report`). `seen` is the copy of
the active count that `drain_events` decides on (line 591); `CopyIsRight`, a part of
`Counted`, says that it is the count whenever it decides.
Buffers, decompressors, preconnect and `sendSync` are left out.

**RequestQueue** is what a client is promised, without threads: a line, a status
for each request, and who gave up. In the mapping the line is the deferred requests,
then those the loop took and has yet to handle (`Taken`), then those in the queue; a
request is waiting from the push on, running while the thread can be called back
about it, and done after its last callback. A client's push, the loop's taking of a
queue and its moving of requests between the three parts thus change nothing, or
exactly one request; what the abstract specification forbids is that a request is
overtaken, lost, run twice, run beyond the limit, or run after its abort was seen.

**SslContextCache.** `connect` is `Connect`, then `Sweep` for each index of the
loop, then `Hit`, `Miss` or `InitFails`. `cache` is in the order of `values()`;
`SwapRemove` is what the map does to it. Objects are collected when no `SharedPtr`
holds them (`Collect`), and their address can then be given to another one.

**ProxyTunnel.** `stack` holds the calls in progress. A frame that the code guards with
`ScopedRef` holds a reference (`Guarded`); `start` and `close` do not, which is why
`on_close` leaves its reference to `drain_events`. `ctx` is the client that the wrapper
gives its callbacks: after `detach_owner` still the one that had the tunnel, until
`adopt`. `Attached` says that this client has it; a callback that finds it gone does
nothing here (the code reads the old client, whose life is decided elsewhere). `wire`
and `produced` run over the life of the tunnel, since its TLS session does; `lost` is
what went with a buffer that `adopt` reset. `stage` is what each client does; what the
client, the pool and the wrapper may do is external and as free as their use in the file
allows.

**TorMain.** `pc` is the place in `tor_run_main`. `Leave` is the ways out of it after
`tor_init` was called, each of which calls `tor_cleanup` or `tor_free_all` (lines 1049,
1068, 1116). These two are in a file that is not in the repository; `TorFreeAll` models
them with the one use that `release_lockfile` can have. A lock file that cannot be
opened, or locked for another reason than another process, fails `tor_init` at once
(line 519). A process may be killed at any point; the system
then drops the lock and the memory. The commands that only print or write keys are
one step, the list of paths of `sandbox_init_filter` too. A caught signal is
pending until the event loop processes it.

**VulkanFenceHelper.** `entries` is `cleanup_tasks_`, `pending` the tasks that have
no fence yet, `ran` the lists of tasks that were run, each with its generation
(0 for those that had none). The GPU is external: it
finishes work in order, but a fence is seen signaled and a callback invoked at any
time afterwards, in any order. Failures of `vkCreateFence`, of the submission and
of the device are alternatives of the actions that meet them.

**NetErrorAutoReloader.** `nav` describes the navigations of the primary main frame
that the content layer has in flight; `pending` those the reloader saw start. The
timer runs, has fired and not been reset, or is absent - the code's `OneShotTimer`
inside an `optional` has these three states. The network and the window may notify
without a change. A reload may go to another address than `page.url`, which a
redirected failure leaves behind. Its initial states, steps and
specification are named `Reloader...`, since `NetworkProofs` extends
`SslContextCache` too. `abandoned` is a history variable:
a navigation of the user that came to nothing stops reloading on purpose.

**ExternalMountPoints.** Names and paths are sequences of four characters in ASCII order,
since the order of texts decides whether looking at two neighbours is enough.
`GetVirtualPath` makes the name a path (`CreateVirtualRootPath`) and appends the rest;
`Cracked` refuses a virtual path with `..` (`ReferencesParent`, line 144) and takes the
first component for the name again. `reader` is a thread between the two critical
sections of `CrackFileSystemURL`. `IsParent` compares components, as `base::FilePath`
does, while the map compares text. Left out: names that start with a separator, which
`FilePath::Append` does not accept, and components `.`.

**AlertSockets.** `stage`, `method` and `tried` follow `alert_sockets_create`
through its fallbacks; descriptors are the lowest free numbers, as the system
gives them. The alerting threads and the event loop are external: work is left,
then announced; the reader drains, then takes all work. Its state and actions are
named `Alert...`, and those of `TorVersions` `Versions...`, where `TorMain` has the
plain name, since `TorProofs` extends all three.

**Paint.** `channel` is the receiver, `batch` what `handle_messages` still has to
handle after it took out the ready frames (`Retained` is what is left), `saw` its map
of those. A thread whose request is dropped unanswered is `refused`. `draw` stands
for all messages that are only passed to a painter, which then may or may not ask
for a frame. The handler used while shutting down has lost the pattern of its last
arm in the source (line 444); it is read as the wildcard its body logs. The memory
report changes no state and is left out.

**TorVersions, InetAddr, TorLib.** A text is a sequence of tokens: digit runs with their
values, separators, status tags with their rank, revisions. `Parse` follows
`tor_version_parse` from token to token, with the widths of its integers (`IntMax` is
`INT32_MAX`); its branches for `pre` and `rc` have lost the braces that their layout
shows (`version.c:191`) and are read with them. The loop of `tor_version_is_obsolete`
skips a `Tor ` that `Parse` would skip too, so that `Entries` may have it twice.
`Compare` is the difference of the first field that differs, of unsigned values and read
as an `int`; a revision that no `int` holds is negative after the cast in line 213, and
this comparison puts it in its place (`CompareSigned`, the mutant, does not). `Meant` is
a version with the revision that is written. The properties speak of `Releases`, the
versions from the oldest to the newest with the texts that name each, and
`ReleasesAssumption` and `AnnouncedAssumption` say that these describe what the texts
and platform lines of an instance are read as; TLC evaluates both, so that the instance
checks `Parse` and `ParsePlatform`. `protover_summary_map` is the cache of summaries,
flushed when it is full. Of `tor_version_parse_platform` the strict form, of the file
the release date is left out. `InetAddr` has `tor_inet_ntop`, `_pton`, `_aton`, `_ntoa`
for the families the file has. `TorLib` makes one process of both, with every call an
action and its result in `last`; `strcmp`, `tor_sscanf`, `smartlist_sort` and
`smartlist_uniq` are external.

## 4. The runs

| Run | Instance | Shows |
|---|---|---|
| `http_thread` | 3 requests, 1 slot, 3 writes, 1 drain | `Counted`, `NoLostWakeup`, `WaitersAccounted`, `QueuesAnnounced`, `ImplementsRequestQueue` |
| `http_liveness` | 2 requests, 1 slot | `AbortedWaiterEnds`, `ScheduledIsServed` |
| `proxy_tunnel` | 4 clients, 2 strict, 3 chunks over the tunnel's life | `Bookkeeping`, `NoUseAfterFree`, `StrictVerified`, `WireOrder`, `CloseReachesClient`, `Reclaimed` |
| `ssl_context_cache` | 2 clients, 2 configurations, 3 addresses, cache of 2 | `Bookkeeping`, `RightConfiguration`, `NoStaleHit` |
| `tor_main` | 2 processes | `LockInv`, `TermTerminates`, `ReloadReported` |
| `tor_dns_failure` | 1 process | `DnsFailureExits` is violated |
| `vulkan_fences` | 3 tasks, 3 generations | `FencesInUse`, `NoEarlyCleanup`, `EachTaskOnce`, `FencesRetire` |
| `net_error_reloads` | 2 navigations, 2 addresses, 2 errors, 3 delays | `TimerOnlyWhenUseful`, `NoForgottenPage`, `KeepsTrying` |
| `mount_points` | 4 names, 9 paths | `MapsAgree`, `FindsTheMount`, `CrackedBack` |
| `alert_sockets` | 3 workers, room for 2 alerts, 4 descriptors | `NoLeak`, `ForeignUntouched`, `WorkTaken` |
| `paint` | 2 views, 2 contexts, 2 painters, 2 messages | `ViewsHavePainter`, `PendingFramesMatch`, `RepaintNotLost`, `RequestsAnswered` |
| `tor_lib` | 13 texts in lists of up to 3, duplicates removed or kept, 7 platform lines, 4 protocol lists, map of 2; IPv6 addresses of 3 words, 7 octets | `RecommendedStatus`, `ListsSorted`, `SummariesRight`, `AddressesRead` |

Every property is stated in words above its definition. Operators with the comment
*Mutant* are variants of the code with a plausible bug; with one of them in place
of its original the property named for it in `PROJECT.json` fails. They show that a
property can fail; no specification uses them.

Bounds, and why they are enough:

* *http_thread*: one slot and three requests are the least with one in flight and
  two that wait, whose order matters. Three writes allow Data, Data, End and every
  split between rounds. A body is written while its request is alone, and one response
  is drained beside at most one other request (`BodiesAlone`): a callback out of either
  frees a slot that one waiter can take; one of three requests
  is not aborted (`SomeoneStays`), since what is behind all others matters only if
  it is to run. The proofs need neither bound. The request symmetry is sound for
  these invariants and the safety refinement.
* *http_liveness*: one that hangs and one that waits.
* *proxy_tunnel*: a strict and a lenient client before and after another of
  either kind; three chunks are written, buffered, and written behind a buffer, or lost
  with it and followed by what the next client writes.
* *ssl_context_cache*: two entries at the limit, a third address for the one
  that evicts; four contexts and three ticks reach every combination of stale and
  evicted. Clients, configurations and addresses are interchangeable.
* *tor_main*: the lock needs two processes; signals are a set, since a second one
  of a kind before the first is processed changes nothing.
* *vulkan_fences*: three generations are the least with one out of order between
  two others.
* *net_error_reloads*: two navigations overlap; a third could only repeat one. The
  counter of reloads stops at the last delay, as its only use does.
* *mount_points*: names of directories that sort before, at and after a
  separator, the root, the empty path, a parent reference, a relative path; a name of
  one component, one with a separator whose first part is another name, `..` and none.
* *alert_sockets*: more workers than room; one read of a pipe takes less than it
  can hold, so that draining is several steps. Four descriptors let others
  take a number just freed.
* *paint*: two messages are the least batch in which order matters; the second
  painter is either beside the first or takes its place.
* *tor_lib*: the texts are the two versions at which the code corrects summaries and
  their neighbours on either side, with a pre-release, a release candidate, a short
  spelling, a prefix, a doubled and a lower-case one, revisions up to the largest `int`
  and one more, a number beyond the width and texts that are no versions; lists of three
  have one entry before, between and after. Two summaries are the least map in which
  flushing one list loses another. Integers have 5 bits so that a digit run can exceed
  them. Three values for words reach every placing of `::` and both kinds of dotted
  quad; a buffer of 8 is too short for some. What only computes is called once
  (`NewProcess`), as it neither reads nor changes state.

Where the system may stop (all work done, everything closed, a bound reached) the
configuration says `CHECK_DEADLOCK FALSE`; in the others deadlock is checked.

**Fairness.** `HttpThread`: the thread and a client inside a call keep running;
nothing is assumed of the network except where `Answering` is the premise, which
the idle timeout set by `on_start` justifies. `ProxyTunnel`: calls return and
`drain_events` comes round, since `schedule_proxy_deref` wakes it. `TorMain`: a
process runs and libevent delivers every pending signal. `VulkanFenceHelper`: the
GPU makes progress and the owner goes on calling `HasPassed`.
`NetErrorAutoReloader`: navigations end, timers fire, `Reload()` starts a
navigation. `AlertSockets`: threads run. `SslContextCache`,
`ExternalMountPoints`, `Paint` and `TorLib` state safety only and need none.

**Finding.** `run_tor_main_loop` logs "Error initializing dns subsystem; exiting."
(`main.c:988`) but does not return: it reports READY and enters the loop. The run
`tor_dns_failure` states what the message says and TLC shows the step that breaks it.

**Seen while modelling, not claimed.** A reload that is redirected and fails with
the same error keeps the address of the earlier page
(`error_loader.cpp:163`). A HUP during a slow shutdown tells the service manager
READY after STOPPING. `finish_shutting_down` of Paint waits for the WebGL thread
after emptying the channel; should that thread ask for keys in between, both
wait. A mount on `/a//a` is not found for `/a/a` (section 5). A mount whose name has a
separator gives virtual paths that are cracked below the mount of its first part, if
there is one. `adopt` resets the write buffer (`prox_tunnel.rs:511`) of a tunnel whose TLS
session goes on: data left in it would be a gap in the stream; nothing in the file keeps
such a tunnel out of the pool. Two revisions of one version that are half the range of
an unsigned apart compare the wrong way round. The repository does not say
what is meant in these cases.

## 5. Proofs

`HttpThreadProofs` proves, for any finite set of requests, any limit of at least one
and any number of writes and drains:

* `CountCorrect`: `Spec => []Counted`
* `WaitersCorrect`: `Spec => []WaitersAccounted`
* `AnnouncedCorrect`: `Spec => []QueuesAnnounced`
* `WakeupsCorrect`: `Spec => []NoLostWakeup`

from the assumptions `MaxRequestsAssumption` (checked by `loadEnv` in the code),
`BoundsAssumption` and `ReqsAssumption` of the module.

The inductive invariant is `IndInv == CountInv /\ QueuesAnnounced /\ AbortsNoticed` with
`CountInv == TypeOK /\ ActiveIsInFlight /\ WaitersAccounted`. The three parts of
`CountInv` need each other: the count goes down only if a request in flight is counted,
a request is started only once because nothing waits twice, and what waits is not in
flight because of `WaitersAccounted`. `Counted` is its part that says what the count
means; `CopyIsRight` adds that the copy in `seen` follows it. `NoLostWakeup` speaks of a
sleeping loop only and is not inductive. `QueuesAnnounced` says for each queue and each
phase why its messages will be seen: something wakes the loop, or the thread has yet to
look into that queue. `AbortsNoticed` follows an abort from the raised signal through
the shutdown queue and `has_pending_queued_abort` to the requests that wait. When
nothing wakes the loop in `tick`, the two together leave nothing to do.

`InitHolds` and one lemma per part (`TypeStep`, `CountStep`, `WaitersStep`,
`AnnouncedStep`, `AbortsStep`) go through the actions of `Next`; `CallbackCounts` and
`StartCounts` are the facts about the two operators the actions share, `AppendElems`
and `TailElems` those about queues.

The same module proves `RefinementCorrect`: `Spec => ImplementsRequestQueue`. The
line of `RequestQueue` is the deferred requests, the queue the thread works on
and the shared queue, one behind the other. The mapping holds only in states with
`RefInv == IndInv /\ DeferredAtLimit`: requests stay deferred only while the limit
is reached, so a request that is started from a later queue overtakes none.
`TakeBehind`, `TakeSecond` and `MoveUp` say what taking from one queue, or moving
elements between two, does to the line; one lemma for each group of actions then
maps its steps to a step of `RequestQueue` or to a stutter.

`NetworkProofs` has the theorems about `SslContextCache` and `NetErrorAutoReloader`.
Of the former it proves `BooksCorrect` (`[]Bookkeeping`),
`ConfigurationCorrect` (`[]RightConfiguration`) and `StaleNeverHit` (`NoStaleHit`)
for any finite set of clients, any configurations and addresses, size, time to live
and clock. The argument: the cache holds a reference to a configuration, so its
address is not used again while the entry is there (`WellFormed`, `ClientsValid`);
`RefsCounted` counts a context's references by the cache and the clients that use
it; `SweepValid` says that what the sweep has passed is not stale, though
`SwapRemove` moves the last entry to the place of a removed one, which the sweep
then looks at again.

Of the latter it proves `TimerCorrect` (`[]TimerOnlyWhenUseful`) and
`PageNotForgotten` (`[]NoForgottenPage`) for any navigations, addresses, errors and
number of delays. `NavsWellFormed` is what they need beside each other: the error
page to reload has an address and an error because the navigation that failed had.
Assumed are `DelayAssumption` and `NoValueAssumption` (no page is not a page).

`TorProofs` has the theorems about the parts of Tor that have state. Of `TorMain` it
proves `LockCorrect`: `Spec => []LockInv`, for any set of processes, from
`ProcsAssumption`. `LockInv` is inductive as it stands because it says both ways who has
the lock: a process that is between `try_locking` and the end has it, and nobody else.
The exits share `Leave`, so `LeaveKeeps` is the lemma most steps rest on (the run's
mutant is an exit that forgets it); `TryLockingKeeps` is the other step that touches the
lock. Of `AlertSockets` it proves `NothingLeaks` (`[]NoLeak`) and `ForeignSafe`
(`ForeignUntouched`) for any workers, methods, capacity and `MaxFds`. `OwnDescriptors`
says which descriptors are the code's own at each stage, so that closing touches no
others, also when both ends are one. Descriptors are handed out lowest first;
`FreeNumbers` shows that the lowest free one exists. Of `TorVersions` it proves
`StatusCorrect` (`[]RecommendedStatus`), `SortCorrect` (`[]ListsSorted`) and
`SummariesCorrect` (`[]SummariesRight`) for any texts, releases, lists, relays,
protocols and size of the map, over `LibSpec`. `VersionsInvariant` says that the map
holds the summary of every list in it (`MapInv`) and that a result comes from the
arguments of its call alone (`LastInv`); the rest is about pure operators. All three
assume `RevisionsNear`: two revisions of one version, as they are written, are less than
half the range of an unsigned apart. The code has nothing that would ensure it, and
without it its order of versions is none; `MCTorLib` checks that the texts of the run
satisfy it. `ParseVersion` gives the ranges of the fields that `Parse` returns.
`ModMultiple` and `WrapDifference` show that the difference of two revisions that were
cast is the difference of those written, so that the sign of what `Compare` returns is
that of the first field that differs in what is meant (`CompareIs`), which is the order
of the releases (`CompareReleases`); the branches of `tor_version_is_obsolete` then come
down to which places are in the list (`StatusIs`). A sorted list never goes down in
`Rank` (`Upward`), so that equal entries are neighbours and `smartlist_uniq` leaves one
of each (`UniqIs`); `Enumerated` counts what it keeps. `SortIs` joins the two cases,
with duplicates and without.

`InetAddrProofs` proves `AddressesCorrect`: `LibSpec => []AddressesRead`, for every
address, every four runs of digits and every length of a buffer, from
`WordsAssumption`, `RunsAssumption` and `BufferSizesAssumption`. The texts that are
read are those of `Forms`: up to nine words, with `::` and a dotted quad or without,
and at most one mistake. The calls are pure, so that each step is one lemma about
operators:

* `AtonReads`. `PrintedDigits` gives the digits of a number and `Value` reads them
  back (`PrintedHex`, `PrintedDec`); the runs that `tor_inet_aton` accepts are then
  those printed for an octet (`CanonicalPrinted`).
* `PtonReads`. `ReadTurns` unrolls the loop of `tor_inet_pton` into its states.
  `RowRead` says that a row of words with colons between them is read word by word,
  `GapStep` what `::` does; so a text with words, a gap and words (`Laid`) is read as
  these (`LaidRead`), and `Outcome` is what the end of the function makes of it, with
  a dotted quad or without. `WrittenText` says token by token what the text of a form
  is. Forms without a mistake are laid out like that (`ShapeOfForm`); for each mistake
  a lemma shows the turn that refuses it, or the test behind the loop
  (`WrittenRefused`).
* `NtopReads`. `GapChosen` says what the longest gap is, `WordsPrinted` where in the
  text each word stands (`FlatPieces` knows what `FlattenSeq` does). Such a text is
  laid out as `tor_inet_pton` reads it (`WordsShape`), and the words it reads with the
  gap filled are the address (`ReadingIs`); `QuadTextRead` is the same for
  the two kinds of address that are printed with a dotted quad. `TextLenBound` says that
  all of them fit 40 characters, so that NULL is returned only for a shorter buffer.

`ProxyTunnelProofs` proves every invariant of `ProxyTunnel` for any clients, strict
or not, and any number of chunks: `UseCorrect` (`[]NoUseAfterFree`), `BooksCorrect`
(`[]Bookkeeping`), `VerifiedCorrect` (`[]StrictVerified`), `OrderCorrect`
(`[]WireOrder`) and `CloseCorrect` (`[]CloseReachesClient`), from
`ClientsAssumption` and `MaxBytesAssumption`. The inductive invariant is
`Inv == RefInv /\ VerifyInv /\ DataInv`, and each step is taken part by part:

* `RefInv` counts the references on the stack (`Count`, with `PushFacts`, `PopFacts`,
  `ClosedFacts` on what a call, a return and `on_close` do to it) and says on whose
  reference the calls run that hold none themselves: the call at the bottom holds one,
  or the client does, or `on_close` has left one. That is why a return never frees the
  tunnel under the call below it.
* `VerifyInv` follows the verdict: a handshake is made once, before any request
  (`HandshakeOnce`); `detach_owner` and `adopt` pass it on (`VerdictPassed`); a strict
  client that may still write has a good tunnel or one that is being closed
  (`StrictClient`); and `on_close` finds the client with its socket (`CloseTold`).
  `VerifyHandshake` is the step where the verdict is made, `VerifyLetGo` the
  one in which a client goes.
* `DataInv` is `WireOrder` with types: what the socket accepted and what is buffered go
  up, and are all that was encrypted but what `adopt` lost; `SplitAt` and
  `NumbersFollow` are what it needs.

`PaintProofs` proves `PaintersCorrect` (`[]ViewsHavePainter`), `FramesCorrect`
(`[]PendingFramesMatch`), `RepaintCorrect` (`[]RepaintNotLost`) and `RequestsCorrect`
(`[]RequestsAnswered`) for any contexts, web views and askers and any bounds, from
`BoundsAssumption` and `NoneAssumption`.
`ViewsInv` adds that a view being opened has no painter yet, so that
registering a second one cannot take the first's place. `FramesInv` adds that painters
which are yet to be made have no frames anywhere (their count starts at zero), and
that `saw` is empty between batches (a batch forgets nothing of an earlier one).
`FramesFacts` and `FramesHold` restate it with `ReadyIn`, the ready frames of any
channel, so that each lemma only says what its action does to the channel.

`AskInv` follows the requests for keys: whoever waits has a request in the batch or in
the channel, outside of `handle_messages` the batch is empty, and nobody is refused
before the shutdown is finished. `RetainedIs` is the
lemma about the batch: taking out the ready frames drops no request.

`VulkanFenceHelperProofs` proves `FencesCorrect` (`[]FencesInUse`), `CleanupCorrect`
(`[]NoEarlyCleanup`) and `TasksCorrect` (`[]EachTaskOnce`) for any number of tasks and
generations, from `BoundsAssumption`. The inductive invariant is
`Inv == TasksInv /\ GensInv /\ HandleInv`:

* `TasksInv` says that the lists of tasks that were run, that are queued and that are
  pending follow each other (`Consecutive`): each starts where the one before it ends,
  and the last one ends at the number of tasks enqueued. A step moves the borders only.
* `GensInv` orders the generations: the queued ones increase, and lie after
  the current one; those run lie up to it; unless the device is lost, the current one
  is finished, a signaled fence belongs to finished work, and a destroyed fence was
  signaled. `Retired` is then bounded by a generation whose fence is signaled, or by
  the one that a callback stands for.
* `HandleInv` says that the generation `Wait()` is blocked on still has its entry. It
  rests on `HandlesKept`: a step that retires generations makes every handle whose
  fence it destroys pass.

`ExternalMountPointsProofs` proves, from `PathsAssumption`, `NamesAssumption` and
`NoneAssumption`:

* `MapsCorrect`: `Spec => []MapsAgree`, for any paths, however they are spelled. The
  invariant `MapsInv` adds that no path is in the map twice, so that a revoked mount
  takes exactly its own entry along. `StripNorm` and `NormStrip` say that the path the
  instance keeps normalises to the one in the map.
* `CrackingCorrect`: `Spec => []CrackedBack`, for any paths and names. `PathsInv` says
  that no mount has `..` in its path. `ReaderInv == FoundInv /\ CrackedBack` keeps what
  the look-up found: the virtual path has `..` just if the path or the name has; for a
  name that is one component it starts with the name, and while that mount is there the
  mount's components and the rest are the path's. Names that come back as another first
  component are excepted by the property.
* `MountsCorrect`: `(\A p \in Paths : Clean(p)) => (Spec => []FindsTheMount)`. A
  path is `Clean` if no two separators follow each other in it; the paths of the run
  are. The premise is needed, not convenient: the entry for `/a//a` sorts before
  `/a/a/` but is no text before it, so a look-up of `/a/a` misses a mount on `/a//a`,
  which has the same components. `OverlapInv` says that no path in the map is how
  another one begins. `TextThenParts` and `PartsThenText` show that on clean
  paths that end in a separator this is what `IsParent` says; `Between` that all texts
  between one and a longer one that starts with it start with it too. Hence a mount
  above the new path is its lower neighbour, as nothing that is not below that mount
  can lie between them (`BelowFound`), and if there are mounts below the new path
  one of them is its upper neighbour (`UpperFound`): two looks are enough.

Four of these modules need to know what `FlattenSeq` computes (those about addresses,
painting, fences and mount points), which the library defines by recursion and states
no facts of. There is no induction to cite, so
`FlatIs` and the lemmas like it take the least counterexample (`NatLessThanWellFounded` and
`WFMin` of the library) of a statement about a function that is written out.

Only model-checked: liveness (`AbortedWaiterEnds`, `ScheduledIsServed`, `Reclaimed`,
`TermTerminates`, `ReloadReported`, `FencesRetire`, `KeepsTrying`, `WorkTaken`), which
needs fairness and ENABLED, out of the prover's reach; and what `Parse` reads from the
texts of an instance, which the theorems take from `ReleasesAssumption` and
`AnnouncedAssumption` (`RevisionsNear` is a premise of theirs, not an assumption). Every
invariant and every action property that holds is proved, and the refinement.

## 6. External parts

Where an action models code that the repository only uses, it is as free as that
use allows: HTTP client, sockets and the pool (answers, losses, upgrades at any
time), the TLS wrapper (callbacks in any order its contract permits), the GPU, the
content layer's navigations, Painter and WebRender, the operating system's lock
and descriptors, the threads behind alert sockets. `PROJECT.json` marks them
`external`.

# A verification development for glib-networking

glib-networking supplies GIO with its TLS backends (GnuTLS, OpenSSL, Apple) and
its proxy resolvers. What the three TLS backends have in common is
`tls/base/gtlsconnection-base.c`: an arbiter that lets several application
threads read, write, close and handshake on one connection while the handshake
itself runs in a thread of its own. Around it stand the I/O loops of the
backends, the pollable streams, the certificate databases and the session cache;
beside it, the Apple backend, which is a concurrent program of its own over a
dispatch queue, and the proxy resolvers.

## 1. The system

| Part | State | Operations | Talks to | Modelled in |
|---|---|---|---|---|
| Operation arbiter (`gtlsconnection-base.c`: `claim_op`, `yield_op`) | `handshaking`, `need_handshake`, `need_finish_handshake`, `reading`, `writing`, the closing and closed flags, `handshake_error`, `waiting_for_op`, under `op_mutex` | claim an operation (wait, time out, be cancelled, refused, diverted), yield it | every stream call; the handshake threads | `TlsClaims`, `TlsConnectionBase` |
| Handshake life cycle (same file: `do_implicit_handshake`, `handshake_thread`, `finish_handshake`, ...) | `handshake_context`, `implicit_handshake`, `started_handshake`, `ever_handshaked`, mostly without a lock | implicit handshake, blocking or polled; explicit handshake, sync or async; finish | the arbiter; a GTask thread; the backend; the main context that iterates the handshake | `TlsConnectionBase` |
| Certificate hand-over (same file: `accept_or_reject_peer_certificate`, `handshake_thread_verify_certificate`) | `peer_certificate*`, under `verify_certificate_mutex` and its condition | verify in the handshake thread, ask the application in the main context | the crank of the handshake context; the application's callback | `VerifyCertificate` |
| I/O status (same file: `push_io`, `pop_io`, `read`, `read_message`, `write_message`) | per direction: timeout, cancellable, error; `app_data_buf` | open and close one backend I/O, classify its outcome | the backends' I/O loops | `TlsIo` |
| GnuTLS connection | the session; callbacks that pull, push and wait | handshake, read, write, messages, close over the library | base class, base stream | `GnutlsIo`, `ConnectionIo` |
| OpenSSL connection and its BIO | the `SSL`, `ssl_mutex`, `shutting_down` | the same | base class, base stream through the BIO | `OpensslIo`, `ConnectionIo` |
| Pollable sources and streams (`tls_source_*`, `check`, `condition_wait`; `gtlsinputstream.c`, `gtlsoutputstream.c`) | the source's child sources and the condition they stand for | sync, dispatch, close; blocking and polled calls | arbiter flags, base stream, `waiting_for_op` | `TlsSource` |
| Session cache (`gtlssessioncache.c`) | one hash table, process-wide, under a lock | store, look up, evict | the client connections of GnuTLS and OpenSSL | `SessionCache` |
| Apple connection | an `nw_connection` on a dispatch queue; `state`, `fatal_error`, the receive queue, the flags of verification and sending, under `state_mutex` and `state_cond` | handshake, read, write, close, polling; verify and challenge blocks | Network.framework | `AppleConnection` |
| Its endpoint and bridges | sockets, a listener, descriptors; pumps with a buffer each | set up a loopback transport, adopt it, pump bytes and datagrams both ways, tear it down | base stream, the framework's other end | `AppleEndpoint`, `ApplePumps`, `AppleBridge` |
| Certificates | chain links | build the chain, verify it, match an identity, convert flags | the crypto libraries | `CertificateChain` |
| Certificate databases | trust list or store, tables from subject and issuer to certificates, handles | initialize, look up, verify | connections, files | `CertificateDatabase` |
| GNOME proxy resolver | settings copied under a lock, `need_update` | look up, settings changed | GSettings, GSimpleProxyResolver, the pacrunner | `ProxyResolvers` |
| Environment and libproxy resolvers, `glibpacrunner` | the environment, read once; the environment again, written for libproxy | look up | libproxy on a thread, the bus | `ProxyResolvers` |

How the parts interact: an application calls a stream; the stream calls
`g_tls_connection_base_read()` and its like; these claim the operation, call the
backend's `read_fn`, and yield. A claim may find that a handshake is needed. If
its caller may block, it starts one in a GTask thread and cranks a private main
context until the thread has returned; a polling caller (timeout 0) starts the
thread and leaves with `G_IO_ERROR_WOULD_BLOCK`, and some later operation
finishes the handshake. An explicit handshake does the same without asking the
arbiter first. The thread claims `OP_HANDSHAKE`, runs the backend's handshake
(which in the middle of it hands the peer's certificate to the main context and
waits), and its result is picked up by `finish_handshake()`. Inside the backend
every attempt pushes timeout and cancellable of its direction, the library calls
back for the base stream, and the errors left there are turned into one status.
The Apple backend keeps the arbiter but has no library that calls back: the
framework runs blocks on a queue, and the calls wait for what these leave under
`state_mutex`.

What is hard here: flags of one handshake read by the code of another; steps of
one function with the mutex dropped between them; one cancellable used as a
condition variable for all waiters; `finish_handshake()` run by a thread that
did not start the handshake; fields (`handshake_context`, `started_handshake`,
`handshake_error`) written without the mutex and protected only by when things
happen; errors passed from a callback to its caller through the connection;
retries with a deadline of their own; an end of the stream that may be a
truncation; blocks on a queue that wait for a thread that may have given up;
settings, files and an environment that change while they are read.

What makes each part correct: the arbiter keeps two users of one direction
apart, never leaves a flag behind, wakes whoever waits; the life cycle never
runs two handshakes at once, keeps the context while it is needed, never loses
an error, hands no application data to a session that was not negotiated; the
certificate hand-over never leaves the thread waiting and never accepts what
nobody accepted; an I/O call reports what happened, loses no data and takes no
truncation for an end; the sources never sleep on the wrong condition; the cache
never returns a stale or a used ticket and stays within its limit; the databases
accept only what leads to an anchor, and lookups agree with it; descriptors are
closed once, pumps repeat and lose nothing; a proxy cache agrees with the
settings it was made from.

## 2. The modules

    TlsClaims <--refined by-- TlsConnectionBase <-- TlsSource
    TlsIo <-- GnutlsIo, OpensslIo <-- ConnectionIo
    CertificateChain <-- CertificateDatabase
    AppleEndpoint, ApplePumps <-- AppleBridge          AppleConnection
    VerifyCertificate          SessionCache          ProxyResolvers

The arrows are `EXTENDS`, but for the first, an `INSTANCE`. The `MC...` modules
give each the small instances of the runs; the `...Proofs` modules hold the
theorems. Definitions whose comment begins with "Mutant" or "As it would be
if" are changed forms of the definition before or after them, which show that a
property notices the change; nothing else refers to them.

### TlsClaims

What the arbiter promises, whatever it is made of: each direction belongs to one
holder (`Take`, `Give`), only the holder of a direction closes it (`Close`), a
handshake ends in the hands of whoever holds both (`EndHandshake`), and each one
that has ended is finished once, which may break the connection for good
(`Finish`). The promise about the directions is void once a handshake that never
held them has been yielded (`GiveNothing`), which the code allows
(`gtlsconnection-base.c:1851`, `:2091`).

### TlsConnectionBase

The arbiter and the life cycle: `claim_op`, `yield_op`,
`do_implicit_handshake`, `g_tls_connection_base_handshake[_async]`,
`handshake_thread`, `async_handshake_thread`, its completion,
`finish_handshake`, `read`, `write`, `close_internal`.

* An application thread `t` has two actors, `App(t)` for the code it runs itself
  and `Hs(t)` for the GTask thread of the handshake it started. Both run
  `claim_op()` and the same `Claim` disjuncts. `pc` says where each is.
* The fields of `GTlsConnectionBasePrivate` keep their names. A `GError *` is a
  boolean (set or not), a context is the thread that owns it, the implicit
  handshake's task is the thread whose worker runs it, `waiting_for_op` is
  whether that cancellable is cancelled.
* A critical section of `op_mutex` is one action: `ClaimRejected`,
  `ImplicitHandshakeSync`, `ImplicitHandshakeAsync`, `DivertToFinish`,
  `ClaimRefused`, `ClaimBusy`, `ClaimGranted` are the ways one pass through
  `claim_op()` can go. Where the code drops the mutex the model has a `pc` of
  its own: `crank`, `hsyield`, `relock` inside a blocking implicit handshake,
  `finish`, `rejoin` around `finish_handshake()`, `wait` in the poll loop.
* Statements outside the mutex are actions of their own where another thread can
  see between them: the reset of `started_handshake` (`ThreadStarts`), the
  clearing of `handshake_error` (`HandshakeBegins`), the end of the thread, its
  `need_finish_handshake` (`AsyncMark`), its yield.
* The backend is external here: a read, write or close ends; a handshake ends
  with success or an error; a read or write may report a rehandshake request.
  GTask's rule that a cancelled task reports an error whatever its thread
  returned is in `TaskSucceeded`.
* `claimed` and `stray_yield` are history: which workers hold the connection,
  and whether one that never did has been yielded.
* `Claims` instantiates `TlsClaims`: readers and writers are who is at a point
  that holds the direction (nobody once `stray_yield`), `over` are the workers
  whose result is not yet picked up.

Left out: the properties notified by `finish_handshake()`, the adjustment of a
timeout after `EINTR`. Two explicit handshakes started by two threads between the
assertion and the assignment below it (`gtlsconnection-base.c:1826-1827`,
`:1971-1972`) are not modelled: the two statements are one step. A thread starts
a handshake only once the worker it last started is gone. The model assumes that
a thread owns its thread-default main context when it makes a call, i.e. that it
iterates it; what happens when it does not is the subject of `VerifyCertificate`.

### VerifyCertificate

The hand-over of the peer's certificate between the handshake thread, `worker`,
and the thread that started the handshake, `app`.

* In a blocking handshake `app` pushes a private context and cranks it
  (`CrankBegins`, `Dispatch`); in a polled one the certificate is judged in the
  context of its main loop. `sources` is what is attached to that context: the
  verification and the completion of the task.
* `VerifyBegins`, `Invoke`, `VerifyEnds` are
  `g_tls_connection_base_handshake_thread_verify_certificate()`; `JudgedByRules`,
  `AskApplication`, `ApplicationAnswers`, `StoreAnswer` are
  `accept_or_reject_peer_certificate()`, split where the mutexes are taken and
  where the application's handler runs, and run by whichever thread
  `g_main_context_invoke()` picks.
* `stack` is `app`'s stack of thread-default contexts, `owner` the thread that
  owns the context of its main loop. An application either stays in its loop
  ("loops") or leaves and re-enters it ("leaves").
* A handshake may end with nothing verified although the peer has presented a
  certificate, and be a success all the same (`cut`): the library stopped before it
  was complete, and what the backend returned was no error. `OpensslIo` says when
  that happens. `established` then is TRUE over what an earlier handshake left.
* `trusted` and `verdict` are history: the certificates somebody accepted, and
  what the answer in the current handshake was.

Left out: how `verify_peer_certificate()` computes its flags (a choice here;
`CertificateDatabase` has it), the notifications, explicit handshakes, and
operations of other threads, which `TlsConnectionBase` has.

### TlsIo, GnutlsIo, OpensslIo, ConnectionIo

One I/O call from its claim to what the application gets.

* `TlsIo` is the base class's share. `side[d]` are the fields of a direction:
  `PushIo` sets timeout and cancellable and clears the error, `PopIo` and
  `PopStatus` choose among the errors of the directions (`PoppedError`) and
  guess a missing client certificate (`Guess`). `Claim`, `TakeBuffered`, `Yield`,
  `MoreMessages`, `Again` are the public calls with their loops over messages and
  rehandshakes; `HasBuffered` is the look at `app_data_buf` that comes before the
  library. Whether a handshake that ran (`HasShaken`) has succeeded is told by its
  error alone, as `handshake_thread()` does, whatever the status; the task of a
  cancelled one reports the cancellation even so. The claims of the arbiter are reduced to one reader, one writer
  and `both`, which has the connection to itself and does handshakes and closes.
* `GnutlsIo`: a call pushes once (`GnutlsBegin`), the library pulls and pushes
  (`GnutlsPull`, `GnutlsPush`, `CallbackEnds`) and what it returns is classified
  (`EndGnutlsIo`, `EndStatus`); while it says to try again the call goes on.
  `GnutlsAppData` is application data in the middle of a rehandshake,
  `GnutlsPullTimeout` the wait of DTLS.
* `OpensslIo`: each attempt pushes with timeout 0 and takes `ssl_mutex`
  (`OpensslPush`), the BIO never blocks (`BioRead`, `BioWrite`), the attempt is
  classified (`EndOpensslIo`), and `perform_openssl_io()` waits without the mutex
  (`OpensslWaits`, `OpensslWakes`) or gives up (`OpensslGivesUp`). The verdict on the
  certificate, which is asked for when the library's handshake has returned, is part
  of the end of that attempt (`REFUSED`, `Succeeded`). An end of the stream that needs
  no `close_notify` returns OK, with the error beside it that was set before; so does
  a close that finds a handshake under way, with none.
* The libraries are external: which callbacks they make in which order, and what
  they return, is a choice limited by what they document. The base stream gives
  a record, would block, breaks or ends, with a `close_notify` or without.
* `conf` (backend, TLS or DTLS, whether a `close_notify` is required) is
  chosen when the connection is made, so that a run covers all of them. `taken`
  and `delivered` are history, for the order of records.

Left out: the pushes that a read of OpenSSL makes (renegotiation, alerts); time
as such, of which a deadline keeps whether it has passed; the part of a rehandshake
that only asks the peer for one.

### TlsSource

The pollable side, beside the whole of `TlsConnectionBase`. One thread, `Poller`,
makes nonblocking calls, waits for its source and calls again from the callback.
`SyncDecides` and `SyncAttaches` are `tls_source_sync()`, of which only the first
half is under `op_mutex`; `Dispatch` is the source's; `ChildSource` chooses
between `waiting_for_op`, the base stream and a timeout of 0. `Fires` and
`Notice` make the GCancellable source as edge-triggered as GLib's: it becomes
ready when the cancellable is cancelled, while a new one looks once.
`ConditionWait` and what follows are `condition_wait()`. Streams forward calls
(`InputStreamRead...`, `OutputStreamClose`, ...); their weak reference to the
connection is left out.

### SessionCache

`tls/base/gtlssessioncache.c`: the process-wide table from session IDs to
tickets.

* `Store` is `g_tls_store_session_data()` (cleaning up when the table is full,
  then making or finding the entry, then setting its one ticket of TLS 1.3 or its
  ticket of an older version), and the `Lookup...` actions are the ways through
  `g_tls_lookup_session_data()`: expired, single use, reusable, nothing there.
  Both run under the lock of the table, so each is one action.
* A ticket is what the backend hands in; it is stored at most once and belongs to
  a protocol version. `refs` counts the references the cache has taken and not
  given back, so that leaks and double frees show.
* `now` is the monotonic clock. `Oldest` starts its search from `IntMax`, in the
  unit of the clock, as the code does from `INT_MAX`.

Left out: the making of the session ID, and the assertion that a reusable ticket
could be duplicated.

### AppleConnection

The Apple backend as a state machine under `state_mutex` and `state_cond`: each
action is one section under the mutex, and `asleep` are the threads in
`g_cond_wait_until()`, so that a broadcast that is missing shows.

* `Handshake...` is the handshake thread, `VerifyBlock...` and
  `ChallengeBlock...` are the blocks the framework runs one at a time on the
  queue (`block` says what keeps it; `VerifyBlockAsks` and `VerifyBlockRefuses` are
  the two ways the first begins), `Nw...` are its changes of state,
  `ReceiveCompletes`, `SendCompletes` and `FlushCompletes` its completions. A
  completion may bring nothing, neither bytes nor an end nor an error.
* A deadline (`WaitExpires`) takes a thread from `asleep` to a point of its own,
  `expired`: it is awake and has yet to get `state_mutex`, and whoever has it first
  may change what it then finds. So a certificate can come just as the handshake gives
  up waiting for it.
* Reads drain `rx_queue` (`DrainRxQueueLocked`, `DrainRxDatagramLocked`) and tell
  a failure or an end only after it; a receive is kept outstanding
  (`KickReceiveLocked`). A write waits for the one in flight. `Close` waits for
  it too, flushes with a limit of its own, then cancels.
* `CreateBaseSource`, `CacheContext`, `SourceChecks`, `LoopWakes` are the source of
  a polling application: the queue finds its context once the source has been
  prepared or checked, and wakes it through that.
* `Drops`, `References`, `Dispose` are the life of the object: completions hold
  references.
* `past` is history: what was verified, read, told, written and flushed.

### AppleEndpoint, ApplePumps, AppleBridge

`AppleEndpoint` is how the framework gets a transport: a duplicate of the base
socket, one end of a loopback pair, or a loopback port that it dials or listens
on. `Start` and the steps after it are `start_handshake` with its early returns
(`setup` says where it is, and in which attempt), `AdoptBounceFd` hands
descriptors to sockets, `Dispose` closes what is left. `open` are the descriptors
and listeners that are open and ours.

`ApplePumps` are the three pumps: `StreamPump` and `DatagramPump` in a main
context (`OnReady`, `OnReadDone`, `OnWriteDone`), `BridgePump` on the queue, with
dispatch sources that it suspends and resumes (`HandleReadable`,
`HandleWritable`, `Drain`, `HandleSourceCancelled`). `refs` says who holds the
pump. It is closed from the thread that runs it; `stream_pump_stop()` from another
one is left out.

`AppleBridge` runs the two side by side. Not modelled of this backend: the
options of a connection, its properties and the metadata it reports.

### CertificateChain, CertificateDatabase

`CertificateChain` is pure: what is kept of the peer's list (`PeerCertificates`: an
OpenSSL server loses the second), building the chain (`BuildChain`, and Apple's way of
leaving that to the library) with each backend's test for an issuer (`IsIssuer`: by
name, or for OpenSSL by a verification with the candidate as the only anchor), the
flags of a verification and their conversion (`ConvertFlags`, `ConvertError`, `TranslateCfError`), identities
(`VerifyIdentity`). The libraries' verifications are external: a chain that leads
to no anchor is unknown, and what is wrong with its certificates is reported.

`CertificateDatabase` adds the state: `StartInit`, `ReadTrust`, `ReadTables`,
`Install`, `CancelInit` are the initialization of each thread,
split where the code reads the file and where it takes the lock; the tables, the
handles (`CreateHandles`) and the lookups; `SetAnchors`, `WriteFile` change what
is read; `SetDatabase` gives a GnuTLS connection its credentials;
`VerifyPeerCertificate` and `ConnectionVerifyChain` are the connection's
verification over it, with the status responses of `VerifyOcspResponse`. A
key of the tables is a hash of a name (`HashOf`, where names may collide).

### ProxyResolvers

`settings` is GSettings, `signals` are changes the resolver has not been told of,
`cache` and `need_update` are `GProxyResolverGnome`'s, under `lock`.
`UpdateSettings`, `UpdateHttp`, `UpdateHttps`, `UpdateSocks`, `UpdateFtp` read the
settings one after the other, as the code does, while the user changes them;
`GnomeResolve` answers from the cache or calls the pacrunner (`PacCall`),
whose `HandleMethodCall` and `PacRuns` share one environment variable, `runner`.
`LibproxyThread` and `CopyProxies` are libproxy's resolver, `EnvironmentSimple`,
`EnvironmentLookup` and `EnvironmentFinish` the environment's. GSimpleProxyResolver
and libproxy are external.

The mode, the URL of the script and the hosts to ignore are read in one step with the
call that looks for the pacrunner on the bus between them
(`gproxyresolvergnome.c:201-233`). A change that falls into that call finds the lock
taken and sets `need_update` after it, as one that falls before the next read does. The
bus is there or not for a whole run: the resolver looks for it only in an update, so
that one that appears later is not seen before the settings change.

## 3. The runs

| Run | Instance | What it shows |
|---|---|---|
| ConnMixed | 3 threads: polled and blocking reads with explicit async handshakes, blocking writes with explicit handshakes, full closes; a cancellable for the first; rehandshakes | two users of a direction exclude each other (`ClaimsExcludeEachOther`) and the flags say who they are (`FlagsMatchClaims`); `RunningHandshakeHasContext`; `OneHandshakeAtATime`; no failure is forgotten (`FailureIsRecorded`); all of it implements `TlsClaims` (`ImplementsClaims`) |
| ConnPolling | 2 threads that read and write, polled, blocking or with a timeout, no cancellation; deadlock checked | implicit handshakes do not trip over each other's context (`AssertionsHold`) |
| ConnLive | a reader, a writer and a closer with two calls each, no rehandshake, fair | `SomebodyMoves`; `DataNeedsHandshake`; `CallsReturn` |
| VerifyCalls | 2 certificates, both kinds of application, handshakes that are cut short, fair | whose verdict counts (`VerdictIsCurrent`, `EstablishedIsTrusted`), on which thread the application is asked (`EmittedToApplication`), that neither side waits for ever (`VerificationEnds`) |
| IoCalls | a reader that polls or blocks and may be cancelled, a blocking writer, handshakes and closes; GnuTLS and OpenSSL, TLS and DTLS, `close_notify` required or not; two records, two messages to a call | `ErrorTellsStatus`; `BlocksAsAsked`; `NoTruncation`; `NothingLost`; `OwnParameters` |
| IoLive | the same, no writer, one record and one message, reads, handshakes and closes cancellable, fair | `CancelEnds` |
| Source | a thread that polls the input stream for ever beside one that makes two blocking calls of any kind, fair | `SleepersAreWoken`; `PolledCallsEnd` |
| CacheCalls | 3 session IDs, 2 tickets of each kind, room for 2, symmetric in IDs and tickets | a ticket of TLS 1.3 is handed out once (`UsedOnce`); none after its time (`TicketsAreFresh`) |
| Apple | a verifying client of a stream with a polling reader, or a server of datagrams with a polling writer; every call can time out, a read be cancelled; the framework fails, waits, tries again, completes a receive with nothing | `ReadyIsVerified`; `ReadsAreWhole`; `CloseLosesNothing`; `SleepersAreServed`; `CloseReturns` |
| Bridge | every transport, two attempts to start, a pump of every kind with three bytes | `DescriptorsAccounted`; `PumpedInOrder`; `PumpsAreServed`; `ClosedPumpsAreFreed` |
| Certs | two threads initialize a database of either backend over two files, one rewrite; peers of clients and of servers whose chains are in order, out of order, repeated, rootless, unknown, unhealthy; deadlock checked | `TrustMatchesTables`; `LookupsAreRight`; `AcceptsOnlyAnchored`; `ChainIsComplete` |
| Proxy | two lookups of any resolver while the settings change once, with and without a bus | `CacheIsCurrent`; `AnswersAreUsable`; `LookupsEnd` |

**Bounds.** The number of calls on a connection is not bounded, except in ConnLive
and for the second thread of Source (`Budget`): a thread issues its calls for ever,
and the state space is finite because nothing in it counts. Three threads suffice
for the behaviours of interest: a waiter, an operation it waits for and a third
party that closes, cancels or takes its wake-up. Two suffice where the hazard is
between one handshake and the next. Timeouts appear as -1, 0 and one finite value
that reaches 0 after one conversion (1000). In the cache, two entries and a third
ID make it full and force an eviction; tickets live 2 units of a clock that runs to
`MaxTime`, 5, past `IntMax`, 4, so that an entry can expire unnoticed, be evicted,
and outlive `IntMax`. In `VerifyCertificate` the number of handshakes is not
bounded; the second certificate tells one handshake's from the next one's.
In IoCalls the peer sends two records of a unit each (`MaxUnits`), so that one that was
kept aside can be overtaken by a newer one, and a call reads or writes up to
two messages (`MaxMessages`), so that it can fail after the first; IoLive, which asks
nothing of the data, has one of each. The faults of
the stream stand for one that has an errno of its own, beside would-block, time
out and cancellation. The Apple client reads two bytes, so that an end can fall
between them, and the datagram server writes twice, so that one write waits for
another. Three bytes fill a pump's buffer, leave it partly written and go on. One
rewrite of a file is enough to fall between any two readings of it, one change of
the settings between any two reads of `update_settings()`.

**Deadlock** is checked in ConnPolling and Certs. Elsewhere the system may stop:
the process aborts on an assertion (ConnMixed, Source) or a stack overflow
(Proxy); the calls run out (ConnLive, Source); an application gives up after a
failed handshake (IoCalls, IoLive, VerifyCalls); a connection is disposed of
(Apple, Bridge); clock, tickets and changes run out (CacheCalls, Proxy).

**Fairness.** `FairSpec` of `TlsConnectionBase` gives weak fairness to the steps
of each thread and of each worker: the operating system schedules threads, poll()
returns when its descriptor is readable, and a claimed operation ends, i.e. the
peer answers or the transport fails. It does not make the application call
anything. Two calls per thread in ConnLive keep a thread that calls again and
again from starving a waiter: the arbiter has no queue, so without that bound no
call is guaranteed to return. It runs without rehandshakes and without timeouts
of 0, where the lost wake-up and the assertion failure of section 5 are real.

* `VerifyCertificate`: both threads, the dispatch of what is attached to a context
  somebody iterates, and the application's handler, which returns; not re-entering
  a loop, which an application need not do.
* `ConnectionIo`: each call goes on, OpenSSL's attempt returns, and `ssl_mutex` is
  handed to whoever waits for it (strong fairness of `OpensslPush`: it is taken
  and given again and again). The stream need not answer: that is what
  cancellation is about.
* `TlsSource`: as `TlsConnectionBase`, and an application that was called back calls
  again. `PolledCallsEnd` assumes in addition that the base stream stays ready.
* `AppleConnection`: the closing thread runs and the framework reports the end of a
  flush. Nothing is assumed of the queue, the peer or the other calls.
* `AppleBridge`: the pump's context or queue runs what is due.
* `ProxyResolvers`: each lookup's thread runs and gets the lock in the end (strong
  fairness: others take it in between), and the bus delivers.

The cache and the databases have no liveness.

## 4. What is proved

For every value of the constants, under the `ASSUME`s of the module concerned
only, and for some theorems under a hypothesis that the text names. `TlsConnectionBaseProofs`
(any threads, calls, timeouts, contexts, cancellables):

| Theorem | Property |
|---|---|
| `TypeCorrect` | `TypeOK` |
| `Exclusion` | `ClaimsExcludeEachOther` |
| `FlagsExact` | `FlagsMatchClaims` |
| `ContextHeld` | `RunningHandshakeHasContext` |
| `SingleHandshake` | `OneHandshakeAtATime` |
| `ErrorSticks` | `HandshakeErrorSticks` |
| `FailuresRecorded` | `FailureIsRecorded` |
| `Refinement` | `ImplementsClaims` |
| `DataIsEstablished` | `DataNeedsHandshake`, if all calls block |
| `NoAssertionFails` | `AssertionsHold`, if all calls block or only read and write |
| `SomebodyAlwaysMoves` | `SomebodyMoves`, if all calls block and the peer asks for nothing |
| `SourceTypesCorrect` | `SourceTypeOK` |
| `ThreadsAreWoken` | the part of `SleepersAreWoken` about threads |
| `NobodyIsForgotten` | `SleepersAreWoken`, if the callback makes new sources |

The argument for the first seven has two inductive invariants.

`ClaimInv` is `TypeOK`, `FlagsMatchClaims` and `ClaimsExcludeEachOther`
together. Neither of the last two is inductive alone: a grant looks at the flags,
so exclusion needs the flags to be exact; a yield clears a flag, so exactness
needs the yielder to have been the only holder. Both carry the proviso that no
unclaimed handshake has been yielded, which the code allows
(`gtlsconnection-base.c:1851`, `:2091`).

`ContextInv` is about what no flag protects. The life of `handshake_context`
belongs to exactly one of: a caller that cranks, a worker of an asynchronous
handshake, a finished implicit handshake nobody has picked up, an operation
inside `finish_handshake()`. `OneOwner` says there is never more than one;
`OwnContext` that the context exists while there is one and is the owner's;
`TaskKinds` ties the control points to the kind of handshake; `FinishOnce` says
that `need_finish_handshake` belongs to the owner; `FreshStart` that
`started_handshake` and `handshake_error` still are those of the owner's
handshake. The assertions in the code enter here: they are the guards that keep a
second owner out. Without them a second handshake thread resets
`started_handshake` under the first, which is the mutant of
`OneHandshakeAtATime` and of `FailureIsRecorded`. By-product: the branch of
`async_handshake_thread_completed()` for `need_finish_handshake` being FALSE
(`:1917-1925`) is never taken.

The refinement adds `ClaimedRuns` (a worker past its claim is among the
claimed, so that a handshake ends in the hands of whoever holds both directions)
and `StartedRuns` (`started_handshake`, which makes an error stick, is set only
while a handshake runs or once it has ended, so that nothing else can break the
connection). With these and the two invariants every step maps to one of
`TlsClaims` or to a stutter: a grant to `Take`, a yield to `Give` or, of a worker
that holds nothing, to `GiveNothing`, the flags of a close to `Close`, a worker's
last step to `EndHandshake`, and each of the three places that finish a handshake
to `Finish`. `FinishOnce` is what makes the last true: a second finish would be a
step the promise does not have.

Three properties hold for some uses of a connection and fail for others
(section 5), and the theorems name the use. `BlocksAlways`: every call blocks for as
long as it takes, and none is an explicit handshake; there may be any number of
threads, closes, cancellations and rehandshakes. Then every handshake is an implicit
one whose caller cranks it (`Plain`), `handshaking` covers its whole life and keeps
everybody else out (`OneEngaged`), and `Established` follows what each place of the
code knows of the session: it needs a handshake, has had one, or has failed. With a
polled call `need_finish_handshake` opens the window of `:656`. `TransfersOnly`:
reads and writes with any timeout, no cancellation and no rehandshake. Then nothing
refuses the first handshake its claim and none is needed after it (`TransferInv`);
with a cancellation or a close the assertion at `:2040` does fail. `AssertionsHold` is
proved under either. `SomebodyMoves` is about the whole state and needs `Held`, that
whoever holds a direction is there to yield it, and that no worker waits in
`claim_op()`: one that starts when a direction is taken is one whose claim a close
refuses. With rehandshakes a worker can wait, and the lost wake-up of `:705` is real.

The sleepers of `TlsSource` rest on `SleepsSignalled`, which needs no hypothesis: while
anybody may sleep, either `waiting_for_op` is cancelled or an operation is in progress
whose `yield_op()` will cancel it (`Signalled`). A thread that resets the cancellable
does so in the critical section in which it saw a flag set, and `FlagsExact` says that
the flag has a holder. `SourceSignalled` says the same of a source on `waiting_for_op`,
if each wait has a source of its own: the child of a kept source is the one of an
earlier wait.

`ConnectionIoProofs` (any number of records and messages, any timeouts and faults,
both libraries):

| Theorem | Property |
|---|---|
| `IoInvariant` | the inductive invariant `IoInv` |
| `IoTypesCorrect` | `TypeOK` |
| `ParametersAreOwn` | `OwnParameters` |
| `ErrorsTellStatus` | `ErrorTellsStatus` |
| `CallsBlockAsAsked` | `BlocksAsAsked` |
| `NothingTruncated` | `NoTruncation` |
| `RecordsReachReaders` | `NothingLost` |

`Alone` is what the arbiter promises: a handshake or a close has both directions, so
nobody else is between its push and its pop. `SidesFit` then says that while the
library runs, the directions have this call's timeout, and that the error a callback
may have left there is one this library leaves to a call of this kind: `would_block`
only if the call does not wait, if it is GnuTLS's handshake of datagrams, or if OpenSSL
is to find it in `errno` as well. `Pending` and `Ended` carry that through the retries to the
status and the error of the call, with what OpenSSL leaves beside a success
(`BesideSuccess`: the error of a refused renegotiation, which `Harmless` follows through
the loop, and the guess at an end of the stream) and its `TRY_AGAIN` without an error. `ReaderFits` says that a reader asks the library only with nothing
buffered, which is why a record kept aside is never overtaken by a newer one; that
needs the join of what was delivered, what is in hand and what is buffered to be the
numbers up to `taken`.

`SessionCacheProofs` (any IDs, tickets, limit, age, clock):

| Theorem | Property |
|---|---|
| `CacheTypeCorrect` | `TypeOK` |
| `TicketsUsedOnce` | `UsedOnce` |
| `TicketsFresh` | `TicketsAreFresh` |
| `ReferencesBalanced` | `RefsBalanced` |
| `LimitKept` | `LimitWhileYoung` |

Its invariant `CacheInv` says of the places of tickets that no ticket is in two of
them and none that was handed out is in one, of the dates that an entry expires no
later than `MaxAge` after each of its tickets was stored, and of the references
that there is one for each place. `LimitWhileYoung` needs the dates: every entry
expires before `IntMax` while the clock is young, so that the search of a full
table finds one, and the cardinality of the finite table drops by one.

`VerifyCertificateProofs` (any certificates, either kind of application):

| Theorem | Property |
|---|---|
| `VerifyTypeCorrect` | `TypeOK` |
| `VerdictsAreCurrent` | `VerdictIsCurrent` |
| `EstablishedTrusted` | `EstablishedIsTrusted` |
| `EmittedOnOriginalThread` | `EmittedToApplication` |
| `StacksRestored` | `StackRestored` |

`VerifyInv` follows one handshake: `Phases` says which thread is where and what is
queued, `Contexts` ties the stack to `sync_handshake_in_progress` and to the
point `app` is at, `Loops` says when `app` owns its loop's context. `Verdicts` is the
heart: from the reset in `VerifyBegins` to `StoreAnswer` nothing is accepted or
examined, so that what the worker reads after its wait was written in between and
is about the certificate presented. `Finished` and `Idle` carry that to the end of
the handshake. A handshake that was cut short has no verdict, and neither property claims
one of it: what stays true is that the certificate it leaves with the connection is one
that somebody accepted, in an earlier handshake.

`CertificateDatabaseProofs` (any certificates, files, threads, number of rewrites):

| Theorem | Property |
|---|---|
| `DbTypeCorrect` | `DbTypeOK` |
| `TrustAgrees` | `TrustMatchesTables` |
| `LookupsRight` | `LookupsAreRight` |
| `ChainsComplete` | `ChainIsComplete` |
| `AnchoredOnly` | `AcceptsOnlyAnchored` |

Its invariant `DbInv` rests on one thought: while nothing has been rewritten or
replaced (`Steady`), every reading of the file is the same. `InitOK` says it of what
an initialization has read and not yet installed, `TablesOK` of anchors and tables;
for GnuTLS and Apple these are equal at all times, because they are filled from
the same reading. `HandlesOK` and `IssuedOK` say that handles are of the certificates
in the tables under the file's name, which is what a handle needs to find its way
back. For the issuers, that one is found if there is one needs that a nonempty set
of positions has a first.

The chain of a list is a recursive function, and no induction is available over it.
The proofs go by the least counterexample instead: `PeersBounds` gives each
certificate of a list a rank that its issuer is below (which what is kept of the list
inherits: `FrontKept`, `SecondLeftOut`), and the certificate of least
rank whose chain is missing, does not lead on, or ends too early has an issuer with a
chain that is right. `IssuerRefused` says where OpenSSL's test turns an issuer down: it
is self-signed, and it or the certificate is not in order. `ChainIsComplete` names that
and the certificate an OpenSSL server loses as the exceptions (`LeftOut`). The assumption says that no list holds a circle of issuers; the
code follows one without end (`gtlscertificate-gnutls.c:1082`), so there is nothing to
say of it. `AnchoredOnly` combines this with what `Path` keeps of the chain, for the
status response and for the anchors a connection has copied, which may be older than
the database's.

`AppleConnectionProofs` (any modes, errors of the framework, timeouts, bytes):

| Theorem | Property |
|---|---|
| `ReadyVerified` | `ReadyIsVerified` |
| `SleepersServed` | `SleepersAreServed` |
| `ClosesLoseNothing` | `CloseLosesNothing` |
| `ReadsArriveWhole` | `ReadsAreWhole` |

`AnswersHold` says that an answer that can still be used, `verify_accepted` without
`verify_pending`, is that of the last verdict: a handshake that gives up, and a block
that gives up, both take back what an earlier attempt was told. `Deciding` says that
what the handshake's thread verifies, a block on the queue still waits for, and
`Alone` why: with a handshake under way there is no close that could let the block
go, and the queue, which the block keeps, runs nothing else. A handshake whose wait has
expired is no longer asleep and not yet back: a certificate that comes in between
finds it there, and is dropped when it gives up.

The other three each stand on the one before. `ServedInv`: each thread that is asleep
sleeps for something that has not happened (`ThreadsAreServed`), but for the block of a
certificate that came when nobody was left to answer (`past.late`); a source that sleeps
has a context, was not woken, and what it waits for is not there, or is the refusal the
framework is about to tell (`Untold`); a ready connection with an empty queue receives, unless its last receive
brought nothing (`past.empty`: a poller then waits for ever, while a read that
is woken starts the next one), and none receives with bytes in the queue
(`Receiving`). `CloseInv`: what was written
is sent or in flight until something fails (`Sent`), and a connection is cancelled only
by a failure, by a close that has waited, by one that was pressed for time, or on
dispose (`CancelledWhy`, `NothingInFlight`). `Whole`: what has been read, followed by
the one chunk that waits, is the bytes 1 to n of a stream, or of datagrams some of
them in rising order; `Ended`: whoever told the end had the peer's and read everything,
or this side had closed.

`AppleBridgeProofs` (any bounds, any number of attempts):

| Theorem | Property |
|---|---|
| `DescriptorsKept` | `DescriptorsAccounted` |
| `BytesKeepOrder` | `PumpedInOrder` |
| `PumpsKeepGoing` | `PumpsAreServed` |

`EndpointInv` divides what is open: `HeldIsOpen` and `TransitIsNotHeld` say that what
dispose() will close and what a later step will hand on or close is open and never
both, so that nothing is closed twice; `OpenIsHeld` that what this attempt opened is
in one of these places, so that only what an earlier attempt left is lost. The
others (`AdoptsLate`, `PendingIsOpen`, `ServerListens`) say when a client has which
of its descriptors.

`PumpInv` is about the pumps. `InOrder`: what the sink got is the first of what came,
and the buffer of a pump that has not stopped is exactly what was taken and not passed
on. `GlibWorks` and `BridgeWorks` say by which reference each kind of pump will run
again, from the place it is at: a call or a source of a `GMainContext`, or the sources
of the queue, suspended exactly while there is something, or nothing, to write. `Ends`
says what is left of a pump that has stopped.

`ProxyResolversProofs` (any number of lookups and of changes):

| Theorem | Property |
|---|---|
| `CacheCurrent` | `CacheIsCurrent` |
| `AnswersFit` | `AnswersAreUsable` |
| `ProxyTypesCorrect` | `ProxyTypeOK` |

The settings may be read half before and half after a change, and then the cache
agrees with neither. So `UpToDate` is under `Told`, that no change is ahead and no
update due: then the cache agrees with what has been read so far (`Read`, by the
stage of the update), and a change falsifies `Told` until an update begins anew.
`OneHolds` says that whoever updates has the lock.

`AnswersInv` says what an answer is made of. The placeholder enters the cache only
together with a pacrunner, if there is a bus (`Cached`), and the lookup that finds it
asks the pacrunner. A lookup that is alone was alone when it started, so the script in
the environment is the one it passed (`OwnScript`). That a copy of libproxy's list
fits what was allocated for it, and holds no invalid or unspecific entry, is for lists
of any length: the copy joins a sequence for each proxy, and the lemmas `Flattens` and
`Counted` follow the joining to the first position where it would fail. `LookupBounds`
says what libproxy and GSettings give: proxies of the kinds that exist, and neither
the resolver's own placeholder nor the answer of a script.

What is proved is not run again where a run would add nothing:
`HandshakeErrorSticks`, `RefsBalanced`, `LimitWhileYoung`, `StackRestored` and the
types of `TlsConnectionBase`, `TlsIo`, `TlsSource`, `SessionCache`,
`VerifyCertificate`, `CertificateDatabase`, `AppleEndpoint`, `ApplePumps` and
`ProxyResolvers` stand on their theorems (those of the endpoint and the pumps as parts
of `EndpointInv` and `PumpInv`).

Every safety property of the runs has a theorem, the action properties and the
refinement included. Only model-checked are the seven liveness properties,
`CallsReturn`, `VerificationEnds`, `CancelEnds`, `PolledCallsEnd`, `CloseReturns`,
`ClosedPumpsAreFreed` and `LookupsEnd`: fairness is out of the proof system's reach.
A theorem with a hypothesis says nothing where it fails; the runs of these four
properties (ConnLive, ConnPolling, Source) are instances of their hypotheses.

## 5. What the models show the code to do

Where the code does something its comments or its callers would not expect, the
models do it too, and the properties say what holds all the same. The places:

*The base class* (`tls/base/gtlsconnection-base.c`)

* `:2040` `g_assert (!priv->handshake_context)` fails: a polled handshake whose
  caller was cancelled leaves its context behind with `need_handshake` still set,
  and the next operation of another thread starts a handshake; a close in between
  does it too. `AssertionsHold` is checked without either.
* `:656` to `:1799`: `need_finish_handshake` is cleared before the error of a
  failed handshake is recorded; a write that claims in between goes to a session
  that was not negotiated. `DataNeedsHandshake` is checked for blocking calls.
* `:725` a finite timeout is divided by 1000 at every wake-up and becomes 0, and
  the call fails with `WOULD_BLOCK` as a poll would.
* `:642` the closed flags are looked at before an implicit handshake and not after
  it: an operation can be granted on a connection closed meanwhile.
* `:705` a waiter resets the cancellable that is to wake the others. With a peer
  that asks for rehandshakes, the two threads of
  `test_simultaneous_sync_rehandshake` can sleep for ever. ConnLive has none.
* `:681` a thread that polled in its loop and has left it is not refused: it waits
  for a handshake that waits for its loop.
* `:2191` `read_message()` leaves the status of the turn before, and overwrites a
  datagram taken from `app_data_buf`. `NothingLost` is about streams.
* `:1083` a callback that keeps its pollable source may sleep for ever; the
  asynchronous calls of the streams make a new one each time, as Source does.
  `tls_source_sync()` on the base stream's child does not notice
  `need_finish_handshake`, and `condition_wait()` polls `waiting_for_op` only.
* `:1657` the handshake thread looks at the error alone. Where OpenSSL returns OK, or
  `TRY_AGAIN`, without an error before its handshake is complete (below), the
  connection counts as negotiated with nothing verified. `VerdictIsCurrent` and
  `EstablishedIsTrusted` say what holds of the others.
* Comments: `:112`, `handshaking` is not TRUE as soon as a handshake thread is
  queued if the handshake is explicit; `:109-110`, the next `claim_op()` is diverted
  into `finish_handshake()` only for an implicit handshake, and a close is
  diverted as well; `:683-688`, the refusal is also met by any blocking call of a
  thread that polled before; `:1410-1412`, `:1512-1514`, with nobody owning the
  default main context `accept_or_reject_peer_certificate()` runs on the handshake
  thread; `:905-908`, the interaction's error is discarded by GnuTLS when the
  handshake ends in an alert.
* `gtlssessioncache.c:66`: beyond `INT_MAX` microseconds less the age of an entry,
  i.e. 26 minutes after the system started, nothing is found to evict.

*I/O.* OpenSSL (`tls/openssl/gtlsconnection-openssl.c`): a blocking DTLS call returns
`TRY_AGAIN` with no error when the DTLS timer has just expired (`:353`); a refused
renegotiation sets an error and goes on (`:225`); a read or a write that takes the end
of the stream for the end of the data sets the error it was given first and returns OK
beside it, even `CERTIFICATE_REQUIRED` (`:254`, `:264`); a handshake that meets that end
is OK without an error if no `close_notify` is required (`:240`), and the certificate is
looked at only if the library returned more than 0 (`:851`); the requirement of a
`close_notify` is forgotten once `shutting_down`. `ErrorTellsStatus` (by
`BesideSuccess`) and `NoTruncation` name these exceptions.

*Apple* (`tls/apple/gtlsconnection-apple.c`). A cancellation does not end a wait on
`state_cond`. A handshake given up before the certificate comes leaves the verify
block, and the queue, waiting for ever (`past.late`); one that gives up just as it comes
drops it (`:573`). An outstanding receive keeps a dropped
connection alive. A failed attach (`:2415`) wakes only `wakeup_source`, and pollers
of a refused certificate are woken when the framework has failed for it. A receive that completes with nothing, as for an empty
datagram, is not followed by another (`:809`): a reader that blocks starts the next when
it is woken (`:714`), a poller, whose condition does not hold, waits for ever
(`past.empty`). `NW_CONNECTION_STATE_WAITING` fails the
handshake. Half-closing cancels the whole connection (`tests/connection.c:2541`
skips that). The stream pump does not forward an end of stream; the datagram pump
stops for good on a transient error; the bridge pump keeps its write source after a
failed send. A field filled again by a second attempt, and a datagram descriptor no
socket took, are lost (`Forgotten`); `release_listener` leaks a captured
connection; a DTLS server in public mode waits for `new_conn_sem` without a limit.

*Proxy resolvers.* Without a bus the placeholder `use-proxy:` is the answer, against
the comment at `gproxyresolvergnome.c:366-368`. An asynchronous lookup of the
environment resolver calls itself until the stack is gone
(`genvironmentproxyresolver.c:95`). A caller that passes the source object of its
callback reaches the base resolver instead, and gets its answer. Two PAC lookups at once
share one environment variable (`glibpacrunner.c:81`).

*Databases.* A GnuTLS connection rereads its credentials from the file whenever its
database is set, and keeps the old ones when that fails. OpenSSL reads the file
twice and installs its tables before its second look at the cancellable; its keys
are 32-bit hashes of names where the comment (`gtlsfiledatabase-openssl.c:46-47`)
says names. Apple's database has no lock, and initializing it again replaces its
anchors. `lookup_for_handle` of GnuTLS and OpenSSL ignores the `KEYPAIR` flag. OpenSSL's
`is_issuer()` is a whole verification (`gtlscertificate-openssl.c:905-949`), so that a
certificate below a self-signed one gets no issuer if either has expired, and the
chain the application sees ends there. On a server the list the library gives leaves out
the client's own certificate (`gtlsconnection-openssl.c:633-664`) while the chain is built
from the second entry on (`gtlscertificate-openssl.c:965`), so that the first
intermediate is lost, and with it a chain that needed it.

## 6. Not modelled

* Logging and the HTTP helper (`gtlshttp.c`): formatting and one blocking
  download, with no state between calls.
* The modules' entry points and the backends' types and default database: type
  registration, once.
* Parsing, PEM and DER, PKCS#11 and PKCS#12, the properties that describe a
  certificate; priorities, ALPN, session data, contexts and options of a session;
  the metadata an Apple connection reports: conversions between libraries, with no
  interleaving and no state that other parts read.
* What is inside GnuTLS, OpenSSL, Network.framework, GLib, GSimpleProxyResolver and
  libproxy: external, modelled by what the code relies on.
* Tests, build files and translations.

## 7. The plan

The components of section 1 are all modelled. What is left:

* certificate objects with their chain of issuers, which are immutable but for the
  chain's construction, and session data, which a connection takes from the cache;
* the weak reference of a stream to its connection, a pump that is stopped from
  another thread, and the pushes that a read of OpenSSL makes;
* two explicit handshakes started by two threads at once, which the code leaves to
  the application to avoid.

# A verification project for auks

auks distributes and renews Kerberos credentials (TGTs) in a batch cluster: a user deposits an
addressless TGT with the daemon `auksd`, compute nodes fetch it when the user's job starts there, and
a renewer keeps the deposited credentials alive.  The modules here model the C implementation
under `src/src`, and of its second implementation, in Rust, the client library and the SPANK plugin
under `src/rust`, as they are at this commit.

The modules named after a component are specifications, the `MC*` modules and the `.cfg` files
instantiate them for TLC, and the `*Proofs` modules hold proofs for TLAPS.

    tlc -config repo.cfg MCCredRepo        # a run, see "What the runs check"
    tlapm AuksdReqProofs.tla               # the proofs of a module

## 1. The system

### Components

| component | source | state | operations |
|---|---|---|---|
| credential repository | `src/src/api/auks/auks_cred_repo.c` | a library uid -> credential in memory, one ccache file per uid in `CacheDir`, a mutex, a read-only flag | `init`, `load_cache`, `add`, `get`, `remove`, `clean`, `pack`, `free_contents` |
| credentials | `src/src/api/auks/auks_cred.c` | a principal, a uid, times, a packed TGT | `init` (principal to uid), `extract`, `store`, `renew`, `deladdr`, `pack`, `unpack` |
| Kerberos operations | `src/src/api/auks/auks_krb5_cred.c` | none: sequences of libkrb5 calls | get, store, renew, forward, remove addresses |
| Kerberos stream | `src/src/api/auks/auks_krb5_stream.c` | one authenticated TCP connection | client and server `init`, `authenticate`, `send_msg`, `receive_msg` |
| library, freelist | `src/src/api/xternal/xlibrary.c`, `xfreelist.c` | a `tsearch` tree and an index over items taken from freelists that double as they run out | add, get, remove, update index; extract, release, extend |
| queue | `src/src/api/xternal/xqueue.c` | a linked list, a freelist, a mutex and one condition variable | blocking and non blocking enqueue and dequeue, length, wait for emptiness |
| log | `src/src/api/xternal/xlogger.c` | levels, streams, one mutex | `xverbose`, `xerror`, `xdebug` |
| sockets | `src/src/api/xternal/xstream.c` | none | listen, accept, connect, transfers with timeouts |
| ACL | `src/src/api/auks/auks_acl.c` | a list of rules, read again at a reload | role of (principal, host) |
| request handlers | `src/src/auksd/auksd_req.c` | one session per worker | PING, ADD, GET, REMOVE, DUMP, CLOSE |
| daemon | `src/src/auksd/auksd.c` | `exit_flag`, `eof_main_loop_flag`, `eof_worker_flag`; one dispatcher, workers, a cleaner | configure, start threads, dispatch, purge, cancel, join, reload, exit |
| client library | `src/src/api/auks/auks_api.c` | none between calls | requests with retries over a primary and a secondary daemon; add, get, remove, dump, renew |
| renewer | `src/src/auksd/auksdrenewer.c` | a loop flag | DUMP, renewal of each credential at the KDC, ADD back |
| SPANK plugin | `src/src/plugins/slurm/slurm-spank-auks.c` | credential cache names, the pid of a renewer, counters, one copy per `srun` and `slurmstepd` | hooks of a job step |
| PAM module, `auks` command | `src/src/plugins/pam/pam_auks.c`, `src/src/auks/auks.c` | none | one client call each |
| configuration | `src/src/api/confparse`, `auks_engine.c`, `auksd_engine.c` | constant after start | parse, defaults |
| Rust client, Rust SPANK plugin | `src/rust/auks-client`, `src/rust/auks-spank` | that of their C counterparts | the same |
| other Rust crates | `src/rust` | none | codecs, configuration, wrappers of libkrb5 |

### How they interact

    users, compute nodes, renewer                       auksd
      auks_api.c -- krb5 stream over TCP --> dispatcher -> xqueue -> workers (auksd_req.c) -+
                                             (auksd.c)                                      |
                                             cleaner  ------------------------------------->+-> repository mutex
                                                                                                 |        |
                                                                                              library  CacheDir

The dispatcher, the main thread, accepts a connection and enqueues its socket.  A worker dequeues
it, authenticates the client, looks its role up and answers its requests until it closes.  Workers and
cleaner call the repository, each operation being one critical section.  Signals set flags that the main
thread sees between two connections.  A SIGHUP makes `main()` run the whole loop again: repository and
queue are freed, the configuration is read, and the repository is loaded from its files.

### Behaviours that are hard, and what correctness means

* **Repository** (crash, partial failure, restart).  An addition removes the old credential from
  memory, unlinks its file, inserts the new one, truncates its file and fills it; any of these may fail
  and the process may die between two.  Correct: memory and disk agree between operations; what was
  acknowledged holds until something else is acknowledged, across restarts; a better credential never
  gives way to a worse one; expired credentials go in the end, and only those.
* **Request handlers** (interleaving).  A handler reads the repository in one critical section, decides
  outside of it, and acts in another.  Correct: no client gets or removes what is not its own,
  and critical sections do not overlap.
* **Queue** (lost wakeups).  Consumers that wait for an element and producers that wait for a free
  item share a condition variable that is signalled, never broadcast.  Correct: no element is left behind while
  consumers sleep.
* **Daemon** (shutdown).  Signals at any moment, a purge, cancellation of threads that may be in
  a wait, in a log line or in a request.  Correct: a signal breaks the loop; the shutdown ends; no accepted
  connection is dropped or served twice; nothing is freed while in use.
* **Client library** (unreliable delivery, retries).  A reply that is lost means an error although the
  request took effect; a daemon that refuses is replaced by the other one.  Correct: no request is executed
  twice; the status tells what never happened from what may have; a call comes back.
* **Renewal** (timing, stale state).  Two loops with the same period and no common clock: auksdrenewer
  keeps the repository fresh, the loop of a step takes what it finds there.  Correct: a renewable credential
  never expires, in the repository or in the cache of a job.
* **SPANK plugin** (protocol sequence).  Hooks run in several processes; each may fail and leave
  the next one with stale names or processes.  Correct: the wish of the user reaches the node; slurmstepd
  gets its privileges back; the renewer works on the cache of the job and is gone, and the dirty pages
  are flushed, before the credential is; nothing is left behind; the step ends.
* **Kerberos operations and streams** (partial failure).  Functions of a dozen calls, with a ladder of labels each,
  and a structure whose flags tell what is there to release.  Correct: everything is released once, whichever
  call fails; what one operation makes of a credential is what the next one expects.
* **Library and freelists** (partial failure).  One addition takes up to three items and a tree node, and each
  may be refused.  Correct: it is a map, no item is in two places, and none is lost.

The list, with lines, is under `hazards` in `PROJECT.json`; what does go wrong is under `findings`.

## 2. The modules

    CredStore <--refines-- CredRepo <--extends-- AuksdReq --extends--> Acl     Xqueue <--extends-- Auksd
                                                    ^                             ^                  ^
                                              AuksdReqProofs                XqueueProofs <------ AuksdProofs

    Rpc <--refines-- Client <--extends-- ClientRs          LibMap <--refines-- Library --> Freelist
                                             ^                                    ^
                                        ClientProofs                        LibraryProofs

    Spank <--extend-- SpankC, SpankRs <-- SpankNode        Renewal              Calls <-- KrbCred, KrbStream <-- Krb
                                              ^               ^                                              ^
                                         SpankProofs     RenewalProofs                                   KrbProofs

### CredStore: what the repository promises

A map from uids to credentials, `Put` and `Drop`.  A credential is stored under its own uid
and a stored one gives way only to one that outlasts it.  There are no files, no mutex, no failures.

### CredRepo: the repository

`library` is the `xlibrary`, `disk` the files `aukscc_<uid>`; a file is absent (`NoCred`), truncated
(`Partial`) or complete.  `op` is the frame of the operation that holds `repo->mutex`; it is `Idle` when the
mutex is free.  Every operation is split where it touches the disk:

| C function | actions |
|---|---|
| `auks_cred_repo_add_nolock` | `BeginAdd` (lookup, comparison, removal of the old one from memory), `AddUnlink`, `AddInsert`, `AddInitFile`, `AddWriteFile` (`auks_krb5_cred_store`), `End` |
| its failures | `BeginAddBlind`, `AddInsertShadowed`, `AddInsertFails`, `AddStoreFails` |
| `auks_cred_repo_remove_nolock` | `BeginRemove`, `RemoveUnlink`, `End` |
| `auks_cred_repo_clean_nolock` | `BeginClean`, then per indexed item `CleanKeep`, `CleanExpired`, `CleanLookupFails`, `CleanUnlink`, and `CleanEnd`, `End` |
| `auks_cred_repo_init`, `_load_cache` | `Restart` or `Crash`, then per file `LoadFile` or `LoadFails`, and `LoadEnd` |

A credential is a record: owner, uid, endtime, renew_till.  `InitUids` is the conversion from
principal to uid in `auks_cred_init`: without a local account `pw_uid` is read uninitialised, which is a
choice among all uids.  The clock and the number of restarts are bounded by `MaxTime` and
`MaxRestarts`.  `faults` is chosen once among `FaultSets` and says what may fail in this behaviour:

* `oom`: `malloc` fails under a freelist of the library.  A lookup that cannot get a working item
  takes the credential for absent.  When the removal inside `xlibrary_add_item` cannot get one either,
  `tsearch(3)` keeps the old node: the file has the new credential and memory the old one
  (`AddInsertShadowed`).  When the cleaner's lookup fails, a zeroed credential is tested, found expired, and
  the credential of uid 0 is removed (`CleanLookupFails`);
* `unlink`, `store`, `load`: the removal, the writing, the reading of a file fails;
* `crash`: the process dies, at any step of an operation.

`promise` and `torn` are history variables: what the last acknowledged operation on a uid lets its
caller expect, and the uids whose addition a crash interrupted.

### AuksdReq: the handlers

Extends `CredRepo`.  `session[w]` is what worker `w` is doing: closed, ready for a request, inside
the critical section of an ADD, between the two of a REMOVE, inside the second, or with a reply to send.
Each request type is an action or two: `Ping`, `BadRequest`, `Add`/`AddRefused`/`AddDone`, `Get`,
`RemoveCheck`/`RemoveBegin`/`RemoveDone`, `Dump`.  A lookup is atomic: it runs under the mutex and
touches no disk.  `MayAdd` and `MayUse` are the authorisation tests of the handlers and of
`_auksd_check_rw_right`.  `acl` is the file in force, which a restart or a crash
reads again; a session keeps the role it got when it began.  What makes a client's message malformed is left
out; that it is answered with an error is not.

`Acl` has the rules of a file: which blocks are rules, which words are roles (`guest` is compared without its end),
when a file is refused as a whole, and the first rule that matches a principal.  The handlers pass `"*"` for the
host, as the code does.

### Library, Freelist, LibMap: what the repository is made of

`Freelist` has a freelist as the lengths of its arrays and the set of its free items, with the outcomes of an
extraction: an item, none, or the extension by no items after a refused one, which writes far outside of the array
(`Overrun`).  `Library` is `xlibrary.c` over two of them, the tree being the set of its items; an operation is
one step, as its caller holds the mutex, with every outcome of its allocations.  `LibMap` is the map that `CredRepo`
takes the library for: `Put`, `PutShadowed`, `PutFails`, `Delete`, `Lookup` are the steps of `library` there.
`Library` implements it, so that `AddInsertShadowed` and its companions in `CredRepo` rest on `xlibrary.c`.

### Xqueue: the queue

`queue`, `spare` (free items of the freelist) and one frame per thread.  A passage from the taking of
the mutex to its release or to `pthread_cond_wait` is one action.  `Signal` wakes any one of the waiters,
producer or consumer; `SpuriousWakeup` wakes without signal; `CancelWait` is a cancellation in
the wait.  `MayExtend` says whether `malloc` lets the freelist grow.

### Auksd: the process

Extends `Xqueue`, with the main thread as the only producer and the workers as consumers.  `pc` places
every thread of `auksd.c`: the main loop of `main()`, `auksd_main_loop`, the dispatcher, the workers
(`processor_main_function`), the cleaner.  Serving a connection is one step; what it does is the
subject of `AuksdReq`.  `exitFlag`, `eofMain`, `eofWorker` are the three flags, `cancelled` the pending
cancellations, `logger` the holder of the log's mutex, `accepted` a history variable.  The log matters
because `xverbose` holds its mutex across `write(2)`, a cancellation point: `BeginLog`, `EndLog`, `CancelLog`
model each line that a cancellable thread writes at levels 1 to 3.

### Rpc and Client: a call of the library

`Rpc` is the promise: the request of a call takes effect once at most; a call that has returned success
has taken effect; one that was refused never does; after any other failure it may have, or may still.

`Client` has `auks_api_request` with its two loops: `While` and `TryNext` count retries and daemons,
`Connect` (`xstream_connect`), `InitStream` and `Authenticate` are the stages at whose failure it turns to the
next daemon, `Send`, `Receive` and `Load` the stages at whose failure it does not.  `Check` is what
`auks_api_ping`, `add`, `get`, `remove` and `dump` make of the status and of the type of the reply; all but `add`
replace the status by one that says nothing.  The daemons are the environment: up, down, or hung
(the kernel completes connections, no worker serves them), with an `inbox` of requests whose client may have
gone.  `Break` loses a connection, `Stop` all those of a daemon.  Refusals in the sense of `Rpc` are the
statuses of the stages before `Send`.  What a request asks for is the subject of `AuksdReq`.

### ClientRs: the Rust client beside the C one

The client crate has the same two loops over the same daemons.  `lib` says which library a behaviour has, and
whether the Rust one knows one daemon only.  Shared steps are those of `Client`; the `Rs*` actions are where the
crates differ: one attempt at least, errors classified as `Retry` or `Return` call by call, a CLOSE after the reply has been
decoded, and results that do not tell whether a request has left.

### Renewal: two tiers

Time is explicit: `Tick` advances the clock of all, unless a process is overdue.  A stage of a loop takes
up to `Work` units.  `renewer` is `auksdrenewer.c`: the dump, the tests on each credential, the renewal at the KDC,
the ADD, the sleep for the rest of `Delay`, the flags and the signals.  `step[s]` is `auks -R loop`
(`auks_api_renew_cred` in loop mode): the test of the cache, the GET from auksd, the KDC when auksd has
nothing or does not answer, the store, the sleep.  `store` is the repository by the rule of its additions;
users add, replace and remove, and the cleaner cleans, at any time.  A renewed ticket lives as long as the one before, until
`renew_till` at most.  `mishaps` counts failures and signals, `given` is a history variable: the time that
a credential had left when it was last put where it is.

### Spank, SpankC, SpankRs: a job step

`Spank` is what surrounds a plugin: the submission with `--auks` and the environment, the hooks in the order in which
Slurm calls them in slurmstepd, the tasks, and the process `auks -R loop` that the plugin starts, with its fetch and
its store apart (`RenewerTest`, `RenewerStore`).  `stage` is the hook, `at` the place inside of it.  `SpankC` and `SpankRs` have the hooks of
the C and of the Rust plugin, call by call, with the error path of each; `SpankNode` puts either of them on the node.
`euid` is who slurmstepd is, `name` whether the remembered cache name is valid or freed, `pid` and `renewer` what the plugin
remembers of the renewer and what has become of it, `dirty` whether pages still need a ticket to be
flushed.  `faults` is what may go wrong in a behaviour, of fourteen kinds.  A store that fails leaves a cache with
or without the TGT (`PartlyStored`: `auks_krb5_cred_store` goes ticket by ticket).  `kill` is a signal that cannot be sent, `wait` a
`waitpid` that fails, as it does under `contain_spank`, where the renewer is no child of slurmstepd (`docs/AUDIT.md`): the C plugin goes on
in either case (`StopRenewer`, `WaitRenewer`), the Rust plugin forgets the renewer and returns an error (`StopFails`).

### KrbCred, KrbStream, Krb: sequences of calls

`Calls` has a C function as the sequence of its calls, each with the resource it yields and the label it jumps to.
`KrbCred` has a body for each of the ten functions of `auks_krb5_cred.c` (`GetBody`, `StoreBody`, ...): its calls, the releases that follow each label,
and what the successful calls do to a cache and to the data of a credential, which are sequences of tickets.
Functions follow each other in any order on one cache and one credential.  `held` are the
resources that a variable names, `lost` those that none names any more, `misused` a release of what is not held.

`KrbStream` has both ends of a connection.  `Parts` are the functions and stages that one consists of: `init_base`, `clnt_init` or
`srv_init`, the authentication, and the exchange of `auks_api_request` or `_auksd_process_msg`; `Attempt` is their sequence at
each end, `at` the part and `next` the call in it, and from `Opening` on the client is authenticated.  The structure is a variable of the caller, so `flags` outlive an attempt; `Releases`, `Clears`
and `FreesContents` are the ways out of the functions.  `Krb` is the choice of one of the two parts.

## 3. What the runs check

Passing runs.

| run | question | properties |
|---|---|---|
| `repo` | do memory and files agree, does a restart bring back nothing older, and do acknowledged operations hold, through failing unlinks, failing stores, unreadable files, crashes and restarts? | `RepoTypeOK`, `Mirrored`, `FilesCurrent`, `PromiseKept` |
| `repo_live` | are expired credentials dropped in the end, and does the repository implement `CredStore`, when two principals share one account, the process dies or unlink fails? | `EventuallyCleaned`, `ImplementsStore` |
| `library` | is `xlibrary.c` the map that `CredRepo` takes it for, while malloc refuses small blocks, large ones or none? | `NoAliases`, `NothingLost`, `ImplementsMap` |
| `req` | is authorisation kept when handlers, cleaner, changes of the ACL, crashes and memory exhaustion interleave, and principals share an account? | `RepliesAuthorised`, `OneInRepository`, `CleanOnlyExpired`, `RemovesOwn` |
| `queue` | is one signal per element enough? | `NoLostWakeup`, `Delivered` |
| `auksd` | is no connection in two pairs of hands, and is nothing freed in use, at the log level where workers can be cancelled with one? | `NeverShared`, `QuietWhenFreed` |
| `auksd_live` | below that level, is no connection dropped, does a signal break the loop, does the shutdown end? | `NoneDropped`, `BreaksLoop`, `Stops` |
| `client` | does a call of either library keep the promise of `Rpc`, and does it come back, while daemons die and hang, connections break, Kerberos fails and replies are garbage? | `ClientInv`, `Expected`, `ImplementsRpc`, `Returns` |
| `renewal` | with the smallest `MinLifeTime` that covers two periods, does a renewable credential ever expire? | `RepoFresh`, `StepFresh` |
| `spank` | in a step with either plugin, with one kind of failure anywhere, or a renewer that can neither be signalled nor waited for: privileges, the wish of the user, the cache of the renewer, the order of the teardown, its end | `PrivilegesRestored`, `NothingLeftBehind`, `Honoured`, `NameIsDefined`, `RenewsCacheOfJob`, `FlushedFirst`, `RenewerFirst`, `StepEnds` |
| `krb` | does every function and every connection release what it took, once, whichever call fails, and do the operations on a credential fit together? | `FirstIsTgt`, `Balanced`, `NothingHeldAtExit`, `ReleasesWhatItHolds`, `StoredWhole`, `SurvivesStore` |

The run in which TLC finds what a comment says not to hold of the code:

| run | statement | what happens |
|---|---|---|
| `auksd_log` | `Stops`; `auksd.c`: a signal makes the program exit or reload | the cleaner is cancelled while it writes a line, the mutex of the log stays locked, and the main thread blocks in its next line |

Further disagreements that were met while modelling are under `findings` in `PROJECT.json`, without a run.  Some of them
are in the models as behaviours that the properties spell out as exceptions: a crash between the unlink of the old file and
the new one (`PromiseKept` excepts it), a SIGTERM that the start of the main loop forgets, a daemon that hangs after the
connection (`Returns`), `--auks=no` that does not reach the node with the C plugin (`Honoured`), a
renewer on another cache than the job's (`RenewsCacheOfJob`), caches and renewers that outlive the step
(`NothingLeftBehind`, `RenewerFirst`), a freed name that is used again (`NameIsDefined`), leaks of
`auks_krb5_cred.c` (`Leaky`, `Careless`), a write outside of a freelist (`Crash` of `Library`), rules for a host that never
apply.  Others are outside of the models: a principal without a local account (`auks_cred.c:222`), the
blocking enqueue on a full freelist (`xqueue.c:441`), a dump that runs out of memory (`auks_api.c:412`), descriptors closed
twice or before they exist (`xstream.c:279`), a worker thread that cannot be created (`auksd.c:597`).

Some exceptions that the properties spell out are worth knowing:

* `PromiseKept` excepts `torn` uids, and failing stores once the daemon has been restarted; `Mirrored` excepts failing stores and memory
  exhaustion.  With failing stores the files may have less than memory, never something older: this is `FilesCurrent`.
* `RemovesOwn` is about accounts.  The code checks the owner in one critical section and removes by uid in another.  Of two principals
  of one account, the second may add its credential in between, and the first then removes it: with the claim restated for principals
  TLC finds this in `req`.  A credential of another account is never taken.
* `RenewerFirst` excepts a renewer that nobody has seen die (`Unconfirmed`).  The C plugin ignores the status of `waitpid`, the Rust plugin
  gives up with the first call that fails, and under `contain_spank` that call is `waitpid`: the removal may then meet a renewer
  that is alive.
* `NothingLeftBehind` names what the removal needs (`Removable`).  After a store that failed half way, both plugins unlink a
  file; a cache of another type keeps the TGT, and nobody keeps its name.

`StepFresh` gives the configuration a rule that `auks.conf(5)` does not: with stages of at most `Work`
seconds, `MinLifeTime + 1 >= 2 * Delay + 3 * Work`.  A step that finds its credential due just after auksdrenewer has
found it not due takes the old one from auksd as if it were renewed, and sleeps for a whole period.  With one second
less TLC finds a job whose credential expires although auksd, the KDC and both loops work; this was tried for
`(Delay, Work)` in `(1, 1)`, `(2, 0)`, `(2, 1)` and `(3, 1)`.  The defaults (60 and 300) satisfy the rule while a stage
takes 60 seconds at most.  For the repository alone `MinLifeTime + 1 >= Delay + Work` is enough (`RepoFresh`).

### Bounds, and why they are enough

* Repository: two uids (one to act on, one to be disturbed, uid 0 being special), two endtimes, and in
  `repo_live` three renew_till values (all the outcomes of the replacement rule), a clock of two or three ticks
  (before and after expiry), two restarts (a failure, then the effect of what it left behind on the
  next load and on the load after it).  `FaultSets` joins the faults that interact: failing unlinks with crashes and restarts (a removed
  credential that comes back), with failing stores or with exhausted memory, failing stores with crashes, unreadable files with crashes.  The
  first set is the one in which `PromiseKept` has restarts to survive, the one with failing stores and crashes alone is for `FilesCurrent`.
  In `repo_live` the process dies or unlink fails; with both, a failing unlink and a crash in one replacement bring the old credential
  back, and the repository is not the map of `CredStore`.
* Handlers: two workers and the cleaner (a critical section of each kind between two of another), three principals, two of them of one
  account (an addition by either may come between the check and the removal of the other), and in the files of the ACL
  a user, a guest, an administrator and a client without a role (all answers of the authorisation tests).
* ACL: three files, one of them invalid, in which roles change hands, a rule is for a host, a role is misspelt
  or absent and a rule is shadowed by an earlier one.
* Library: two references, freelists of one item that may grow twice (a refused extension, and the next one).
* Queue: one producer, as in auksd, and two consumers (a signal can go to the wrong one), a freelist of one
  item (full at once), `MaxLength` 3.
* Daemon: two workers, two clients, two signals (a SIGHUP, and a SIGTERM during the reload).
* Client: one client in C, in Rust, or in Rust with one daemon, as calls share no state but the daemons'; two calls (a request of the first may be
  executed during the second), two retries, an operation of each of the two ways to report a status.
* Renewal: one user, one step, one addition, one mishap; lifetimes just above `MinLifeTime`, where every
  unit counts; a clock that lets two renewals follow each other.  The violations with a smaller
  `MinLifeTime` come two units before the bound of the clock.

* Step: two tasks (the last one is told from the others), four configurations that differ in each setting, every
  word of the option, three values of the environment, one failure of the fourteen kinds at most, and
  the two together that leave a renewer neither signalled nor seen.  What other failures together
  in one step do is the subject of the proofs, which hold for every set of them; `StepEnds` is not looked at there.
* Kerberos: eight caches with several TGTs in either order, one renewal of a ticket; a client with four attempts, so that the
  flags of a failed one meet three more, and daemons with and without replay cache over any number of requests and connections.

Deadlock is not checked where the bounds stop the model (`repo`, `req`, `renewal`: clock and restarts;
`client`: calls; `library`: arrays, and the crash) or
where the process or the step ends (`auksd*`, `spank`).  It is checked in `repo_live`, `queue` and `krb`.

### Fairness, and why the code justifies it

* Weak fairness of the steps of a thread that runs or holds the mutex: the scheduler of the host.
* `RepoFairness` has strong fairness of `BeginClean`: the cleaner asks for the mutex again every
  `CleanDelay` for as long as the daemon lives, and critical sections are finite.  The same for `BeginLog`.  It is fairness
  of a mutex that is free again and again, not of an order among waiters.
* `FairLibsSpec`: the client runs, a daemon that is up serves the requests it has, a daemon that died is
  started again (its service unit).  Nothing wakes a daemon that hangs.
* `FairStepSpec`: slurmstepd runs its hooks and its tasks end; a process that got SIGKILL dies, and with the C plugin, which
  waits without limit, also one that got SIGTERM: `auks -R loop` does not catch it.  (When its `kill` fails nothing ends that
  wait, which `StepEnds` excepts.)  That the renewer otherwise makes progress
  is not assumed.
* Nothing is assumed of clients, signals, crashes, or spurious wakeups.  `BusyAuksdSpec` adds that there
  is always another client: the dispatcher looks at its flag between two connections, and a signal
  between the test and `accept(2)` is seen at the next one only (`BreaksLoop` needs it).

Two things are taken from Slurm: it calls `slurm_spank_exit` in slurmstepd also after a required plugin
failed, and it hands `SLURM_SPANK_AUKS` of the submission to the node.

## 4. What is proved

The first part of `AuksdReqProofs` proves of `CredRepo`, for all principals, uids, times, fault sets and numbers of restarts, from its
named assumptions (`RepoAssumption`, `ValuesAssumption`):

* `TypeCorrect`: `RepoSpec => []RepoTypeOK`, which is inductive as it stands.
* `MemoryMirrorsDisk`: `RepoSpec => []Mirrored`, under `LocalOwners` (every principal has an account).
  `Mirrored` speaks of the moments when the mutex is free and is not inductive.  `MirrorInv` adds what
  an operation in progress relies on: an addition carries a credential of its own uid (`FrameInv`),
  the credential is in memory by the time its file is written, and during "unlink" there is none in
  memory; a file holds a credential of the uid it is named after (`DiskInv`), without which a load would put it elsewhere;
  and `Mirrored` without its guard, except for the uid being written (`LibraryInv`).  `LocalOwners`
  is needed for `DiskInv`: the file of a principal without an account is loaded under another uid.
* `CleanerDropsExpired`: `RepoSpec => CleanOnlyExpired`, by `CleanInv`: the clock that a cleaning has
  read is not in the future, and what it has still to look at is in the library.

* `PromisesAreKept`, under `LocalOwners`: `RepoSpec => []PromiseKept`.  The promise on a uid is moved when its operation is acknowledged, while
  library and file change before; and a restart forgets the library.  `PromiseInv` says, for each place of an
  addition, a removal or a load, which of library, file and frame carries what was promised on the uid that is busy,
  that the others keep theirs, and during a load that the files yet to be read do.  It rests on the replacement
  rule being a total preorder (`Ordered`): a credential that is kept is at least as good as the one refused.

* `NothingOlderComesBack`, under `LocalOwners`: `RepoSpec => []FilesCurrent`.  `FileInv` says where the file of a uid may be complete while the library
  has something else, that is until it is unlinked or loaded, and that from "insert" on there is no complete file: the unlink precedes whatever can fail.

* `RepoImplementsStore`, under `LocalOwners` and `OnlyCrashes` (`repo_live` has also behaviours with failing unlinks and without crashes; the
  other faults do break the map):
  `RepoSpec => ImplementsStore`.  What is stored for a uid is the credential in the
  frame of the operation that replaces or removes it, or the file that is still to be loaded, or what the library has.  Each step is a `Put`, a `Drop` or a stutter; `StoreInv`
  adds to `MirrorInv` that a file without its credential in the library is about to be removed or loaded
  (`FilesKnown`), and what the frame holds while the library does not (`FrameHolds`).

`XqueueProofs` proves, from `XqueueAssumption`, for any number of consumers, any length and any freelist:

* `QueueInvariant`, `WakeupsReachConsumers`: `XqueueSpec => []NoLostWakeup`, under `NoRival`: there is one producer, or
  malloc grants every extension.  `QueueInv` adds that each side makes its own calls (`Roles`) and that no producer sleeps
  while another one runs (`RivalsAwake`).  `NoRival` is needed: of two producers, one that waits for a free item
  may take the signal that the element of the other one was to send to a consumer.  auksd has one producer.

`AuksdProofs` proves, from `XqueueAssumption` and `AuksdAssumption`, for any number of workers, connections and signals:

* `AuksdInvariant`: `AuksdSpec => []AuksdInv`.  To the invariant of the queue it adds where a thread is by its
  call and by the holder of the log (`Places`), that the queue is empty after the purge, the threads have ended after the join and the log
  is unlocked when the main thread is past it (`Stopped`), and whose hands a connection is in (`OneHand`,
  `AllHeld`).  The queue is the one of `Xqueue`, and the steps of its proofs are cited for it.
* `NeverInTwoHands`: `AuksdSpec => []NeverShared`; `FreedWhenQuiet`: `AuksdSpec => []QuietWhenFreed`; `NoneIsDropped`:
  `AuksdSpec => []NoneDropped` below log level 3; `WakeupsReachWorkers`: `AuksdSpec => []NoLostWakeup`; `AuksdTypes`.
  That the purge waits for an empty queue, and that no worker leaves between its dequeue and the disabling of
  cancellation unless it logs there, is what the last two parts of the invariant need.

`ClientProofs` proves, from `ClientAssumption`, for any number of clients, calls and retries, any set of faults, and the
libraries in C and in Rust, the latter with one daemon too:

* `LibsInvariant`: `LibsSpec => []ClientInv`, and `CallsInvariant` for `ClientSpec`.  `Rpc` speaks of the outcome and of the number of effects only,
  neither of which is inductive.  `ClientInv` adds what excludes a second execution: there is one message for a
  call at most, and none once it has taken effect (`MessageInv`); as long as a call may still be tried elsewhere its
  request is untouched (`FrameInv`); a status left by an attempt is a refusal before the request is sent and never
  afterwards, so that what the caller is told agrees with what has happened (`FrameInv`, `ResultInv`); the
  calls that have not been made are untouched (`CallInv`, `ResultInv`).
* `LibsImplementRpc`, `ClientImplementsRpc`: `LibsSpec => ImplementsRpc`, the refinement: `Begin` and `RsBegin` are `Invoke`, `Execute` with an effect is
  `Effect`, even after the call has returned, `Check` and the return of the Rust library are `Return`, and every other step is a stutter.
* `NothingAwaitedInVain`: `LibsSpec => []Expected`.  With `ClientInv` the property is inductive: `Send` puts the request into the inbox
  of the daemon on whose reply the client then waits, and what takes it out leaves a reply or breaks the connection.

`RenewalProofs` proves, from `RenewalAssumption` and `CredAssumption`, for any users, steps, delays, lifetimes and mishaps:

* `RenewalInvariant`: `RenewalSpec => []RenewalInv`.  That a credential has not expired now is not inductive: one has to know that it
  will last until somebody comes back to it.  `Until(u, k)` is the time that the credential of `u` in the repository lasts at least: `k - Delay` from
  the beginning of the stage at work as long as that has still to come to `u` (`Awaited`), `k` once it has.  `RenewerInTime`
  bounds each stage by the clock, `RenewedLasts` says that what the KDC gives is not due again before the next stage, `Lasts`
  carries `Until` from stage to stage, and `StepLasts` says for each point of the loop of a step how long the cache in hand lasts: a stage, a
  period and a stage, or the stage after the sleep.  The invariant is that of undisturbed behaviours; `AllBegun` and `AllTested`
  (a renewal is asked for only when the lifetime allows for it) hold in all.
* `RepositoryStaysFresh`: `RenewalSpec => []RepoFresh`; `StepsStayFresh`: `RenewalSpec => []StepFresh`.  The rule
  `MinLifeTime + 1 >= 2 * Delay + 3 * Work` for steps, found with TLC on small values, is hereby sufficient for all values.

`LibraryProofs` proves, from `FreelistAssumption` and `LibraryAssumption` (a freelist has an array at least), for any references,
any length and growth of the freelists and any refusals of malloc:

* `LibraryInvariant`: `LibSpec => []LibInv`.  `LibInv` is `Sound(Library, {}, {})`: the freelists are well formed (`ListOK`: the
  free items are among those of the arrays), the items of the tree are used ones, each with a key and an object of its own,
  and, unless the system refuses small blocks, no other item is used.  The two sets are what an operation has in hand in its
  middle, references of the freelist and objects, so the same predicate describes the states between its calls.
* `ItemsAreInOnePlace`: `LibSpec => []NoAliases`; `ItemsComeBack`: `LibSpec => []NothingLost`.
* `LibraryImplementsMap`: `LibSpec => ImplementsMap`, operation by operation, with every outcome of its allocations: the lemmas
  `ExtendedContents` and `ExtractionIs` say what an extension and an extraction of a freelist come to.

`SpankProofs` proves, from `SpankAssumption`, for either plugin, any number of tasks, any configurations and any faults *together*:

* `StepInvariant`: `StepSpec => []SpankInv`.  A property of the end of a step depends on what each hook leaves to the next.  `Places`
  ties the place in the code to the hook and to the privileges; `Beginnings` says what cannot be there before the tasks and before the
  new cache; `CNames`, `RsNames`, `RenewerNames` tie the name that the plugin remembers to the cache of the job and to that of
  the renewer; `Reaping` says that the plugin that hears of every task, and whose calls of kill and waitpid succeed, does not lose the renewer; `Holds` says who can still remove a
  credential: whoever has the name of the new cache, or is about to get it; `Flushing` that the flush comes after the last write.
* `StepdIsRootAgain`, `CredentialIsRemoved`, `RefusalIsHonoured`, `FreedNamesAreNotUsed`, `RenewerHasTheCacheOfTheJob`:
  `PrivilegesRestored`, `NothingLeftBehind`, `Honoured`, `NameIsDefined`, `RenewsCacheOfJob` always hold; the exceptions that these properties
  name are all there are, also when several faults meet.  `RenewerIsGoneFirst`, `WritesAreFlushedFirst`: the action
  properties `RenewerFirst` and `FlushedFirst`, from the same invariant.  `StepTypes`.

The second part of `AuksdReqProofs` proves of `AuksdReq`, from the assumptions of `CredRepo` and `AuksdReq`, for any workers, clients, principals and ACL files:

* `HandlersUseRepository`: `ReqSpec => UsesRepository`, which no run checks.  Each action of `AuksdReq` is one of `CredRepo` or leaves its
  variables alone, action by action; what is proved of the repository therefore holds below the handlers.
* `RepliesAreAuthorised`: `ReqSpec => []RepliesAuthorised`, by `ReqInv`: the types of the repository and of the sessions,
  that the ACL is a valid file, that only a session about to reply has a reply, that the role of an open one is the role that the ACL *in force* gives to its
  client, and the property.  The part about the role is what a reload could break, and holds because `main()` joins
  the workers before it reads the file again.
* `SessionsWellTyped`: `ReqSpec => []ReqTypeOK`, from the same invariant.
* `OneAtATime`: `ReqSpec => []OneInRepository`, by `BusyInv`, which adds that the frame is idle exactly when it is
  nobody's and that only a load reads files, so that a step of an operation in progress keeps its kind (`ProceedKind`).
* `OwnIsRemoved`: `ReqSpec => RemovesOwn`, under `LocalOwners`; principals may share accounts.  Between the
  check and the removal another worker may have replaced the credential, so that what was looked at does not count.  `CheckedInv`
  says that the uid that a session is about to remove is the account of its client, or that the client is an administrator;
  `LibraryOwned` that what is stored under a uid is of a principal with that account, which is preserved by
  the invariant of the repository (`MirrorInv`), loads from files included.

`KrbProofs` proves of `Krb`, for any caches, any inputs that an earlier operation has made (`KrbCredAssumption`), any bound on renewals, any
number of attempts and a failure of any call:

* `CredentialsInvariant`: `LibSpec => []DataInv`.  A function that is running holds what its table says: `Held` has for each function
  what it holds before each call when none has failed.  `FunctionOK` compares the table with the body, call by call: a call that succeeds
  leads from one entry to the next, a call that fails jumps to a label from which exactly what is held is released.  This is checked for the ten
  functions, and an action then only has to keep `HeldOK`.  The rest of `DataInv` says what has been found in the cache, packed or stored at
  the place where the function is (`Getting`, `Storing`, `Renewing`, `Crossing`).
* `EverythingIsReleased` and `OnlyHeldIsReleased` (`NothingHeldAtExit`, `ReleasesWhatItHolds`) follow from the tables; for `Leaky` and `Careless`
  functions the comparison fails, which is why they are excepted.
* `TgtIsFirst`: `LibSpec => []FirstIsTgt`.  The invariant has a stronger form: an auks credential is a TGT of the realm, with at most one for
  another realm after it.  What `get` has found, and what the KDC has answered, is such a pair before it is packed.
* `StoreIsWhole`, `StoredIsFoundAgain`: `StoredWhole`, `SurvivesStore`.  The first is the loop of the store: the cache is the part of the credential
  that has been stored so far.  The second is the loop of `get`: as far as it has read, it has found the TGT that is there.
* `StreamsAreBalanced`: `LibSpec => []Balanced`.  `FlagsIn` and `OthersIn` have for each part of an attempt the flags that are set and the
  resources that only variables name, before each call; `StreamInv` says that what exists is what the flags name together with these.  `AttemptsOK`
  checks that the parts fit together, and that each label, with the release of the structure or without it, releases what exists.
  Between two attempts nothing is said of the flags, as the structure may hold anything then; that an attempt begins by clearing them is needed.

Each proof is laid out as a lemma per action or group of actions.  The runs check the same properties on small instances, and `client`
checks `ClientInv` itself.

Only model-checked: liveness under fairness (`EventuallyCleaned`, `Delivered`,
`BreaksLoop`, `Stops`, `Returns`, `StepEnds`), which the proof system cannot treat.  Every other
property of a passing run is a theorem.  No module uses RECURSIVE operators, and nothing here needs
induction over data.

## 5. What is not modelled

* The Kerberos exchange, encryption and message layout: libkrb5's, or pure conversions.  The run of
  a request over the network is, on the server's side, the choice in `Send` between a reply that leaves
  and one that does not.
* `pthread_create` failures, the background fork, the statistics of SIGUSR2, log levels above 3 (where
  the queue and the repository log too).
* Regular expressions and name resolution in the ACL: sets of principals, and `"*"` for the host.
* The index of the library: a set of its items here.
* Configuration (its scanner and parser are generated), `auks` command, PAM module, `xmessage` (unused): no state of their own
  after start, or one call of the client library.
* Allocation failures and file descriptors of the client.
* The Rust crates for the protocol, for credentials, for the configuration and for libkrb5: codecs and wrappers
  without state.  The transfers of `xstream.c` and of `auks_krb5_stream.c` that auks does not call.

## 6. Plan

Done, in order of importance:

1. `CredStore`, `CredRepo`: the repository.
2. `AuksdReq`, `Acl`, `AuksdReqProofs`: the handlers over it, with the access control list, and the proofs of both.
3. `Xqueue`, `XqueueProofs`: the queue.
4. `Auksd`, `AuksdProofs`: the process over the queue.
5. `Rpc`, `Client`, `ClientRs`, `ClientProofs`: a call of either library.
6. `Renewal`, `RenewalProofs`: auksdrenewer and the loop of a step.
7. `Spank`, `SpankC`, `SpankRs`, `SpankNode`, `SpankProofs`: a job step.
8. `Library`, `Freelist`, `LibMap`, `LibraryProofs`: what the repository is made of.
9. `Calls`, `KrbCred`, `KrbStream`, `Krb`, `KrbProofs`: what is built on libkrb5.

Left:

10. Workers that cannot be created, and log levels above 3, in `Auksd`.

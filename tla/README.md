# A formal model of the banking transaction system

TLA+ modules, TLC configurations and TLAPS proofs for the C program in `src/`:
a preforking TLS banking server whose workers share an account database in
System V shared memory, a one-time-password (OTP) service, and their clients.
Line numbers below are those of the files under `src/`.

## 1. The system

| component | files | state it keeps | operations | modules |
|---|---|---|---|---|
| account database | `common/src/account.c`, `account.h` | table of accounts, count, `db_lock`, one lock per account, all in shared memory | init, create, deposit, withdraw, balance, cleanup | `Money`, `AccountCalls`, `AccountDB`, `Ledger` |
| OTP service | `otp_server/otp_server.c`, `otp_ipc.h` | table of codes, in the memory of one process | generate, verify | `OtpServer`, `OtpPromise` |
| server processes | `server/banking_server.c` (`main`, `worker_main`, the handlers) | `keep_running`, `server_fd`, `worker_pids`, pending signals | start, fork, pause, kill, wait, clean up | `Lifecycle` |
| requests and responses | `server/banking_server.c` (`worker_main`, `process_request`), `protocol.h` | connections, packets in flight | accept, read, check, process, answer | `BankingServer` |
| shared segment | `common/src/ipc.c` | the segment of `SHM_KEY`, who has it attached | create or take over, attach, detach, remove | `IpcSegment` |
| packet format | `common/src/protocol.c`, `crypto.c` | none | pack, unpack, checksum | `Protocol` |
| stress client | `stress_test/stress_client.c` | a connection, a code and a counter per thread | flows of four requests, report | `StressClient` |
| legacy client | `client/src/*.c` | a connection, a start barrier and counters | connect, send, receive, report | `LegacyStress` |
| interactive client | `client/banking_client.c` | one connection | send a request and await its response | the clients of `BankingServer` |
| TLS wrapper | `common/src/tls_wrapper.c` | | | no module: its outcomes are in `BankingServer`, `StressClient` and `Lifecycle` |
| build, certificates | `Makefile`, `gen_certs.sh`, ... | | | not modelled, but for `make clean-ipc` in `IpcSegment` |

How they interact: the master forks the workers, which share the listening
socket and the segment.  A worker holds one connection at a time and, for each
packet, calls the account database (loads, stores and mutexes, interleaved with
the other workers') or the OTP service (a TCP connection per call).  The master
ends the workers with signals.  Every call between processes can be cut short
by the end of one of them.

    stress_client ─┐                    ┌─ account.c in the segment of ipc.c
    banking_client ├─ TLS ─ worker 1..n ┤
    legacy client ─┘          │         └─ otp_server
                            master (fork, signals, wait)

What is hard, and what is asked of each component:

* **account database** - transactions of several workers interleave at every
  memory access; two kinds of mutexes are nested; a worker is ended by
  `exit(0)` in a signal handler at any point.  *Every call is indivisible (it
  implements `Ledger`); no lost update; no overdraft; one slot per id; every
  call returns.*
* **OTP service** - first-fit slots leave old entries behind; the service
  handles one connection at a time without timeouts and loses its table when it
  crashes.  *Every call is indivisible (it implements `OtpPromise`); the latest
  code is the one compared; a code is accepted no more often than issued; every
  call returns.*
* **server processes** - signals arrive between any two statements and are
  inherited, copied and lost; `SIGCHLD` reaps what the shutdown waits for.
  *The segment outlives the workers; nothing is left behind; the shutdown ends.*
* **requests and responses** - responses carry no usable request number; a
  worker may die between an effect and its answer; five workers serve any
  number of clients.  *Answers pair with requests; a client knows what its
  requests did; a waiting client is served.*
* **shared segment** - a start removes whatever is under the key, also the
  segment of a server that runs, and two starts can race.  *A server's table
  stays its own; only starts that overlap share; no segment is leaked.*
* **packet format** - unsigned lengths, a 16-bit sum that wraps.  *What is packed
  is unpacked, never beyond the structure; a damaged byte is noticed.*
* **clients** - threads outnumber workers and hold a worker for as long as they
  are connected; a dead worker cuts a flow anywhere.  *A login that reaches the
  OTP service is refused only after a crash of it; the table holds what was
  confirmed; the run ends.*  *The barrier opens for all; the report is complete.*

The full list of hazards, with lines, is in `PROJECT.json`.

## 2. The modules

    Money - AccountCalls - AccountDB  ...implements...  Ledger ─────┐ (DB)
                                                                    BankingServer - StressClient
                           OtpServer  ...implements...  OtpPromise ─┘ (OTP)    \
    Lifecycle      IpcSegment                           Protocol ────────────── LegacyStress

`BankingServer` is built over the two abstract specifications, `DB == INSTANCE
Ledger` and `OTP == INSTANCE OtpPromise`; the two detailed ones are shown to
implement them.  So what is shown of the server does not depend on how the
database and the service work inside, and what is shown of these is not
repeated with clients around them.

### `Money`, `AccountCalls`: amounts, requests, codes

Balances and amounts are `double`.  A finite amount is an integer number of
units; NaN and the infinities are constants, because the tests of `account.c`
treat them in ways of their own: `Lt` and `Le` are the C operators, false for a
NaN, `Add` and `Sub` the IEEE sums.  Rounding is not modelled.  `AccountCalls`
has the requests, the return codes (-2 and -3 mean different things in
different functions) and `Rejected`, the test each function makes before it
locks anything.

### `AccountDB`: the code of `account.c`

Variables `accounts`, `account_count`, `db_lock` and `acc_lock` are the shared
memory; `pc`, `req`, `acc`, `reg` and `ret` are a worker's call: where it
stands, its arguments, its pointer, the balance it has loaded, its result.  An
action is one access to shared memory that another worker can separate from the
next; in particular `acc->balance += amount` is a `Load` and a `Store`.  A
search of the table is one action because it reads only what is written under
`db_lock`, which the searcher holds.  The path of a deposit is

    Call  GoodArgs  LockDb  FindAccount  LockAccount  UnlockDb  Load  Store
    ReadBack  UnlockAccount  Return

a withdrawal has `Cover` or `Refuse` after `UnlockDb`, a query `Query` instead
of load and store, and a creation `TakeSlot FillSlot Publish LeaveDb` under
`db_lock`.  `Die` kills a worker wherever it stands; the mutexes it holds stay
locked, as `account_init` does not make them robust.

### `Ledger`: what the database promises

Each call takes effect in one step, `Perform`, between its start and its
return.  `AccountDB` implements it under the mapping `L == INSTANCE Ledger WITH
...`: a call takes effect when it is refused, when its account is published
(`account_count++`), at its store, or at the load of a query.  A killed worker's
call has taken effect wholly or not at all.  `LedgerSpec == L!Spec` is checked in
`db_killed` and proved in `AccountDBProofs`.

### `OtpServer` and `OtpPromise`: the OTP service and what it promises

The service accepts a connection, reads, changes its table, responds and
closes; a caller (`call_otp_service`) connects, writes, reads.  Each is an
action of `OtpServer`.  A caller has one connection at a time, so a connection
is named by its worker; the kernel's backlog is a bounded queue.  `Crash` loses
the table and cuts every connection, `Restart` starts with an empty table, `Die`
kills a caller.  `ConnectFails` is a `socket` or a `connect` that fails, for want
of a listener or for any other reason, the service up or down: the call returns 0
without an effect, which is `GiveUp` of `OtpPromise`.  There is no clock: `expiry` is written and no step reads it.
The history variables `credit` (how often a code was issued for an account, less
how often it was accepted) and `latest` are read by no action.

`OtpPromise` has a pile of codes per account.  A generation puts a code on top,
or in the place of the top one (a slot before the account's own may or may not be
free); a verification looks at the top only.  The mapping `P` takes an account's
entries in the order of the table (`Pile`, `Piles`) for its pile, and a call as
performed from the step that computes its answer (`Phases`, `Outcomes`);
`PromiseKept == P!Spec` is a PROPERTY of `otp_safety` and proved in
`OtpServerProofs`.

### `Lifecycle`: processes and signals

The master is `mpc`, from the TLS context on, with its copies of `keep_running`
and `server_fd`; a worker is `wpc[w]` with its own, as a fork copies them.
`signal()` has its glibc semantics: `accept`, `read` and `waitpid` are restarted
(an `accept` on a descriptor the handler has closed fails with EBADF), `pause`
always returns.  The master's handler runs at once, as it only writes variables;
a worker's signals are pending in `wsig` until it runs.  Failures of the TLS
context, `ipc_init_server`, `socket`, `bind`, `listen` and `fork` are disjuncts
or actions of their own.

### `BankingServer`: requests and responses

Clients connect, wait in the backlog, send a packet and await its response;
workers accept, check and answer.  A packet is one of the classes the server
tells apart: an account operation (with its arguments), an OTP operation, a
payload that `unpack_request` or the `switch` refuses, a wrong checksum, a
record of the wrong size.  Another worker's transactions fall between the start,
the effect and the return of a call, and the OTP service may crash and come back
at any time; a call to it may also fail before it gets there (`OTP!GiveUp`, in
`RespondOtp`).  The backlog is a queue without a bound: the clients of a run are
fewer than `BACKLOG`.  An uninitialised `new_balance` is the value `Unwritten`;
the response to a creation carries the amount requested, as in line 125.
`Lost(c)` is a connection the server has closed, `RequestFails` a client that
finds it so, `EndProcess` the end of a client's process at any point.  `n` and `r`,
the number and the request of the packet a response answers, are not on the wire;
they and `effects` and `acked` are there for the properties.

### `StressClient`: the threads of `stress_client.c`

Extends `BankingServer`: a client follows `worker_thread`.  `step`, `flows` and
`otp_code` are the thread's own; `Follow` is what a response makes of the flow.
A request on a lost connection fails (`FlowFails`), and the thread goes on with
its next flow on the same connection; `SigPipe` ends the process, which does not
ignore that signal: it may come with a request or with the shutdown of the TLS
connection.  `confirmed`, `since` and `failed` are history; `failed` notes a crash
of the OTP service, the death of a worker and a call to the service that did not
get through (`Noted`).  `LoginAccepted` is about the answer of the service itself,
as a login whose call does not reach it is refused for that reason alone.

### `LegacyStress` and `Protocol`: the older client, and the packets

`Protocol` has the checksum, `pack_request` and `unpack_request` as operators on
lengths and bytes; `HeaderSize`, `SumSize` and `SizeT` are constants, so the
wrapping of the sum and of the length's subtraction is in reach of small values.

The older client (`client/src`) sends records as long as their payload instead of
a whole `BankingPacket`, and a worker closes the connection on the first of them
(`banking_server.c`, "Invalid packet size"; `WrongSize`).  `LegacyStress`
composes both: from the sizes of `Protocol` it assumes that no record has the
length of a packet, and runs `worker_routine`, its barrier and `run_stress_test`
against the workers.  So the login and the counting of successes are never
reached, and are not modelled; the barrier and the counting of failures are.
`EndTest` is the end of the process, by `exit` or by a signal.

### `IpcSegment`: several servers on one key

Each server is one start of `banking_server`, from `ipc_init_server` to
`ipc_cleanup`, one action per system call.  `keyed` is the segment under
`SHM_KEY`, `attached[s]` the one a server's processes use, `tables[g]` the server
that initialised the table in it.  A segment lives while it has its key or is
attached.  Servers crash at any point, lose their master (the workers serve on),
fail to get memory or the port, and `make clean-ipc` removes the key at any time.

### The others

The `MC*` modules hold the values of the constants and the symmetry sets; the
`*Proofs` modules the theorems.

## 3. The runs

Deadlock is not checked: the models stop when the bounded calls are used up,
all workers are dead, or the server or the test has ended.

| run | shows | bounds |
|---|---|---|
| `db_safety` | uniqueness, no overdraft, no lost update, cover of withdrawals, the inductive invariant, stable slots | 2 workers, 3 calls each, 2 ids, 2 slots, refused and accepted amounts; 640 000 states up to symmetry |
| `db_killed` | type (a full table included), refinement of `Ledger` with a worker killed at any point; every call of a live worker returns unless a mutex was orphaned | 3 workers, one mortal, 1 call each, 2 ids, 1 slot; 160 000 states |
| `db_nan` | violation: a withdrawal of NaN | 2 workers, one id |
| `otp_safety` | latest code compared, one-time over crashes, the inductive invariant, refinement of `OtpPromise` | 2 mortal workers, 5 calls, 2 accounts, 2 slots, 2 codes that may repeat, 1 crash; 723 000 states up to symmetry |
| `otp_live` | nobody waits in vain, every call returns | backlog of 1 and table of 1, a mortal worker, 4 calls, 1 crash; 85 000 states |
| `otp_duplicate` | violation: two valid entries of one account | 2 accounts, 2 slots |
| `life_retry` | the segment outlives the workers, nothing is left behind, the inductive invariant, the shutdown ends, a repeated signal ends the server | 3 workers, 2 Ctrl+C, any number of SIGTERM from the start on, 1 crash; 98 000 states |
| `life_wakeup` | violation: a signal between the test and `pause()` is lost | 2 workers |
| `bank_serve` | pairing, known effects, written balances, the inductive invariant, waiting clients served, requests answered | 2 workers, one mortal, 2 clients with 2 and 1 packets, every kind of packet, 1 crash of the OTP service, any call to it may not get through; 326 000 states |
| `ipc_starts` | a server's table is its own, sharing only by overlap, no segment leaked, the inductive invariant | 3 servers, two of them on one port; 382 000 states up to symmetry |
| `stress_flows` | logins, balances, counters, the inductive invariant (that of `BankingServer` is a part of it), the end of the run | 2 threads with 2 flows and 1, 2 workers, one mortal, 1 crash of the OTP service, any call to it may not get through; 949 000 states |
| `legacy_barrier` | the threads start together, the report is complete, the test ends | 3 threads with 2 requests each, 2 workers, one mortal; 25 000 states |

The type invariant is a conjunct of `IInv` (`LegacyInv`, `StressInv`) where a run
checks that.
`legacy_barrier` also evaluates `RoundTrip` and `DamageNoticed` of `Protocol`, as
an assumption of `MCLegacyStress`: three byte values, a sum that wraps at four,
payloads of up to three bytes.

Why the bounds are enough.  Two workers and two slots give every pair of
overlapping calls, on the same and on different accounts; three calls let a
creation, a deposit and a withdrawal of each overlap.  The full table is reached
in `db_killed`, which has one slot for two identifiers.  Three workers with one
call each give the longest chain of waiters: one holds the account, one waits
for it with `db_lock`, one waits for `db_lock`.  A table of two codes and two
accounts is the smallest in which first-fit leaves an old entry behind.  Three
server workers let one be unborn, one starting and one serving while the master
is at any point of its loops.  When the mortal worker of `bank_serve` is dead,
both clients compete for the other.  Three starts let a server run, or its
orphans, while two others race for the key.  A second flow finds its account
there already and an older code spent; three threads on two workers put one in
the backlog while two hold the workers at the barrier.  The safety properties do
not rest on the bounds: most are proved (section 5).

`MaxCalls`, `MaxSends`, `Sends`, `MaxCrashes`, `MaxKills` and `MaxInterrupts`
bound the models only, each in the guard of the action it counts; `MaxAccounts`,
`MaxOtps`, `MaxDataSize` and `Rounds` are limits of the code.  In `stress_flows` the table of codes has room for every
thread, as `MAX_OTPS` has for the threads of a usual run.

Premises that properties state, and why:

* `NoEarlySignal` (`Lifecycle`): no signal before `socket()`.  Without it a
  worker that is slow to install its handler may never see its socket closed.
  `SignalEndsServer` holds of `RetrySpec`; without the retry, see `life_wakeup`.
* `Orphaned` (`AccountDB`): a worker killed with a mutex blocks the others.
* `FiniteInputs` (`AccountDBProofs`): no NaN and no infinity; see `db_nan`.
* `~failed` (`StressClient`, `FlowsAreDeposits`): a flow ends early when the OTP
  service has crashed, a call did not get through to it or a worker has died.
* `Met` (`IpcSegment`): two servers inside `ipc_init_server` at once may share a
  segment, because the second `shmget` is without `IPC_EXCL`.

## 4. Fairness

* `AccountDB!FairSpec`: the scheduler runs every live worker that can move.
  Weak fairness only: nothing is assumed of the order in which a mutex is handed
  over, and the bounded calls keep a worker from being overtaken for ever.  With
  unbounded calls a waiter could starve, which glibc's mutexes do not exclude.
* `OtpServer!FairSpec`: the callers within a call and the running service are
  scheduled.  A crashed service need not be started again.
* `Lifecycle!FairSpec`: master and workers are scheduled; no client connects or
  leaves.  Ctrl+C is bounded, as signals without end would keep the processes in
  their handlers.  `RetrySpec` adds an operator who repeats SIGTERM while the
  server still pauses; without it a signal may be lost (`life_wakeup`).
* `BankingServer!FairSpec`: live workers and clients are scheduled; a client reads
  its responses and leaves when it has none to wait for, as the threads of
  `stress_client.c` do (109-163).  The code has no timeout, so a client that
  stays, or never finishes its handshake, holds its worker.
* `StressClient!FairStress`: the process of the threads is scheduled, and so are
  the live workers, each group as a whole: which thread and which worker moves is
  left open.  Where some thread can move at any time, the scheduler runs one; that
  is enough, as every thread and worker has only so much to do before it waits for
  the other side.
* `LegacyStress!FairLegacy`: the threads and the live workers are scheduled.  In
  both, that clients leave is no assumption: it is what the threads do.

The service that a crash has ended, a signal, the death of a process and a
failure are never fair: nothing relies on them.

## 5. The proofs

All theorems are for any set of workers, clients, servers, accounts and codes,
any table sizes and any number of calls and crashes, killed workers included.

| module | theorem | statement |
|---|---|---|
| `AccountDBProofs` | `InvariantHolds`, `TypesHold` | `Spec => []IInv`, `[]TypeOK` |
| | `AccountsAreUnique`, `NoUpdateIsLost`, `AccountsStay` | `Spec => []UniqueAccounts`, `[]NoLostUpdate`, `AccountsPersist` |
| | `BalancesAreCovered`, `NothingIsOverdrawn` | with finite amounts, `[]WithdrawalsCovered`, `[]NoOverdraft` |
| | `DatabaseKeepsPromise` | `Spec => LedgerSpec` |
| `OtpServerProofs` | `InvariantHolds`, `TypesHold` | `Spec => []IInv`, `[]TypeOK` |
| | `LatestIsCompared`, `CodesAreOneTime`, `NobodyIsForgotten` | `Spec => []LatestCodeCompared`, `[]OneTime`, `[]NobodyForgotten` |
| | `ServiceKeepsPromise` | `Spec => PromiseKept` |
| `BankingServerProofs` | `InvariantHolds` | `Spec => []IInv` |
| | `AnswersArePaired`, `EffectsAreKnown`, `BalancesAreWritten` | `Spec => []AnswersPaired`, `[]EffectsKnown`, `[]BalanceWritten` |
| | `PromisesAreUsed` | `Spec => DB!Spec /\ OTP!Spec` |
| `StressClientProofs` | `StressInvariantHolds` | `StressSpec => []StressInv` |
| | `ThreadsAreClients` | `StressSpec => Spec` of `BankingServer` |
| | `LoginsAccepted` | `StressSpec => []LoginAccepted` |
| | `BalancesAsConfirmed`, `FlowsAllDeposit` | where there is `Room`, `StressSpec => []BalanceAsConfirmed`, `[]FlowsAreDeposits` |
| `LifecycleProofs` | `InvariantHolds`, `TypesHold` | `Spec => []IInv`, `[]TypeOK` |
| | `SegmentIsThere`, `NothingIsLeft` | `Spec => []SegmentOutlivesWorkers`, `[]NothingLeftBehind` |
| `IpcSegmentProofs` | `InvariantHolds`, `TypesHold` | `Spec => []IInv`, `[]TypeOK` |
| | `TablesAreOwn`, `SharingIsOverlap`, `SegmentsAreRemoved` | `Spec => []ServedTableIsOwn`, `[]SharedOnlyByOverlap`, `[]NoSegmentLeft` |
| `LegacyStressProofs` | `InvariantHolds` | `LegacySpec => []LegacyInv` |
| | `ThreadsStartTogether`, `ReportIsComplete` | `LegacySpec => []StartTogether`, `[]ReportComplete` |
| | `ThreadsAreClients` | `LegacySpec => Spec` of `BankingServer` |
| `ProtocolProofs` | `PackedIsUnpacked`, `DamageIsNoticed` | `RoundTrip`, `DamageNoticed` |

`DatabaseKeepsPromise` and `ServiceKeepsPromise` say that the code below the
server keeps what `PromisesAreUsed` says the server relies on; the two theorems
`ThreadsAreClients` carry what is proved of the server over to the programs that
use it.

Each assumption is named in the module that declares the constants, and TLC
evaluates it in the runs: `CallsAssumption` (the table has a slot, amounts are
doubles, `NoAccount` and `Unwritten` are none), `MoneyAssumption` (NaN and the
infinities are distinct and no integers), `NoOneAssumption`, `BoundAssumption`,
`OtpAssumption` (a table and a backlog of at least one; finitely many workers,
because they are counted), `ServerAssumption`, `LifecycleAssumption`,
`SegmentAssumption`, `ProtocolAssumption` (a `size_t` holds a packet's size, and a
byte is smaller than the range of the sum, 256 against 65536),
`LegacyAssumption` (a record is not as long as a packet) and `StressAssumption`
(finitely many threads with an account each, a positive deposit,
enough packets for the flows).  `FiniteInputs` is an assumption of
two theorems only, and so is `Room`: no more threads than `MAX_ACCOUNTS` and
`MAX_OTPS`.  Without it a thread's account or code is refused for want of a slot,
and the two properties are false.

Hardly any of the properties is inductive.  The strengthenings, those
of the runs' specifications checked by TLC (as `IInv`, `LegacyInv`, `StressInv`)
before they were proved:

* **`AccountDB`**.  That no update falls between a load and a store depends on who
  holds the account's mutex, that on `acc` pointing to the slot meanwhile, and
  that on the table's mutex guarding the search.  `LockInv` says which points of
  the code hold which mutex, `RequestInv` which requests can be where,
  `PointerInv` what `acc` points to, `TableInv` that published slots are active
  and their ids unique, `LoadInv` that what was loaded is still there, and so is
  the cover of a withdrawal.  `BalanceInv` (no negative balance in the table) is
  added for the theorems about amounts.
* **`DatabaseKeepsPromise`**.  `RetInv`: a call that has not taken effect has not
  set its return value.  `StepSeen` reduces what the ledger sees of a step to the
  worker that makes it.  Then a step of the code is a `Start`, a `Finish`, a
  `Kill`, one of the four effects (`FailingRefused`, `StoreMoves`,
  `QueryInquires`, `PublishOpens`), or unseen (`BetweenUnseen`).
* **`OtpServer`**.  `ConnectionInv`: a connection the service holds or will accept
  belongs to a call that has read nothing yet, and none is held twice.
  `CreditInv`: the credit of a code covers the entries that hold it and the
  workers that are about to hear it was accepted; `OneTime` follows because both
  counts are natural numbers.  `LatestCodeCompared` is inductive with the types:
  `GenerateFirst` and `VerifySpends` say what first-fit does to the first entry.
* **`ServiceKeepsPromise`**.  `Pile` counts the entries of an account before a
  slot.  `PlacesCount` and `InOrder` show that this numbers them without gaps, so
  a pile's length is the number of its entries; then a step that changes one
  slot changes one place of one pile: the first entry of an account is its top
  (`FirstInOrder`), the others keep their order (`InOrderSame`).  `UsedInv` (a used
  entry is some account's) makes the entries of all piles those of the table
  (`OutstandingIsUsed`), hence a full table a promise with no room.  One lemma per
  action says which step of `OtpPromise` it is, `CrashCuts` which calls a crash
  cuts off.
* **`BankingServer`**.  `ConnectionInv`: a connection waits in the backlog or is
  held by one worker.  `OnePlace`: the packet a client sent last is on its way,
  in the hands of a worker, or answered, and nowhere twice; `AtHand`: what a
  worker works on is its client's last packet.  `CallInv`: the services work on
  what the packet asks for.  `Known` and `Owed`: what was done for a client and
  what it was told differ by the one request in a worker's hands or on its way
  back.  One lemma per action shows that it keeps all of it.  `PromisesAreUsed`
  needs of it the types only: what a worker asks of a service is what a packet of
  that kind can hold.
* **`StressClient`**.  What holds of a thread's account depends on where its last
  request is: still to be performed (`ToDo`), or performed, with an outcome in a
  worker's hands or on its way back (`OnItsWay`).  `ThreadInv`: a packet and the
  worker that has it are at the step the thread is at, and about its account.
  `Books`: the account has the deposits confirmed, and one more exactly while a
  successful deposit is on its way or its answer is lost.  `CodeKept`: the code a
  thread is to log in with is on top of its pile, unless the service has crashed
  since it was asked for; so `LoginAccepted` is kept when the service answers, and
  the proof follows it apart from the rest (`Settling`, `LoginsKept`).
  `HealthInv`: as long as nothing has failed (`failed`), every flow
  makes its deposit and leaves no code behind (`Flowing`).  `RoomInv`: there are no
  more accounts than threads, so under `Room` a creation is not refused.  The proof
  sorts `StressInv` into parts about one thread, one worker and the service
  (`SortedOut`), and shows that a request's outcome is in one place (`Place`); a
  worker's step then concerns the thread it serves, and leaves the others' parts
  as they are because no two threads share an account.
* **`Lifecycle`**.  `SegmentInv`, `SocketInv`: which points of `main` have them;
  `ForkInv`: `worker_pids` are the workers forked, in order; `WaitInv`: those
  waited for have ended.
* **`IpcSegment`**.  `HoldInv`, `NameInv`: who has which segment; `KeyInv`: what is
  under the key when a server is about to create its own was put there while it
  was starting; `OverlapInv`: starts that hold one segment overlapped; `TableInv`.
* **`LegacyStress`**.  `Standing`: the state of a thread's connection at each point
  of `worker_routine`, with all its requests counted when it has none; and either
  all threads are before the barrier or all behind it.
* **`Protocol`**.  The sum of a prefix depends on the prefix only
  (`ChecksumOfPrefix`), and the length of what is packed does not wrap
  (`LengthOfPacked`).  `ChecksumLoop` unfolds the recursive sum: what fails for some
  prefix fails for a shortest one (`LeastOf`, from the well-foundedness of `<`),
  which takes the place of an induction.  The sums of the sent and the damaged
  payload agree up to the damaged byte and differ from it on (`DamageMovesSum`).

Only model-checked is what needs fairness or ENABLED, about which the prover does
not reason: `SurvivorsReturnUnlessOrphaned`, `CallsReturn`, `TimelyShutdownEnds`,
`SignalEndsServer`, `WaitersServed`, `RequestsAnswered`, `RunEnds` and `TestEnds`.
Every other property of a run that passes is also a theorem.

## 6. What the runs with a violation show

Each is a disagreement between the code and what its comments or messages say,
listed under `findings`: a NaN passes the test against overdrafts (`db_nan`); an
account can have two valid codes (`otp_duplicate`); a shutdown signal can be lost
before `pause()` (`life_wakeup`).

Not runs, because they can be read off one definition: the responses to a failed
creation carry -2 and -3, which `protocol.h` (29-32) names "account not found"
and "insufficient funds", where -4 and -5 are meant (`banking_server.c:130`,
`AccountCalls`); and no step compares a code's `expiry` with the time
(`otp_server.c:69`, `Verify`).

## 7. Not modelled

* TLS itself, certificates and ciphers: a handshake succeeds or fails, records
  arrive whole and in order.  A client that connects and stays silent in
  `SSL_accept` is excluded by fairness.
* Menus, input and message texts, latencies; mode 1 of `client/src/main.c`, a
  menu over the calls `LegacyStress` has; the input loops of `banking_client.c`,
  one of which (line 208) does not end at the end of the input.  This is why the
  interactive client is `partly`.
* In the legacy client, what follows a response of the server: there is none.
* Rounding of doubles; ids of 20 bytes and more (`account.c:66`); a header that
  was not packed by the other side, two damaged bytes that cancel out in the
  sum, damage to padding (the sum covers none of these); what a short payload
  leaves in a structure.
* Reuse of pids; the C library's state in signal handlers that print; a dead
  worker is not replaced by the code, nor by the model.
* Failures of the OTP service's `bind` and `listen`, which its `main` ignores.
* Failures of `pthread_create`, whose result both stress programs ignore
  (`stress_test.c:180`, `stress_client.c:198`).  In the older client it would leave
  the barrier, which counts `num_threads`, one short, and the others waiting.
* A client that believes itself connected while the server refuses its
  certificate, as `SSL_connect` may return first under TLS 1.3 with
  `verify_client`: `HandshakeFails` makes the client gone at once.
* The refusal of too large a payload by `pack_request` in the clients: their
  payloads are structures that fit, as those of `Packets` do.  `Protocol` has it in
  the domain of the payloads it packs.
* Infinite amounts: `Money` has their arithmetic, but no run uses one.  An infinite
  balance covers every withdrawal, and an infinite withdrawal leaves a NaN.
* The socket that `stress_client.c:88` does not close when `connect` fails.
* `ipc_attach_client` and the `Transaction*` types, which nothing uses.

## 8. The plan, and what is left of it

The plan was: the database with its proofs, the OTP service, the processes, the
server; then the shared segment, the packets, the two stress clients, the
composition of the server with the OTP service's promise, and the proofs of the
refinement of `Ledger` and of the safety of every component.  All of it is there.

What would add most next: the contents of a thread's balance beyond the bounds
of `Room` (a thread whose account is refused has no deposits), and a composition
of `Lifecycle` with `BankingServer`, so that a shutdown meets workers in the middle
of a call.

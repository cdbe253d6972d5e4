----------------------------- MODULE Lifecycle ------------------------------
(***************************************************************************)
(* The processes of server/banking_server.c from start to shutdown: the    *)
(* master, which sets up the shared segment and the listening socket,      *)
(* forks the workers, waits for a signal and ends them; the workers, which *)
(* accept and serve connections; and the signals among them.               *)
(*                                                                         *)
(* Handlers are installed with signal(), whose glibc semantics restart an  *)
(* interrupted accept, read and waitpid; pause always returns.  A signal   *)
(* is handled at once when it is sent to the master (its handler only sets *)
(* variables); to a worker it stays pending until the worker runs again.   *)
(*                                                                         *)
(* A fork copies keep_running and server_fd: master and workers each have  *)
(* their own.                                                              *)
(***************************************************************************)
EXTENDS Integers

CONSTANTS
  MaxWorkers,    \* MAX_WORKERS
  MaxInterrupts, \* bound of the model: how often Ctrl+C is pressed
  MaxKills       \* bound of the model: workers that die of other causes

ASSUME LifecycleAssumption ==
  /\ MaxWorkers \in Nat \ {0} /\ MaxInterrupts \in Nat /\ MaxKills \in Nat

Workers == 1..MaxWorkers

VARIABLES
  mpc,           \* where the master stands in main
  next,          \* the loop variable i of main's loops
  keep_running,  \* the master's keep_running
  listening,     \* the master's server_fd is an open socket
  segment,       \* the shared memory segment exists, its mutexes usable
  worker_pids,   \* the workers whose pid main has recorded
  sigchld,       \* a SIGCHLD for the master is pending
  wpc,           \* wpc[w]: where worker w stands
  wkeep,         \* wkeep[w]: its keep_running
  wfd,           \* wfd[w]: its server_fd is an open socket
  wsig,          \* wsig[w]: the signals pending for it
  interrupts,    \* how often Ctrl+C has been pressed
  kills          \* workers that died of other causes so far

master  == <<mpc, next, keep_running, listening, segment, worker_pids>>
workers == <<wpc, wkeep, wfd, wsig>>
bounds  == <<interrupts, kills>>
vars == <<master, sigchld, workers, bounds>>

\* A worker is unborn, then a process at some point of worker_main, then a
\* zombie, then reaped.
Running == {"starting", "accepting", "serving"}
Gone    == {"zombie", "reaped"}
Startup == {"tls", "ipc", "socket", "bind", "listen"}

TypeOK ==
  /\ mpc \in Startup \cup {"fork", "test", "enter", "pause", "kill", "wait",
                           "cleanup", "failed", "done"}
  /\ next \in Workers
  /\ keep_running \in BOOLEAN /\ listening \in BOOLEAN /\ segment \in BOOLEAN
  /\ worker_pids \subseteq Workers
  /\ sigchld \in BOOLEAN
  /\ wpc \in [Workers -> {"unborn"} \cup Running \cup Gone]
  /\ wkeep \in [Workers -> BOOLEAN]
  /\ wfd \in [Workers -> BOOLEAN]
  /\ wsig \in [Workers -> SUBSET {"INT", "TERM"}]
  /\ interrupts \in 0..MaxInterrupts /\ kills \in 0..MaxKills

\* The handlers are installed; server_fd is -1.
Init ==
  /\ mpc = "tls" /\ next = 1
  /\ keep_running = TRUE /\ listening = FALSE /\ segment = FALSE
  /\ worker_pids = {} /\ sigchld = FALSE
  /\ wpc = [w \in Workers |-> "unborn"]
  /\ wkeep = [w \in Workers |-> TRUE]
  /\ wfd = [w \in Workers |-> FALSE]
  /\ wsig = [w \in Workers |-> {}]
  /\ interrupts = 0 /\ kills = 0

Goto(from, to) == mpc = from /\ mpc' = to
-----------------------------------------------------------------------------
(***************************************************************************)
(* main up to listen().                                                    *)
(***************************************************************************)

\* tls_create_server_context, or its failure: no file, no context.
InitTls ==
  /\ Goto("tls", "ipc") \/ Goto("tls", "done")
  /\ UNCHANGED <<next, keep_running, listening, segment, worker_pids, sigchld,
                 workers, bounds>>

\* ipc_init_server, or its failure, after which nothing is left.
InitIpc ==
  /\ \/ Goto("ipc", "socket") /\ segment' = TRUE
     \/ Goto("ipc", "done") /\ UNCHANGED segment
  /\ UNCHANGED <<next, keep_running, listening, worker_pids, sigchld, workers, bounds>>

OpenSocket ==
  /\ \/ Goto("socket", "bind") /\ listening' = TRUE
     \/ Goto("socket", "failed") /\ UNCHANGED listening
  /\ UNCHANGED <<next, keep_running, segment, worker_pids, sigchld, workers, bounds>>

\* bind and listen fail for reasons of their own, and on a descriptor the
\* handler has closed.
Prepare(from, to) ==
  /\ Goto(from, to) /\ listening
  /\ UNCHANGED <<next, keep_running, listening, segment, worker_pids, sigchld,
                 workers, bounds>>

PrepareFails(from) ==
  /\ Goto(from, "failed")
  /\ listening' = FALSE
  /\ UNCHANGED <<next, keep_running, segment, worker_pids, sigchld, workers, bounds>>

\* Mutant: an error path of main exits without ipc_cleanup.
AbandonSegment ==
  /\ Goto("failed", "done")
  /\ UNCHANGED <<next, keep_running, listening, segment, worker_pids, sigchld,
                 workers, bounds>>

\* ipc_cleanup and exit(EXIT_FAILURE) of the three error paths.
Abandon ==
  /\ Goto("failed", "done")
  /\ segment' = FALSE
  /\ UNCHANGED <<next, keep_running, listening, worker_pids, sigchld, workers, bounds>>
-----------------------------------------------------------------------------
(***************************************************************************)
(* main from the first fork to the end.                                    *)
(***************************************************************************)

\* The loops of main run over all workers and then go on.
Loop(at, after) ==
  /\ mpc = at
  /\ mpc' = IF next = MaxWorkers THEN after ELSE at
  /\ next' = IF next = MaxWorkers THEN 1 ELSE next + 1

\* fork succeeds, and the child inherits keep_running, server_fd and handlers.
Fork ==
  /\ Loop("fork", "test")
  /\ wpc' = [wpc EXCEPT ![next] = "starting"]
  /\ wkeep' = [wkeep EXCEPT ![next] = keep_running]
  /\ wfd' = [wfd EXCEPT ![next] = listening]
  /\ worker_pids' = worker_pids \cup {next}
  /\ UNCHANGED <<keep_running, listening, segment, sigchld, wsig, bounds>>

\* "Fork failed": the loop continues without this worker.
ForkFails ==
  /\ Loop("fork", "test")
  /\ UNCHANGED <<keep_running, listening, segment, worker_pids, sigchld, workers, bounds>>

\* while (keep_running)
Test ==
  /\ mpc = "test"
  /\ mpc' = IF keep_running THEN "enter" ELSE "kill"
  /\ UNCHANGED <<next, keep_running, listening, segment, worker_pids, sigchld,
                 workers, bounds>>

\* pause() is entered; a signal handled before does not end it.
Pause ==
  /\ Goto("enter", "pause")
  /\ UNCHANGED <<next, keep_running, listening, segment, worker_pids, sigchld,
                 workers, bounds>>

\* kill(worker_pids[i], SIGTERM), which a process that is gone does not notice.
Kill ==
  /\ Loop("kill", "wait")
  /\ wsig' = IF next \in worker_pids /\ wpc[next] \in Running
             THEN [wsig EXCEPT ![next] = @ \cup {"TERM"}] ELSE wsig
  /\ UNCHANGED <<keep_running, listening, segment, worker_pids, sigchld,
                 wpc, wkeep, wfd, bounds>>

\* Mutant: the master goes on to clean up without waiting for its workers.
WaitBlind ==
  /\ Loop("wait", "cleanup")
  /\ wpc' = wpc
  /\ UNCHANGED <<keep_running, listening, segment, worker_pids, sigchld,
                 wkeep, wfd, wsig, bounds>>

\* waitpid(worker_pids[i]) returns: the worker is a zombie and reaped now, or
\* the SIGCHLD handler has reaped it and the call fails with ECHILD.
Wait ==
  /\ Loop("wait", "cleanup")
  /\ next \in worker_pids => wpc[next] \in Gone
  /\ wpc' = IF next \in worker_pids THEN [wpc EXCEPT ![next] = "reaped"] ELSE wpc
  /\ UNCHANGED <<keep_running, listening, segment, worker_pids, sigchld,
                 wkeep, wfd, wsig, bounds>>

\* ipc_cleanup(&ipc_ctx, 1): the mutexes are destroyed, the segment removed.
Cleanup ==
  /\ Goto("cleanup", "done")
  /\ listening' = FALSE /\ segment' = FALSE
  /\ UNCHANGED <<next, keep_running, worker_pids, sigchld, workers, bounds>>

\* Mutant: an interrupted pause is resumed.
WokenNever == mpc

\* pause returns after any handler.
Woken == IF mpc = "pause" THEN "test" ELSE mpc

\* sigchld_handler: reap whoever is dead.
Reap ==
  /\ sigchld /\ mpc # "done"
  /\ sigchld' = FALSE
  /\ wpc' = [w \in Workers |-> IF wpc[w] = "zombie" THEN "reaped" ELSE wpc[w]]
  /\ mpc' = Woken
  /\ UNCHANGED <<next, keep_running, listening, segment, worker_pids,
                 wkeep, wfd, wsig, bounds>>
-----------------------------------------------------------------------------
(***************************************************************************)
(* A worker.  A pending signal is handled before the worker goes on.       *)
(***************************************************************************)
Free(w, at) == wpc[w] = at /\ wsig[w] = {}

\* signal(SIGTERM, worker_signal_handler): from here SIGTERM ends the worker.
InstallHandler(w) ==
  /\ Free(w, "starting")
  /\ wpc' = [wpc EXCEPT ![w] = "accepting"]
  /\ UNCHANGED <<master, sigchld, wkeep, wfd, wsig, bounds>>

\* A connection arrives, is served, and is closed by its client.
AcceptOne(w) ==
  /\ Free(w, "accepting") /\ wfd[w]
  /\ wpc' = [wpc EXCEPT ![w] = "serving"]
  /\ UNCHANGED <<master, sigchld, wkeep, wfd, wsig, bounds>>

FinishOne(w) ==
  /\ Free(w, "serving")
  /\ wpc' = [wpc EXCEPT ![w] = "accepting"]
  /\ UNCHANGED <<master, sigchld, wkeep, wfd, wsig, bounds>>

Exit(w) ==
  /\ wpc' = [wpc EXCEPT ![w] = "zombie"]
  /\ wsig' = [wsig EXCEPT ![w] = {}]
  /\ sigchld' = TRUE
  /\ UNCHANGED <<master, wkeep, wfd>>

\* accept fails with EBADF: "server socket closed, time to exit".
ExitOnClosedSocket(w) ==
  /\ Free(w, "accepting") /\ ~wfd[w]
  /\ Exit(w) /\ UNCHANGED bounds

\* Mutant: a worker that serves a connection goes on when it gets SIGTERM.
ExitOnTermIdle(w) ==
  /\ "TERM" \in wsig[w] /\ wpc[w] = "accepting"
  /\ Exit(w) /\ UNCHANGED bounds

\* worker_signal_handler
ExitOnTerm(w) ==
  /\ "TERM" \in wsig[w] /\ wpc[w] \in {"accepting", "serving"}
  /\ Exit(w) /\ UNCHANGED bounds

\* signal_handler, inherited from the master: for SIGINT always, for SIGTERM
\* until the worker installs its own.  It closes the socket the first time.
HandleInherited(w, sig) ==
  /\ sig \in wsig[w] /\ wpc[w] \in Running
  /\ sig = "TERM" => wpc[w] = "starting"
  /\ wsig' = [wsig EXCEPT ![w] = @ \ {sig}]
  /\ wkeep' = [wkeep EXCEPT ![w] = FALSE]
  /\ wfd' = [wfd EXCEPT ![w] = @ /\ ~wkeep[w]]
  /\ UNCHANGED <<master, sigchld, wpc, bounds>>
-----------------------------------------------------------------------------
(***************************************************************************)
(* Outside.                                                                *)
(***************************************************************************)

\* signal_handler in the master: keep_running = 0, and the socket closed.
Shutdown ==
  /\ mpc # "done"
  /\ keep_running' = FALSE
  /\ listening' = (listening /\ ~keep_running)
  /\ mpc' = Woken
  /\ UNCHANGED <<next, segment, worker_pids, sigchld, kills>>

\* kill <pid of the master>
Terminate == Shutdown /\ UNCHANGED <<workers, interrupts>>

\* Ctrl+C: every process of the group gets SIGINT.
Interrupt ==
  /\ interrupts < MaxInterrupts
  /\ interrupts' = interrupts + 1
  /\ Shutdown
  /\ wsig' = [w \in Workers |-> IF wpc[w] \in Running THEN wsig[w] \cup {"INT"} ELSE wsig[w]]
  /\ UNCHANGED <<wpc, wkeep, wfd>>

\* A worker crashes or is killed from outside.
Crash(w) ==
  /\ wpc[w] \in Running /\ kills < MaxKills
  /\ kills' = kills + 1
  /\ Exit(w) /\ UNCHANGED interrupts

MasterStep ==
  \/ InitTls \/ InitIpc \/ OpenSocket
  \/ Prepare("bind", "listen") \/ PrepareFails("bind")
  \/ Prepare("listen", "fork") \/ PrepareFails("listen")
  \/ Abandon \/ Fork \/ ForkFails \/ Test \/ Pause \/ Kill \/ Wait \/ Cleanup \/ Reap

WorkerStep(w) ==
  \/ InstallHandler(w) \/ ExitOnClosedSocket(w) \/ ExitOnTerm(w)
  \/ \E sig \in {"INT", "TERM"} : HandleInherited(w, sig)

Next ==
  \/ MasterStep \/ Terminate \/ Interrupt
  \/ \E w \in Workers : WorkerStep(w) \/ AcceptOne(w) \/ FinishOne(w) \/ Crash(w)

Spec == Init /\ [][Next]_vars

\* Master and workers are scheduled.  No client has to connect, and none that
\* is connected has to leave.
FairSpec == Spec /\ WF_vars(MasterStep) /\ \A w \in Workers : WF_vars(WorkerStep(w))

\* The operator who has sent a signal sends it again while the server pauses.
RetrySpec == FairSpec /\ WF_vars(mpc = "pause" /\ ~keep_running /\ Terminate)
-----------------------------------------------------------------------------
(***************************************************************************)
(* Properties.                                                             *)
(***************************************************************************)

\* The mutexes are destroyed and the segment removed only when no worker can
\* be in a transaction any more: every forked worker has been waited for.
SegmentOutlivesWorkers ==
  \A w \in Workers : wpc[w] \in Running => segment

\* Whatever path main takes to its end, error paths and signals during startup
\* included, it leaves no segment, no socket and no worker behind.
NothingLeftBehind ==
  mpc = "done" =>
    ~segment /\ ~listening /\ \A w \in Workers : wpc[w] \in {"unborn", "reaped"}

\* Once the master has left its loop, it ends: no worker ignores the SIGTERM of
\* the shutdown, whether it is starting, idle, serving a client or dead.
ShutdownEnds == mpc = "kill" ~> mpc = "done"

\* No signal before socket(): keep_running and server_fd change together.
NoEarlySignal == [](mpc \in {"tls", "ipc", "socket"} => keep_running)

\* The shutdown ends unless a signal came before the socket existed: a worker
\* still under its inherited handler then closes its socket and so ends.
TimelyShutdownEnds == NoEarlySignal => ShutdownEnds

\* "Received signal, initiating graceful shutdown": a signal ends the server.
\* It holds of RetrySpec; without a second signal the first may be lost between
\* the test of keep_running and pause().
SignalEndsServer == NoEarlySignal => (~keep_running ~> mpc = "done")
-----------------------------------------------------------------------------
(***************************************************************************)
(* Why the first two hold: an inductive invariant.                         *)
(***************************************************************************)

\* The segment exists from ipc_init_server to the end.
SegmentInv == segment <=> mpc \notin {"tls", "ipc", "done"}

\* There is no socket before socket() and after main has closed it.
SocketInv == mpc \in {"tls", "ipc", "socket", "failed", "done"} => ~listening

\* main knows the workers it has forked, and forks them in order.
ForkInv ==
  /\ \A w \in Workers : w \in worker_pids <=> wpc[w] # "unborn"
  /\ mpc \in Startup \cup {"failed"} => worker_pids = {}
  /\ mpc = "fork" => \A w \in worker_pids : w < next
  /\ mpc \notin {"fork", "kill", "wait"} => next = 1

\* A worker main has waited for has ended, and none is left after the last.
WaitInv ==
  \A w \in Workers :
    (mpc = "wait" /\ w < next) \/ mpc \in {"cleanup", "done"}
      => wpc[w] \in {"unborn", "reaped"}

IInv == TypeOK /\ SegmentInv /\ SocketInv /\ ForkInv /\ WaitInv
=============================================================================

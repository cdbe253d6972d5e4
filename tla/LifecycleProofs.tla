-------------------------- MODULE LifecycleProofs ---------------------------
(***************************************************************************)
(* The safety of start and shutdown for any number of workers, signals and *)
(* crashes.                                                                *)
(***************************************************************************)
EXTENDS Lifecycle, TLAPS

USE LifecycleAssumption DEF Running, Gone, Startup, master, workers, bounds

\* The invariant holds when the server starts.
LEMMA InitIInv == Init => IInv
<1> SUFFICES ASSUME Init PROVE IInv
  OBVIOUS
<1> USE DEF Init
<1>1. TypeOK
  <2>1. 1 \in Workers /\ 0 \in 0..MaxInterrupts /\ 0 \in 0..MaxKills
    BY DEF Workers
  <2> QED BY <2>1 DEF TypeOK
<1>2. SegmentInv /\ SocketInv
  BY DEF SegmentInv, SocketInv
<1>3. ForkInv /\ WaitInv
  BY DEF ForkInv, WaitInv
<1> QED BY <1>1, <1>2, <1>3 DEF IInv

\* A loop of main stays within the workers.
LEMMA LoopType ==
  ASSUME NEW at, NEW after, TypeOK, Loop(at, after)
  PROVE  next' \in Workers
  BY DEF TypeOK, Loop, Workers

\* What every action of a worker, and of what happens to it, leaves to main.
LEMMA StepTypeOK == IInv /\ [Next]_vars => TypeOK'
<1> SUFFICES ASSUME TypeOK, [Next]_vars PROVE TypeOK'
  BY DEF IInv
<1> USE DEF TypeOK
<1>1. CASE InitTls \/ InitIpc \/ OpenSocket \/ Abandon
  BY <1>1 DEF InitTls, InitIpc, OpenSocket, Abandon, Goto
<1>2. CASE \/ Prepare("bind", "listen") \/ PrepareFails("bind")
           \/ Prepare("listen", "fork") \/ PrepareFails("listen")
  BY <1>2 DEF Prepare, PrepareFails, Goto
<1>3. CASE Fork \/ ForkFails
  BY <1>3, LoopType DEF Fork, ForkFails, Loop
<1>4. CASE Test \/ Pause \/ Cleanup
  BY <1>4 DEF Test, Pause, Cleanup, Goto
<1>5. CASE Kill
  BY <1>5, LoopType DEF Kill, Loop
<1>6. CASE Wait
  BY <1>6, LoopType DEF Wait, Loop
<1>7. CASE Reap
  BY <1>7 DEF Reap, Woken
<1>8. CASE Terminate
  BY <1>8 DEF Terminate, Shutdown, Woken
<1>9. CASE Interrupt
  <2>1. wsig' \in [Workers -> SUBSET {"INT", "TERM"}]
    <3>1. \A w \in Workers : wsig[w] \cup {"INT"} \in SUBSET {"INT", "TERM"}
      OBVIOUS
    <3> QED BY <1>9, <3>1 DEF Interrupt
  <2>2. interrupts' \in 0..MaxInterrupts
    BY <1>9 DEF Interrupt
  <2> QED BY <1>9, <2>1, <2>2 DEF Interrupt, Shutdown, Woken
<1>10. ASSUME NEW w \in Workers, InstallHandler(w) \/ AcceptOne(w) \/ FinishOne(w)
       PROVE  TypeOK'
  BY <1>10 DEF InstallHandler, AcceptOne, FinishOne
<1>11. ASSUME NEW w \in Workers, ExitOnClosedSocket(w) \/ ExitOnTerm(w) \/ Crash(w)
       PROVE  TypeOK'
  <2>1. Exit(w)
    BY <1>11 DEF ExitOnClosedSocket, ExitOnTerm, Crash
  <2>2. interrupts' \in 0..MaxInterrupts /\ kills' \in 0..MaxKills
    BY <1>11 DEF ExitOnClosedSocket, ExitOnTerm, Crash
  <2> QED BY <2>1, <2>2 DEF Exit
<1>12. ASSUME NEW w \in Workers, NEW sig \in {"INT", "TERM"}, HandleInherited(w, sig)
       PROVE  TypeOK'
  BY <1>12 DEF HandleInherited
<1>13. CASE UNCHANGED vars
  BY <1>13 DEF vars
<1> QED BY <1>1, <1>2, <1>3, <1>4, <1>5, <1>6, <1>7, <1>8, <1>9, <1>10, <1>11, <1>12,
           <1>13 DEF Next, MasterStep, WorkerStep

\* What a worker does, or what ends it, changes nothing of the master, and makes
\* no worker of what is none.
LEMMA WorkerChanges ==
  ASSUME TypeOK, NEW w \in Workers,
         WorkerStep(w) \/ AcceptOne(w) \/ FinishOne(w) \/ Crash(w)
  PROVE  /\ UNCHANGED master
         /\ \A v \in Workers :
              \/ wpc'[v] = wpc[v]
              \/ wpc[v] \in Running /\ wpc'[v] \in Running \cup {"zombie"}
<1>1. CASE InstallHandler(w) \/ AcceptOne(w) \/ FinishOne(w)
  BY <1>1 DEF TypeOK, InstallHandler, AcceptOne, FinishOne, Free
<1>2. CASE ExitOnClosedSocket(w) \/ ExitOnTerm(w) \/ Crash(w)
  BY <1>2 DEF TypeOK, ExitOnClosedSocket, ExitOnTerm, Crash, Exit, Free
<1>3. CASE \E sig \in {"INT", "TERM"} : HandleInherited(w, sig)
  BY <1>3 DEF HandleInherited
<1> QED BY <1>1, <1>2, <1>3 DEF WorkerStep

\* A signal to the master at most wakes it and closes its socket; the SIGCHLD
\* handler at most wakes it and reaps.
LEMMA SignalChanges ==
  ASSUME TypeOK, Terminate \/ Interrupt \/ Reap
  PROVE  /\ mpc # "done"
         /\ mpc' = Woken /\ UNCHANGED <<next, segment, worker_pids>>
         /\ listening' => listening
         /\ \A v \in Workers :
              wpc'[v] = wpc[v] \/ (wpc[v] = "zombie" /\ wpc'[v] = "reaped")
<1>1. CASE Terminate \/ Interrupt
  BY <1>1 DEF Terminate, Interrupt, Shutdown
<1>2. CASE Reap
  BY <1>2 DEF Reap, TypeOK
<1> QED BY <1>1, <1>2

\* Only ipc_init_server makes the segment, and only the two ends of main remove it.
LEMMA StepSegmentInv == IInv /\ [Next]_vars => SegmentInv'
<1> SUFFICES ASSUME TypeOK, SegmentInv, [Next]_vars PROVE SegmentInv'
  BY DEF IInv
<1> USE DEF SegmentInv
<1>1. CASE InitTls \/ InitIpc \/ OpenSocket \/ Abandon \/ Cleanup
  BY <1>1 DEF InitTls, InitIpc, OpenSocket, Abandon, Cleanup, Goto
<1>2. CASE \/ Prepare("bind", "listen") \/ PrepareFails("bind")
           \/ Prepare("listen", "fork") \/ PrepareFails("listen")
  BY <1>2 DEF Prepare, PrepareFails, Goto
<1>3. CASE Fork \/ ForkFails \/ Kill \/ Wait
  BY <1>3 DEF Fork, ForkFails, Kill, Wait, Loop
<1>4. CASE Test \/ Pause
  BY <1>4 DEF Test, Pause, Goto
<1>5. CASE Terminate \/ Interrupt \/ Reap
  BY <1>5, SignalChanges DEF Woken
<1>6. ASSUME NEW w \in Workers,
             WorkerStep(w) \/ AcceptOne(w) \/ FinishOne(w) \/ Crash(w)
      PROVE  SegmentInv'
  BY <1>6, WorkerChanges
<1>7. CASE UNCHANGED vars
  BY <1>7 DEF vars
<1> QED BY <1>1, <1>2, <1>3, <1>4, <1>5, <1>6, <1>7 DEF Next, MasterStep

\* Only OpenSocket makes the socket, and every way to the end closes it.
LEMMA StepSocketInv == IInv /\ [Next]_vars => SocketInv'
<1> SUFFICES ASSUME TypeOK, SocketInv, [Next]_vars PROVE SocketInv'
  BY DEF IInv
<1> USE DEF SocketInv
<1>1. CASE InitTls \/ InitIpc \/ OpenSocket \/ Abandon \/ Cleanup
  BY <1>1 DEF InitTls, InitIpc, OpenSocket, Abandon, Cleanup, Goto
<1>2. CASE \/ Prepare("bind", "listen") \/ PrepareFails("bind")
           \/ Prepare("listen", "fork") \/ PrepareFails("listen")
  BY <1>2 DEF Prepare, PrepareFails, Goto
<1>3. CASE Fork \/ ForkFails \/ Kill \/ Wait
  BY <1>3 DEF Fork, ForkFails, Kill, Wait, Loop
<1>4. CASE Test \/ Pause
  BY <1>4 DEF Test, Pause, Goto
<1>5. CASE Terminate \/ Interrupt \/ Reap
  BY <1>5, SignalChanges DEF Woken
<1>6. ASSUME NEW w \in Workers,
             WorkerStep(w) \/ AcceptOne(w) \/ FinishOne(w) \/ Crash(w)
      PROVE  SocketInv'
  BY <1>6, WorkerChanges
<1>7. CASE UNCHANGED vars
  BY <1>7 DEF vars
<1> QED BY <1>1, <1>2, <1>3, <1>4, <1>5, <1>6, <1>7 DEF Next, MasterStep

\* main records every worker it forks, in the order of its loop.
LEMMA StepForkInv == IInv /\ [Next]_vars => ForkInv'
<1> SUFFICES ASSUME TypeOK, ForkInv, [Next]_vars PROVE ForkInv'
  BY DEF IInv
<1> USE DEF ForkInv, TypeOK
<1>1. CASE InitTls \/ InitIpc \/ OpenSocket \/ Abandon \/ Cleanup
  BY <1>1 DEF InitTls, InitIpc, OpenSocket, Abandon, Cleanup, Goto
<1>2. CASE \/ Prepare("bind", "listen") \/ PrepareFails("bind")
           \/ Prepare("listen", "fork") \/ PrepareFails("listen")
  BY <1>2 DEF Prepare, PrepareFails, Goto
<1>3. CASE Fork
  BY <1>3 DEF Fork, Loop, Workers
<1>4. CASE ForkFails
  BY <1>4 DEF ForkFails, Loop, Workers
<1>5. CASE Kill
  BY <1>5 DEF Kill, Loop
<1>6. CASE Wait
  BY <1>6 DEF Wait, Loop
<1>7. CASE Test \/ Pause
  BY <1>7 DEF Test, Pause, Goto
<1>8. CASE Terminate \/ Interrupt \/ Reap
  BY <1>8, SignalChanges DEF Woken
<1>9. ASSUME NEW w \in Workers,
             WorkerStep(w) \/ AcceptOne(w) \/ FinishOne(w) \/ Crash(w)
      PROVE  ForkInv'
  BY <1>9, WorkerChanges
<1>10. CASE UNCHANGED vars
  BY <1>10 DEF vars
<1> QED BY <1>1, <1>2, <1>3, <1>4, <1>5, <1>6, <1>7, <1>8, <1>9, <1>10
        DEF Next, MasterStep

\* waitpid returns for every worker that was forked before main cleans up.
LEMMA StepWaitInv == IInv /\ [Next]_vars => WaitInv'
<1> SUFFICES ASSUME TypeOK, ForkInv, WaitInv, [Next]_vars PROVE WaitInv'
  BY DEF IInv
<1> USE DEF WaitInv, TypeOK
<1>1. CASE InitTls \/ InitIpc \/ OpenSocket \/ Abandon \/ Cleanup
  BY <1>1 DEF InitTls, InitIpc, OpenSocket, Abandon, Cleanup, Goto, ForkInv
<1>2. CASE \/ Prepare("bind", "listen") \/ PrepareFails("bind")
           \/ Prepare("listen", "fork") \/ PrepareFails("listen")
  BY <1>2 DEF Prepare, PrepareFails, Goto
<1>3. CASE Fork \/ ForkFails
  BY <1>3 DEF Fork, ForkFails, Loop
<1>4. CASE Kill
  BY <1>4 DEF Kill, Loop, Workers
<1>5. CASE Wait
  BY <1>5 DEF Wait, Loop, Workers, ForkInv
<1>6. CASE Test \/ Pause
  BY <1>6 DEF Test, Pause, Goto
<1>7. CASE Terminate \/ Interrupt \/ Reap
  BY <1>7, SignalChanges DEF Woken
<1>8. ASSUME NEW w \in Workers,
             WorkerStep(w) \/ AcceptOne(w) \/ FinishOne(w) \/ Crash(w)
      PROVE  WaitInv'
  BY <1>8, WorkerChanges
<1>9. CASE UNCHANGED vars
  BY <1>9 DEF vars
<1> QED BY <1>1, <1>2, <1>3, <1>4, <1>5, <1>6, <1>7, <1>8, <1>9 DEF Next, MasterStep
-----------------------------------------------------------------------------
\* The inductive invariant holds throughout: how far main has come tells what
\* exists, which workers were forked and which have been waited for.
THEOREM InvariantHolds == Spec => []IInv
<1>1. IInv /\ [Next]_vars => IInv'
  BY StepTypeOK, StepSegmentInv, StepSocketInv, StepForkInv, StepWaitInv DEF IInv
<1> QED BY InitIInv, <1>1, PTL DEF Spec

\* The segment outlives the workers, whatever signals and crashes there are.
THEOREM SegmentIsThere == Spec => []SegmentOutlivesWorkers
<1>1. IInv => SegmentOutlivesWorkers
  BY DEF IInv, TypeOK, SegmentInv, ForkInv, WaitInv, SegmentOutlivesWorkers
<1> QED BY InvariantHolds, <1>1, PTL

\* main leaves no segment, no socket and no worker behind, whatever fails.
THEOREM NothingIsLeft == Spec => []NothingLeftBehind
<1>1. IInv => NothingLeftBehind
  BY DEF IInv, SegmentInv, SocketInv, WaitInv, NothingLeftBehind
<1> QED BY InvariantHolds, <1>1, PTL

\* The state of main, of its workers and of their signals keeps its types: the
\* loops of main never run beyond worker_pids.
THEOREM TypesHold == Spec => []TypeOK
<1>1. IInv => TypeOK
  BY DEF IInv
<1> QED BY InvariantHolds, <1>1, PTL
=============================================================================

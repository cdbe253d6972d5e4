---------------------------- MODULE LegacyStress ----------------------------
(***************************************************************************)
(* The older client, client/src: the threads of stress_test.c, which use   *)
(* client_core.c, against the workers of BankingServer.  Its packets are   *)
(* as long as their payload and not a whole BankingPacket, so a worker     *)
(* closes the connection on the first of them (WrongSize).                 *)
(*                                                                         *)
(* The threads meet at a barrier before they start to count.  A thread     *)
(* whose handshake waits for a worker waits for one of the others.         *)
(***************************************************************************)
EXTENDS BankingServer, Protocol

CONSTANTS
  Rounds,      \* args->requests
  OtpSize,     \* sizeof(OtpRequest)
  TransSize    \* sizeof(trans_req)

\* header.length in client_send: what SSL_write sends as one record.
RecordSize(payload_len) == HeaderSize + payload_len

ASSUME LegacyAssumption ==
  /\ Rounds \in Nat /\ \A c \in Clients : Rounds < Sends[c]
  /\ "partial" \in OtherKinds
  /\ \A size \in {OtpSize, TransSize} : RecordSize(size) # PacketSize

VARIABLES
  at,           \* at[c]: where thread c stands in worker_routine
  fail_count,   \* all_stats[c].fail_count
  test          \* the process: "running", "exited" or "killed" early, "reported"

legacy == <<at, fail_count, test>>
legacyVars == <<vars, legacy>>

LegacyInit ==
  /\ Init
  /\ at = [c \in Clients |-> "start"]
  /\ fail_count = [c \in Clients |-> 0]
  /\ test = "running"

Move(c, from, to) == test = "running" /\ at[c] = from /\ at' = [at EXCEPT ![c] = to]

\* client_send: one record, which is not one packet.
SendRecord(c) == Send(c, [kind |-> "partial", r |-> NoRequest, n |-> sent[c] + 1])
-----------------------------------------------------------------------------
(***************************************************************************)
(* client_connect                                                          *)
(***************************************************************************)
StartConnect(c) ==
  Move(c, "start", "handshake") /\ Connect(c) /\ UNCHANGED <<fail_count, test>>

\* Mutant: a thread that is not connected returns at once, as the comment at
\* line 58 has it.
NotConnectedLeaves(c) ==
  /\ cpc[c] \in {"off", "gone"}
  /\ Move(c, "start", "over") \/ Move(c, "handshake", "over")
  /\ fail_count' = [fail_count EXCEPT ![c] = Rounds]
  /\ UNCHANGED <<vars, test>>

\* Mutant: a thread that is not connected counts one failure.
NotConnectedOnce(c) ==
  /\ cpc[c] \in {"off", "gone"}
  /\ Move(c, "start", "barrier") \/ Move(c, "handshake", "barrier")
  /\ fail_count' = [fail_count EXCEPT ![c] = 1]
  /\ UNCHANGED <<vars, test>>

\* socket, connect or the handshake fails: all requests count as failed, and
\* the thread goes to the barrier "to avoid blocking the other threads".
NotConnected(c) ==
  /\ \/ cpc[c] = "off" /\ Move(c, "start", "barrier")
     \/ cpc[c] = "gone" /\ Move(c, "handshake", "barrier")
  /\ EndProcess({c})
  /\ fail_count' = [fail_count EXCEPT ![c] = Rounds]
  /\ UNCHANGED test
-----------------------------------------------------------------------------
(***************************************************************************)
(* worker_routine once it is connected.                                    *)
(***************************************************************************)

\* client_send(OP_REQ_OTP).
RequestOtp(c) ==
  Move(c, "handshake", "otp") /\ SendRecord(c) /\ UNCHANGED <<fail_count, test>>

\* SSL_write fails, or SSL_read in client_receive does: there is no login, and no count.
NoOtp(c) ==
  /\ Move(c, "handshake", "barrier") \/ Move(c, "otp", "barrier")
  /\ RequestFails(c) /\ UNCHANGED <<fail_count, test>>

\* Mutant: the barrier is for one thread fewer.
OpenBarrierEarly ==
  /\ test = "running" /\ \E c \in Clients : at[c] = "barrier"
  /\ \E d \in Clients : \A c \in Clients \ {d} : at[c] \in {"barrier", "loop", "over"}
  /\ at' = [c \in Clients |-> IF at[c] # "barrier" THEN at[c]
                              ELSE IF cpc[c] = "gone" THEN "over" ELSE "loop"]
  /\ UNCHANGED <<vars, fail_count, test>>

\* pthread_barrier_wait returns in all threads; the unconnected ones return.
OpenBarrier ==
  /\ test = "running" /\ \A c \in Clients : at[c] = "barrier"
  /\ at' = [c \in Clients |-> IF cpc[c] = "gone" THEN "over" ELSE "loop"]
  /\ UNCHANGED <<vars, fail_count, test>>

\* for (int i = 0; i < args->requests; i++)
InLoop(c) == test = "running" /\ at[c] = "loop" /\ fail_count[c] < Rounds

\* client_send of a transaction; what is sent to a closed connection is lost.
SendTransaction(c) ==
  InLoop(c) /\ SendRecord(c) /\ UNCHANGED legacy

\* Mutant: the failure of client_send is counted once more by client_receive's.
TransactionFailsTwice(c) ==
  /\ InLoop(c) /\ RequestFails(c)
  /\ fail_count' = [fail_count EXCEPT ![c] = @ + IF cpc[c] = "ready" THEN 2 ELSE 1]
  /\ UNCHANGED <<at, test>>

\* client_send or client_receive fails.
TransactionFails(c) ==
  /\ InLoop(c) /\ RequestFails(c)
  /\ fail_count' = [fail_count EXCEPT ![c] = @ + 1]
  /\ UNCHANGED <<at, test>>

\* client_close, return
Close(c) ==
  /\ fail_count[c] = Rounds /\ Move(c, "loop", "over") /\ cpc[c] = "ready"
  /\ Leave(c) /\ UNCHANGED <<fail_count, test>>
-----------------------------------------------------------------------------
(***************************************************************************)
(* The process.                                                            *)
(***************************************************************************)

\* All its threads end, and the kernel closes their connections.
EndTest(how) ==
  /\ test = "running" /\ test' = how
  /\ EndProcess(Clients) /\ UNCHANGED <<at, fail_count>>

\* client_init gets no TLS context: exit(EXIT_FAILURE), in whatever thread.
InitFails == (\E c \in Clients : at[c] = "start") /\ EndTest("exited")

\* SIGPIPE, which nothing ignores, at a write, SSL_shutdown's too, after one the
\* peer has not read.
SigPipe ==
  /\ \E c \in Clients : at[c] = "loop" /\ Lost(c) /\ cpc[c] = "ready" /\ sent[c] > 0
  /\ EndTest("killed")

\* run_stress_test has joined every thread.
Report ==
  /\ test = "running" /\ \A c \in Clients : at[c] = "over"
  /\ test' = "reported"
  /\ UNCHANGED <<vars, at, fail_count>>

RoutineStep(c) ==
  \/ StartConnect(c) \/ NotConnected(c) \/ RequestOtp(c) \/ NoOtp(c)
  \/ SendTransaction(c) \/ TransactionFails(c) \/ Close(c)

LegacyNext ==
  \/ \E c \in Clients : RoutineStep(c)
  \/ OpenBarrier \/ InitFails \/ SigPipe \/ Report
  \/ UNCHANGED legacy /\ \E w \in Workers : WorkerStep(w) \/ Die(w)

LegacySpec == LegacyInit /\ [][LegacyNext]_legacyVars

\* Threads and live workers are scheduled.
FairLegacy ==
  /\ LegacySpec
  /\ WF_legacyVars(OpenBarrier) /\ WF_legacyVars(Report)
  /\ \A c \in Clients : WF_legacyVars(RoutineStep(c))
  /\ \A w \in Workers : WF_legacyVars(WorkerStep(w) /\ UNCHANGED legacy)
-----------------------------------------------------------------------------
(***************************************************************************)
(* Properties.                                                             *)
(***************************************************************************)

\* No thread sends a transaction before every other has its connection or has
\* given it up.
StartTogether ==
  \A c, d \in Clients :
    at[c] = "loop" => at[d] \notin {"start", "handshake", "otp"}

\* The report accounts for every request of every thread, those that were never
\* sent because the thread has no connection included.
ReportComplete == test = "reported" => \A c \in Clients : fail_count[c] = Rounds

\* The test ends though the threads wait for one another at the barrier while
\* each of them may hold a worker that another waits for: with more threads than
\* workers, workers that die and handshakes that fail, all reach the barrier.
TestEnds == <>(test # "running")
-----------------------------------------------------------------------------
(***************************************************************************)
(* Why the first two hold: an inductive invariant.                         *)
(***************************************************************************)

\* What the connection of a thread is like at each point of worker_routine.
Standing(c) ==
  /\ at[c] = "start" => cpc[c] = "off"
  /\ at[c] = "handshake" => cpc[c] \in {"waiting", "ready", "gone"}
  /\ at[c] = "otp" => cpc[c] = "pending"
  /\ at[c] = "barrier" => cpc[c] = "ready" \/ (cpc[c] = "gone" /\ fail_count[c] = Rounds)
  /\ at[c] = "loop" => cpc[c] \in {"ready", "pending"}

LegacyInv ==
  /\ at \in [Clients -> {"start", "handshake", "otp", "barrier", "loop", "over"}]
  /\ fail_count \in [Clients -> 0..Rounds]
  /\ cpc \in [Clients -> {"off", "waiting", "ready", "pending", "gone"}]
  /\ backlog \in Seq(Clients)
  /\ \A j, k \in 1..Len(backlog) : backlog[j] = backlog[k] => j = k
  /\ \A k \in 1..Len(backlog) : cpc[backlog[k]] \in {"waiting", "gone"}
  /\ test = "running" => \A c \in Clients : Standing(c)
  /\ \/ \A c \in Clients : at[c] \in {"start", "handshake", "otp", "barrier"}
     \/ \A c \in Clients : at[c] \in {"loop", "over"}
  /\ \A c \in Clients : at[c] = "over" => fail_count[c] = Rounds
  /\ test = "reported" => \A c \in Clients : at[c] = "over"
=============================================================================

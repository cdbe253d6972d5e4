---------------------------- MODULE StressClient ----------------------------
(***************************************************************************)
(* The threads of stress_test/stress_client.c against the server: clients  *)
(* of BankingServer that follow a program, worker_thread.  Each connects   *)
(* and runs its flows: create the account, request a one-time password,    *)
(* log in with it, deposit.  A flow that cannot go on is left and counted  *)
(* as the others are.                                                      *)
(*                                                                         *)
(* The process does not ignore SIGPIPE: a thread that writes on a          *)
(* connection the other side has closed may end all of them.               *)
(***************************************************************************)
EXTENDS BankingServer, FiniteSets

CONSTANTS
  AccountOf,       \* AccountOf[c]: the account_id of thread c
  InitialBalance,  \* what every thread opens its account with
  Deposit,         \* what every flow pays in
  Flows            \* Flows[c]: num_requests of c, the flows it runs

ASSUME StressAssumption ==
  /\ IsFiniteSet(Clients)
  /\ AccountOf \in [Clients -> Ids]
  /\ \A c, d \in Clients : c # d => AccountOf[c] # AccountOf[d]
  /\ InitialBalance \in Openings \cap Nat /\ Deposit \in Amounts \cap (Nat \ {0})
  /\ Flows \in [Clients -> Nat] /\ \A c \in Clients : 4 * Flows[c] <= Sends[c]

VARIABLES
  step,       \* step[c]: the request of its flow that thread c is at
  flows,      \* flows[c]: its success_count, the flows it has ended
  otp_code,   \* otp_code[c]: the code it has parsed last
  run,        \* the process: "running", "killed", or "reported" at its end
  confirmed,  \* history: the deposits of c answered with success
  since,      \* history: the crashes of the OTP service when c asked for a code
  failed      \* history: the OTP service has crashed, a worker has died, or a
              \*   call to the service did not get through

program == <<step, flows, otp_code, run, confirmed, since>>
thread == <<program, failed>>
stressVars == <<vars, thread>>

Steps == {"create", "otp", "login", "deposit"}

StressTypeOK ==
  /\ TypeOK
  /\ step \in [Clients -> Steps]
  /\ flows \in [Clients -> Nat] /\ confirmed \in [Clients -> Nat]
  /\ \A c \in Clients : confirmed[c] <= flows[c] /\ flows[c] <= Flows[c]
  /\ otp_code \in [Clients -> Otps \cup {NoCode}]
  /\ run \in {"running", "reported", "killed"}
  /\ since \in [Clients -> 0..MaxCrashes]
  /\ failed \in BOOLEAN

StressInit ==
  /\ Init
  /\ step = [c \in Clients |-> "create"]
  /\ flows = [c \in Clients |-> 0]
  /\ otp_code = [c \in Clients |-> NoCode]
  /\ run = "running"
  /\ confirmed = [c \in Clients |-> 0]
  /\ since = [c \in Clients |-> 0]
  /\ failed = FALSE
-----------------------------------------------------------------------------
(***************************************************************************)
(* worker_thread                                                           *)
(***************************************************************************)
Begin(c) == run = "running" /\ Connect(c) /\ UNCHANGED thread

\* No TLS context, or connect fails: the thread returns.
NeverConnects(c) ==
  /\ run = "running" /\ cpc[c] = "off"
  /\ EndProcess({c}) /\ UNCHANGED thread

\* The packet of the step c is at, for account a.
PacketFor(a, c) ==
  LET db(op, amount) == [kind |-> "db", n |-> sent[c] + 1,
                         r |-> [op |-> op, id |-> a, amount |-> amount]]
      otps(op, code) == [kind |-> "otp", n |-> sent[c] + 1,
                         r |-> [op |-> op, account |-> a, otp |-> code]]
  IN  CASE step[c] = "create"  -> db("create", InitialBalance)
        [] step[c] = "otp"     -> otps("generate", NoCode)
        [] step[c] = "login"   -> otps("verify", otp_code[c])
        [] step[c] = "deposit" -> db("deposit", Deposit)

\* Mutant: account_id is a static buffer, which the threads share.
PacketOfStatic(c) == PacketFor(AccountOf[CHOOSE d \in Clients : TRUE], c)

\* account_id names process and thread.
PacketOf(c) == PacketFor(AccountOf[c], c)

\* perform_request writes.
SendNext(c) ==
  /\ flows[c] < Flows[c] /\ open[c]
  /\ Send(c, PacketOf(c))
  /\ since' = IF step[c] = "otp" THEN [since EXCEPT ![c] = crashes] ELSE since
  /\ UNCHANGED <<step, flows, otp_code, run, confirmed, failed>>

\* The flow goes on with the step next, or is over and counted.
GoOn(c, next) ==
  /\ step' = [step EXCEPT ![c] = next]
  /\ UNCHANGED flows
EndFlow(c) ==
  /\ step' = [step EXCEPT ![c] = "create"]
  /\ flows' = [flows EXCEPT ![c] = @ + 1]

\* Mutant: a thread logs in with the code of its previous flow.
FollowStale(c, m) ==
  CASE step[c] = "create" -> GoOn(c, "otp") /\ UNCHANGED otp_code
    [] step[c] = "otp" /\ m.status = Success ->
         GoOn(c, "login") /\ otp_code' = [otp_code EXCEPT ![c] = IF @ = NoCode THEN m.otp ELSE @]
    [] step[c] = "login" /\ m.status = Success -> GoOn(c, "deposit") /\ UNCHANGED otp_code
    [] OTHER -> EndFlow(c) /\ UNCHANGED otp_code

\* Mutant: a flow goes on only if its account is a new one.
FollowIfCreated(c, m) ==
  CASE step[c] = "create" /\ m.status = Success -> GoOn(c, "otp") /\ UNCHANGED otp_code
    [] step[c] = "otp" /\ m.status = Success ->
         GoOn(c, "login") /\ otp_code' = [otp_code EXCEPT ![c] = m.otp]
    [] step[c] = "login" /\ m.status = Success -> GoOn(c, "deposit") /\ UNCHANGED otp_code
    [] OTHER -> EndFlow(c) /\ UNCHANGED otp_code

\* What response m makes of the flow.  The status of a creation is not looked
\* at, as the account exists from the second flow on; nor is a deposit's.
Follow(c, m) ==
  CASE step[c] = "create" -> GoOn(c, "otp") /\ UNCHANGED otp_code
    [] step[c] = "otp" /\ m.status = Success ->
         GoOn(c, "login") /\ otp_code' = [otp_code EXCEPT ![c] = m.otp]
    [] step[c] = "login" /\ m.status = Success -> GoOn(c, "deposit") /\ UNCHANGED otp_code
    [] OTHER -> EndFlow(c) /\ UNCHANGED otp_code

ReceiveNext(c) ==
  /\ Receive(c)
  /\ Follow(c, Head(toClient[c]))
  /\ confirmed' = IF step[c] = "deposit" /\ Head(toClient[c]).status = Success
                  THEN [confirmed EXCEPT ![c] = @ + 1] ELSE confirmed
  /\ UNCHANGED <<run, since, failed>>

\* Mutant: the thread waits on a connection that is closed.
FlowHangs(c) ==
  /\ Lost(c) /\ cpc[c] = "ready" /\ flows[c] < Flows[c]
  /\ EndFlow(c)
  /\ UNCHANGED <<vars, otp_code, run, confirmed, since, failed>>

\* Mutant: a thread whose connection is lost goes on with flows without end.
FlowFailsEndless(c) ==
  /\ RequestFails(c) /\ EndFlow(c)
  /\ UNCHANGED <<otp_code, run, confirmed, since, failed>>

\* perform_request fails in tls_write or in tls_read; the thread goes on with
\* its next flow, on the same connection.
FlowFails(c) ==
  /\ flows[c] < Flows[c] /\ RequestFails(c) /\ EndFlow(c)
  /\ UNCHANGED <<otp_code, run, confirmed, since, failed>>

\* tls_close, close, return
Finish(c) ==
  /\ cpc[c] = "ready" /\ flows[c] = Flows[c]
  /\ Leave(c)
  /\ UNCHANGED thread
-----------------------------------------------------------------------------
(***************************************************************************)
(* The process.                                                            *)
(***************************************************************************)

\* A write on a connection that has been reset raises SIGPIPE, be it of a request
\* or of SSL_shutdown in tls_close.
SigPipe ==
  /\ run = "running"
  /\ \E c \in Clients : Lost(c) /\ cpc[c] = "ready"
  /\ run' = "killed"
  /\ EndProcess(Clients)
  /\ UNCHANGED <<step, flows, otp_code, confirmed, since, failed>>

\* main has joined every thread.
Report ==
  /\ run = "running" /\ \A c \in Clients : cpc[c] = "gone"
  /\ run' = "reported"
  /\ UNCHANGED <<vars, step, flows, otp_code, confirmed, since, failed>>

\* A step of the server or of the OTP service, of which a failure is noted.
Noted ==
  /\ failed' = (failed \/ crashes' # crashes \/ alive' # alive
                       \/ \E w \in Workers : OTP!GiveUp(w))
  /\ UNCHANGED program

ThreadStep(c) ==
  \/ Begin(c) \/ NeverConnects(c) \/ SendNext(c) \/ ReceiveNext(c)
  \/ FlowFails(c) \/ Finish(c)

StressNext ==
  \/ \E c \in Clients : ThreadStep(c)
  \/ SigPipe \/ Report
  \/ /\ OtpFails \/ \E w \in Workers : WorkerStep(w) \/ Die(w)
     /\ Noted

StressSpec == StressInit /\ [][StressNext]_stressVars

\* The client's process is scheduled, and so are the live workers.  Which of the
\* threads or of the workers moves is left open: each has only so much to do.
FairStress ==
  /\ StressSpec
  /\ WF_stressVars(Report \/ \E c \in Clients : ThreadStep(c))
  /\ WF_stressVars((\E w \in Workers : WorkerStep(w)) /\ Noted)
-----------------------------------------------------------------------------
(***************************************************************************)
(* Properties.                                                             *)
(***************************************************************************)

\* A login that gets through to the OTP service is refused there only when the
\* service has crashed since the thread asked for its code: no other thread's
\* codes, and no code left over from an earlier flow, come before it.
LoginAccepted ==
  \A c \in Clients, w \in Workers :
    /\ step[c] = "login" /\ alive[w] /\ Working(w, c)
    /\ ophase[w] = "done" /\ oans[w].status # 1
    => crashes > since[c]

\* The balance in shared memory is the opening balance and every deposit the
\* thread has seen confirmed, and at most the one more it is waiting for or lost
\* its connection in.
BalanceAsConfirmed ==
  \A c \in Clients :
    LET expected == InitialBalance + Deposit * confirmed[c]
        b == bal[AccountOf[c]]
    IN  \/ b = expected
        \/ b = expected + Deposit /\ (cpc[c] = "ready" => ~open[c])
        \/ b = NoAccount /\ confirmed[c] = 0 /\ (open[c] => flows[c] = 0 /\ step[c] = "create")

\* success_count, which counts every flow that has ended, is the number of
\* deposits made as long as nothing has failed: repeated creations, the other
\* threads and older codes make no flow of a healthy system end early.
FlowsAreDeposits ==
  ~failed =>
    \A c \in Clients : cpc[c] = "ready" /\ step[c] = "create" => confirmed[c] = flows[c]

\* More threads than workers, a worker that dies, refused handshakes, a service
\* that stays away: the run ends, with its report or by SIGPIPE.
RunEnds == <>(run # "running")
-----------------------------------------------------------------------------
(***************************************************************************)
(* Why the invariants hold: an inductive invariant, with IInv.             *)
(***************************************************************************)

\* A fresh server has room for what the threads create and ask for: no more
\* threads than MAX_ACCOUNTS and MAX_OTPS, as with DEFAULT_THREADS.
Room == Cardinality(Clients) <= MaxAccounts /\ Cardinality(Clients) <= MaxOtps

\* The outcome of the call of w, once it is known.
InHand(w) ==
  IF phase[w] = "done" THEN {[status |-> ans[w].code, otp |-> NoCode]}
  ELSE IF ophase[w] = "done"
  THEN {[status |-> IF oans[w].status = 1 THEN Success ELSE Error, otp |-> oans[w].otp]}
  ELSE {}

\* The outcome of the request of c, on the wire or with a live worker.
OnItsWay(c) ==
  {[status |-> m.status, otp |-> m.otp] :
     m \in IF toClient[c] = <<>> THEN {} ELSE {Head(toClient[c])}}
  \cup UNION {InHand(w) : w \in {v \in Workers : alive[v] /\ Working(v, c)}}

\* The request of the step c is at has yet to be made, or to be performed.
ToDo(c) ==
  \/ cpc[c] \in {"off", "waiting"} \/ (cpc[c] = "ready" /\ open[c])
  \/ toServer[c] # <<>>
  \/ \E w \in Workers : alive[w] /\ Working(w, c) /\ InHand(w) = {}

Mine(c, p) == p.kind = PacketOf(c).kind /\ p.r = PacketOf(c).r

\* A thread is at the step of the packet the server has of it, and no packet of
\* any other thread, or of a worker that has died, is about its account.
ThreadInv ==
  /\ \A c \in Clients :
       /\ cpc[c] \in {"off", "waiting"} => step[c] = "create" /\ flows[c] = 0
       /\ cpc[c] = "pending" \/ step[c] # "create" => flows[c] < Flows[c]
       /\ since[c] <= crashes
       /\ step[c] = "login" => otp_code[c] \in Otps
       /\ step[c] = "otp" =>
            \A x \in OnItsWay(c) : x.status = Success => x.otp \in Otps
       /\ toServer[c] # <<>> => Mine(c, Head(toServer[c]))
  /\ \A w \in Workers : handling[w] # NoPacket =>
       /\ alive[w] => Mine(serving[w], handling[w])
       /\ handling[w].kind = "otp" => handling[w].r.account = AccountOf[serving[w]]

\* The account of c has the deposits c knows of, and one more from the moment
\* the server makes it until c learns of it.
Books(c) ==
  LET b == bal[AccountOf[c]]
      expected == InitialBalance + Deposit * confirmed[c]
  IN  /\ b \in {expected, expected + Deposit} \/ (b = NoAccount /\ confirmed[c] = 0)
      /\ ToDo(c) => b # expected + Deposit
      /\ \A x \in OnItsWay(c) :
           b = expected + Deposit <=> step[c] = "deposit" /\ x.status = Success
      /\ Room /\ \/ open[c] /\ (step[c] # "create" \/ flows[c] > 0)
                 \/ OnItsWay(c) # {}
           => b # NoAccount

\* No account is opened but for a thread.
RoomInv == opened <= Cardinality({c \in Clients : bal[AccountOf[c]] # NoAccount})

\* code is what a login of c has to name, unless the service has crashed.
TopCode(c, code) ==
  \/ crashes > since[c]
  \/ /\ up /\ codes[AccountOf[c]] # <<>>
     /\ Head(codes[AccountOf[c]]) = code

CodeKept(c) ==
  /\ ToDo(c) /\ step[c] = "login" => TopCode(c, otp_code[c])
  /\ step[c] = "otp" =>
       \A x \in OnItsWay(c) : x.status = Success => TopCode(c, x.otp)

Healthy == Room /\ ~failed

\* As long as nothing has failed, every flow is a deposit, and the OTP service
\* holds a code for the threads between request and login, and for no other.
Flowing(c) ==
  /\ cpc[c] \in {"ready", "pending"} => open[c]
  /\ cpc[c] = "gone" => step[c] = "create"
  /\ confirmed[c] = flows[c]
  /\ \A x \in OnItsWay(c) : step[c] # "create" => x.status = Success
  /\ Len(codes[AccountOf[c]]) =
       IF \/ step[c] = "otp" /\ OnItsWay(c) # {}
          \/ step[c] = "login" /\ OnItsWay(c) = {} THEN 1 ELSE 0

HealthInv ==
  Healthy =>
    /\ crashes = 0 /\ up /\ \A w \in Workers : alive[w]
    /\ \A c \in Clients : Flowing(c)
    /\ \A i \in Ids : codes[i] # <<>> => \E c \in Clients : i = AccountOf[c]

StressInv ==
  /\ StressTypeOK /\ IInv /\ ThreadInv /\ RoomInv /\ HealthInv /\ LoginAccepted
  /\ \A c \in Clients : Books(c) /\ CodeKept(c)
=============================================================================

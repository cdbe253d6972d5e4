------------------------- MODULE LegacyStressProofs -------------------------
(***************************************************************************)
(* The barrier and the report of the older stress test, for any number of  *)
(* threads, workers and requests.                                          *)
(***************************************************************************)
EXTENDS LegacyStress, SequenceTheorems, TLAPS

USE ServerAssumption, LegacyAssumption

\* The connection that accept takes is in the backlog no more.
LEMMA HeadOfLine ==
  ASSUME LegacyInv, backlog # <<>>
  PROVE  /\ Head(backlog) \in Clients /\ Tail(backlog) \in Seq(Clients)
         /\ cpc[Head(backlog)] \in {"waiting", "gone"}
         /\ \A k \in 1..Len(Tail(backlog)) :
              /\ Tail(backlog)[k] \in Clients /\ Tail(backlog)[k] # Head(backlog)
              /\ cpc[Tail(backlog)[k]] \in {"waiting", "gone"}
         /\ \A j, k \in 1..Len(Tail(backlog)) :
              Tail(backlog)[j] = Tail(backlog)[k] => j = k
<1>1. backlog \in Seq(Clients)
  BY DEF LegacyInv
<1> DEFINE n == Len(backlog)
<1>2. n \in Nat /\ n # 0
  BY <1>1, EmptySeq
<1>3. /\ Head(backlog) \in Clients /\ Tail(backlog) \in Seq(Clients)
      /\ Len(Tail(backlog)) = n - 1
      /\ \A k \in 1..Len(Tail(backlog)) : Tail(backlog)[k] = backlog[k + 1]
  BY <1>1, HeadTailProperties
<1>4. Head(backlog) = backlog[1]
  BY <1>1
<1> HIDE DEF n
<1>5. 1 \in 1..n /\ \A k \in 1..(n - 1) : k + 1 \in 1..n /\ k + 1 # 1
  BY <1>2
<1>6. \A j, k \in 1..n : backlog[j] = backlog[k] => j = k
  BY DEF LegacyInv, n
<1>7. \A k \in 1..n : cpc[backlog[k]] \in {"waiting", "gone"}
  BY DEF LegacyInv, n
<1>8. \A k \in 1..n : backlog[k] \in Clients
  BY <1>1, ElementOfSeq DEF n
<1>9. ASSUME NEW k \in 1..(n - 1)
      PROVE  /\ Tail(backlog)[k] \in Clients /\ Tail(backlog)[k] # Head(backlog)
             /\ cpc[Tail(backlog)[k]] \in {"waiting", "gone"}
  BY <1>3, <1>4, <1>5, <1>6, <1>7, <1>8
<1>10. ASSUME NEW j \in 1..(n - 1), NEW k \in 1..(n - 1), Tail(backlog)[j] = Tail(backlog)[k]
       PROVE  j = k
  <2>1. j + 1 = k + 1
    BY <1>3, <1>5, <1>6, <1>10
  <2> QED
    BY <2>1
<1> QED
  BY <1>3, <1>4, <1>5, <1>7, <1>9, <1>10

\* A step of a thread that changes its connection from one state to another,
\* and leaves the backlog alone, is one that Standing allows.
LEMMA ThreadKeeps ==
  ASSUME LegacyInv, NEW c \in Clients, UNCHANGED <<backlog, test>>, test = "running",
         NEW place \in {"start", "handshake", "otp", "barrier", "loop", "over"},
         NEW state \in {"off", "waiting", "ready", "pending", "gone"},
         NEW count \in 0..Rounds,
         at' = [at EXCEPT ![c] = place], cpc' = [cpc EXCEPT ![c] = state],
         fail_count' = [fail_count EXCEPT ![c] = count],
         at[c] \in {"start", "handshake", "otp", "barrier"}
           => place \in {"start", "handshake", "otp", "barrier"},
         at[c] \in {"loop", "over"} => place \in {"loop", "over"},
         cpc[c] \in {"waiting", "gone"} => state \in {"waiting", "gone"},
         place = "over" => count = Rounds,
         Standing(c)'
  PROVE  LegacyInv'
<1> USE DEF LegacyInv
<1>1. /\ at'[c] = place /\ cpc'[c] = state /\ fail_count'[c] = count
      /\ \A d \in Clients : d # c => /\ at'[d] = at[d] /\ cpc'[d] = cpc[d]
                                     /\ fail_count'[d] = fail_count[d]
  OBVIOUS
<1>2. \A d \in Clients : Standing(d)'
  <2>1. ASSUME NEW d \in Clients, d # c PROVE Standing(d)'
    BY <1>1, <2>1 DEF Standing
  <2> QED
    BY <2>1
<1>3. \A k \in 1..Len(backlog) : cpc'[backlog[k]] \in {"waiting", "gone"}
  <2>1. \A k \in 1..Len(backlog) : backlog[k] \in Clients
    BY ElementOfSeq
  <2> QED
    BY <1>1, <2>1
<1>4. \/ \A d \in Clients : at'[d] \in {"start", "handshake", "otp", "barrier"}
      \/ \A d \in Clients : at'[d] \in {"loop", "over"}
  BY <1>1
<1>5. \A d \in Clients : at'[d] = "over" => fail_count'[d] = Rounds
  BY <1>1
<1> QED
  BY <1>1, <1>2, <1>3, <1>4, <1>5

\* One client goes.
LEMMA OneGone ==
  ASSUME cpc \in [Clients -> {"off", "waiting", "ready", "pending", "gone"}],
         NEW c \in Clients, EndProcess({c})
  PROVE  cpc' = [cpc EXCEPT ![c] = "gone"] /\ UNCHANGED backlog
BY DEF EndProcess

LEMMA RoutineKeeps ==
  ASSUME LegacyInv, NEW c \in Clients, RoutineStep(c)
  PROVE  LegacyInv'
<1> USE DEF Move
<1>0. /\ at \in [Clients -> {"start", "handshake", "otp", "barrier", "loop", "over"}]
      /\ fail_count \in [Clients -> 0..Rounds]
      /\ cpc \in [Clients -> {"off", "waiting", "ready", "pending", "gone"}]
      /\ test = "running" => Standing(c)
  BY DEF LegacyInv
<1>a. Rounds \in Nat /\ Rounds \in 0..Rounds
  OBVIOUS
<1>1. CASE StartConnect(c)
  <2>1. /\ test = "running" /\ at[c] = "start" /\ at' = [at EXCEPT ![c] = "handshake"]
        /\ cpc[c] = "off" /\ cpc' = [cpc EXCEPT ![c] = "waiting"]
        /\ backlog' = Append(backlog, c) /\ UNCHANGED <<fail_count, test>>
    BY <1>1 DEF StartConnect, Connect
  <2> USE DEF LegacyInv
  <2>2. backlog \in Seq(Clients) /\ Len(backlog) \in Nat /\ \A k \in 1..Len(backlog) :
          backlog[k] \in Clients /\ backlog[k] # c
    BY <2>1, LenProperties, ElementOfSeq
  <2>3. /\ backlog' \in Seq(Clients) /\ Len(backlog') = Len(backlog) + 1
        /\ backlog'[Len(backlog) + 1] = c
        /\ \A k \in 1..Len(backlog) : backlog'[k] = backlog[k]
    BY <2>1, <2>2
  <2>4. ASSUME NEW k \in 1..Len(backlog')
        PROVE  \/ /\ k \in 1..Len(backlog) /\ backlog'[k] = backlog[k]
                  /\ backlog[k] \in Clients /\ backlog[k] # c
                  /\ cpc[backlog[k]] \in {"waiting", "gone"}
               \/ k = Len(backlog) + 1 /\ backlog'[k] = c
    <3>1. k \in 1..Len(backlog) \/ k = Len(backlog) + 1
      BY <2>2, <2>3
    <3> QED
      BY <2>2, <2>3, <3>1
  <2>5. /\ at'[c] = "handshake" /\ cpc'[c] = "waiting"
        /\ \A d \in Clients : d # c => at'[d] = at[d] /\ cpc'[d] = cpc[d]
    BY <2>1
  <2>6. \A j, k \in 1..Len(backlog') : backlog'[j] = backlog'[k] => j = k
    <3>1. \A j, k \in 1..Len(backlog) : backlog[j] = backlog[k] => j = k
      OBVIOUS
    <3> HIDE DEF LegacyInv
    <3> QED
      BY <2>4, <3>1
  <2>7. \A k \in 1..Len(backlog') : cpc'[backlog'[k]] \in {"waiting", "gone"}
    <3> HIDE DEF LegacyInv
    <3> QED
      BY <2>4, <2>5
  <2>8. \A d \in Clients : Standing(d)'
    BY <2>1, <2>5 DEF Standing
  <2>9. /\ at' \in [Clients -> {"start", "handshake", "otp", "barrier", "loop", "over"}]
        /\ cpc' \in [Clients -> {"off", "waiting", "ready", "pending", "gone"}]
    BY <1>0, <2>1
  <2>10. \A d \in Clients : at'[d] \in {"start", "handshake", "otp", "barrier"}
    BY <2>1, <2>5
  <2> QED
    BY <2>1, <2>3, <2>6, <2>7, <2>8, <2>9, <2>10
<1>2. CASE NotConnected(c)
  <2>1. /\ test = "running" /\ at[c] \in {"start", "handshake"}
        /\ at' = [at EXCEPT ![c] = "barrier"] /\ cpc' = [cpc EXCEPT ![c] = "gone"]
        /\ fail_count' = [fail_count EXCEPT ![c] = Rounds]
        /\ UNCHANGED <<backlog, test>>
    BY <1>0, <1>2, OneGone DEF NotConnected
  <2>2. Standing(c)'
    BY <1>0, <2>1 DEF Standing
  <2> QED
    BY <1>a, <2>1, <2>2, ThreadKeeps
<1>3. CASE RequestOtp(c)
  <2>1. /\ test = "running" /\ at[c] = "handshake" /\ cpc[c] = "ready"
        /\ at' = [at EXCEPT ![c] = "otp"] /\ cpc' = [cpc EXCEPT ![c] = "pending"]
        /\ fail_count' = [fail_count EXCEPT ![c] = fail_count[c]]
        /\ UNCHANGED <<backlog, test>>
    BY <1>0, <1>3 DEF RequestOtp, SendRecord, Send
  <2>2. Standing(c)'
    BY <1>0, <2>1 DEF Standing
  <2> QED
    BY <1>0, <2>1, <2>2, ThreadKeeps
<1>4. CASE NoOtp(c)
  <2>1. /\ test = "running" /\ at[c] \in {"handshake", "otp"} /\ cpc[c] \in {"ready", "pending"}
        /\ at' = [at EXCEPT ![c] = "barrier"] /\ cpc' = [cpc EXCEPT ![c] = "ready"]
        /\ fail_count' = [fail_count EXCEPT ![c] = fail_count[c]]
        /\ UNCHANGED <<backlog, test>>
    BY <1>0, <1>4 DEF NoOtp, RequestFails, Lost
  <2>2. Standing(c)'
    BY <1>0, <2>1 DEF Standing
  <2> QED
    BY <1>0, <2>1, <2>2, ThreadKeeps
<1>5. CASE SendTransaction(c)
  <2>1. /\ test = "running" /\ at[c] = "loop" /\ cpc[c] = "ready"
        /\ at' = [at EXCEPT ![c] = "loop"] /\ cpc' = [cpc EXCEPT ![c] = "pending"]
        /\ fail_count' = [fail_count EXCEPT ![c] = fail_count[c]]
        /\ UNCHANGED <<backlog, test>>
    BY <1>0, <1>5 DEF SendTransaction, InLoop, SendRecord, Send, legacy
  <2>2. Standing(c)'
    BY <1>0, <2>1 DEF Standing
  <2> QED
    BY <1>0, <2>1, <2>2, ThreadKeeps
<1>6. CASE TransactionFails(c)
  <2>1. /\ test = "running" /\ at[c] = "loop" /\ cpc[c] \in {"ready", "pending"}
        /\ fail_count[c] < Rounds
        /\ at' = [at EXCEPT ![c] = "loop"] /\ cpc' = [cpc EXCEPT ![c] = "ready"]
        /\ fail_count' = [fail_count EXCEPT ![c] = fail_count[c] + 1]
        /\ UNCHANGED <<backlog, test>>
    BY <1>0, <1>6 DEF TransactionFails, InLoop, RequestFails, Lost
  <2>2. Standing(c)'
    BY <1>0, <2>1 DEF Standing
  <2>3. fail_count[c] + 1 \in 0..Rounds
    BY <1>0, <1>a, <2>1
  <2> QED
    BY <2>1, <2>2, <2>3, ThreadKeeps
<1>7. CASE Close(c)
  <2>1. /\ test = "running" /\ at[c] = "loop" /\ cpc[c] = "ready" /\ fail_count[c] = Rounds
        /\ at' = [at EXCEPT ![c] = "over"] /\ cpc' = [cpc EXCEPT ![c] = "gone"]
        /\ fail_count' = [fail_count EXCEPT ![c] = fail_count[c]]
        /\ UNCHANGED <<backlog, test>>
    BY <1>0, <1>7, OneGone DEF Close, Leave
  <2>2. Standing(c)'
    BY <1>0, <2>1 DEF Standing
  <2> QED
    BY <1>0, <2>1, <2>2, ThreadKeeps
<1> QED
  BY <1>1, <1>2, <1>3, <1>4, <1>5, <1>6, <1>7 DEF RoutineStep

\* Workers accept connections and close them; they know nothing of the barrier.
LEMMA WorkersKeep ==
  ASSUME LegacyInv, UNCHANGED legacy, NEW w \in Workers, WorkerStep(w) \/ Die(w)
  PROVE  LegacyInv'
<1>1. UNCHANGED <<at, fail_count, test>>
  BY DEF legacy
<1>2. ASSUME UNCHANGED <<backlog, cpc>> PROVE LegacyInv'
  <2>1. \A d \in Clients : Standing(d)' <=> Standing(d)
    BY <1>1, <1>2 DEF Standing
  <2> QED
    BY <1>1, <1>2, <2>1 DEF LegacyInv
<1>3. ASSUME backlog # <<>>, backlog' = Tail(backlog),
             NEW state \in {"ready", "gone"}, cpc' = [cpc EXCEPT ![Head(backlog)] = state],
             cpc[Head(backlog)] = "waiting" \/ state = "gone"
      PROVE  LegacyInv'
  <2>1. PICK c \in Clients : c = Head(backlog)
    BY <1>3, HeadOfLine
  <2>2. /\ cpc[c] \in {"waiting", "gone"}
        /\ cpc[c] = "waiting" \/ state = "gone"
        /\ cpc'[c] = state /\ \A d \in Clients : d # c => cpc'[d] = cpc[d]
        /\ cpc' \in [Clients -> {"off", "waiting", "ready", "pending", "gone"}]
    BY <1>3, <2>1, HeadOfLine DEF LegacyInv
  <2>3. /\ backlog' \in Seq(Clients)
        /\ \A k \in 1..Len(backlog') : /\ backlog'[k] \in Clients /\ backlog'[k] # c
                                      /\ cpc[backlog'[k]] \in {"waiting", "gone"}
        /\ \A j, k \in 1..Len(backlog') : backlog'[j] = backlog'[k] => j = k
    BY <1>3, <2>1, HeadOfLine
  <2>4. \A k \in 1..Len(backlog') : cpc'[backlog'[k]] \in {"waiting", "gone"}
    BY <2>2, <2>3
  <2>5. ASSUME test = "running", NEW d \in Clients PROVE Standing(d)'
    <3>1. Standing(d)
      BY <2>5 DEF LegacyInv
    <3>2. CASE d = c
      BY <1>1, <2>2, <3>1, <3>2 DEF Standing
    <3>3. CASE d # c
      BY <1>1, <2>2, <3>1, <3>3 DEF Standing
    <3> QED
      BY <3>2, <3>3
  <2> QED
    BY <1>1, <2>2, <2>3, <2>4, <2>5 DEF LegacyInv
<1>4. CASE Accept(w)
  BY <1>3, <1>4 DEF Accept
<1>5. CASE HandshakeFails(w)
  BY <1>3, <1>5 DEF HandshakeFails
<1>6. CASE ~Accept(w) /\ ~HandshakeFails(w)
  <2>1. UNCHANGED <<backlog, cpc>>
    BY <1>6 DEF WorkerStep, Die, Malformed, CallDatabase, DatabasePerforms, Respond, CallOtp,
      OtpPerforms, RespondOtp, Answer, Meanwhile, EndOfConnection, WrongSize,
      CloseConnection, BadChecksum, TakePacket
  <2> QED
    BY <1>2, <2>1
<1> QED
  BY <1>4, <1>5, <1>6

LEMMA LegacyInitHolds == LegacyInit => LegacyInv
BY DEF LegacyInit, Init, LegacyInv, Standing

LEMMA LegacyStepKeeps == LegacyInv /\ [LegacyNext]_legacyVars => LegacyInv'
<1> SUFFICES ASSUME LegacyInv, [LegacyNext]_legacyVars PROVE LegacyInv'
  OBVIOUS
<1>1. CASE UNCHANGED legacyVars
  BY <1>1 DEF legacyVars, legacy, vars, LegacyInv, Standing
<1>2. CASE OpenBarrier
  <2>1. /\ test = "running" /\ \A c \in Clients : at[c] = "barrier" /\ Standing(c)
        /\ at' = [c \in Clients |-> IF cpc[c] = "gone" THEN "over" ELSE "loop"]
        /\ UNCHANGED <<fail_count, test, cpc, backlog>>
    BY <1>2 DEF OpenBarrier, vars, LegacyInv
  <2>2. \A c \in Clients : /\ at'[c] \in {"loop", "over"} /\ Standing(c)'
                           /\ at'[c] = "over" => fail_count'[c] = Rounds
    BY <2>1 DEF Standing
  <2>3. at' \in [Clients -> {"start", "handshake", "otp", "barrier", "loop", "over"}]
    BY <2>1
  <2> QED
    BY <2>1, <2>2, <2>3 DEF LegacyInv
<1>3. CASE InitFails \/ SigPipe
  <2>1. /\ test' \in {"exited", "killed"} /\ cpc' = [c \in Clients |-> "gone"]
        /\ UNCHANGED <<at, fail_count, backlog>>
    BY <1>3 DEF InitFails, SigPipe, EndTest, EndProcess
  <2>2. \A k \in 1..Len(backlog) : cpc'[backlog[k]] \in {"waiting", "gone"}
    BY <2>1, ElementOfSeq DEF LegacyInv
  <2> QED
    BY <2>1, <2>2 DEF LegacyInv
<1>4. CASE Report
  <2>1. /\ test' = "reported" /\ \A c \in Clients : at[c] = "over"
        /\ UNCHANGED <<at, fail_count, cpc, backlog>>
    BY <1>4 DEF Report, vars
  <2> QED
    BY <2>1 DEF LegacyInv
<1> QED
  BY <1>1, <1>2, <1>3, <1>4, RoutineKeeps, WorkersKeep DEF LegacyNext
-----------------------------------------------------------------------------
\* Where every thread stands, and what its connection and its count are then.
THEOREM InvariantHolds == LegacySpec => []LegacyInv
BY LegacyInitHolds, LegacyStepKeeps, PTL DEF LegacySpec

\* The barrier of worker_routine keeps every thread from its transactions until
\* all have arrived.
THEOREM ThreadsStartTogether == LegacySpec => []StartTogether
<1>1. LegacyInv => StartTogether
  BY DEF LegacyInv, StartTogether
<1> QED
  BY <1>1, InvariantHolds, PTL

\* run_stress_test reports when every thread has counted all its requests, those
\* of the threads that never had a connection included.
THEOREM ReportIsComplete == LegacySpec => []ReportComplete
<1>1. LegacyInv => ReportComplete
  BY DEF LegacyInv, ReportComplete
<1> QED
  BY <1>1, InvariantHolds, PTL
-----------------------------------------------------------------------------
(***************************************************************************)
(* The threads are clients of BankingServer.                               *)
(***************************************************************************)

\* The packets a client has sent are counted.
SentCounted == sent \in [Clients -> Nat]

\* A step of the test or of a worker is one of the server and its clients.
LEMMA LegacyIsServing ==
  ASSUME SentCounted, [LegacyNext]_legacyVars PROVE [Next]_vars
<1>1. ASSUME NEW c \in Clients, SendRecord(c) PROVE Next
  <2> DEFINE p == [kind |-> "partial", r |-> NoRequest, n |-> sent[c] + 1]
  <2>1. sent[c] \in Nat /\ sent[c] < Sends[c] /\ Sends[c] \in 0..MaxSends /\ MaxSends \in Nat
    BY <1>1 DEF SendRecord, Send, SentCounted
  <2>2. sent[c] + 1 \in 1..MaxSends
    BY <2>1
  <2>3. p \in Packets
    BY <2>2 DEF Packets
  <2>4. Send(c, p)
    BY <1>1 DEF SendRecord
  <2> QED
    BY <2>3, <2>4 DEF Next
<1>2. ASSUME NEW c \in Clients, RoutineStep(c) PROVE Next
  <2>1. CASE StartConnect(c)
    BY <2>1 DEF StartConnect, Next
  <2>2. CASE NotConnected(c)
    BY <2>2 DEF NotConnected, Next
  <2>3. CASE RequestOtp(c) \/ SendTransaction(c)
    BY <1>1, <2>3 DEF RequestOtp, SendTransaction
  <2>4. CASE NoOtp(c) \/ TransactionFails(c)
    BY <2>4 DEF NoOtp, TransactionFails, Next
  <2>5. CASE Close(c)
    BY <2>5 DEF Close, Leave, Next
  <2> QED
    BY <1>2, <2>1, <2>2, <2>3, <2>4, <2>5 DEF RoutineStep
<1>3. CASE InitFails \/ SigPipe
  BY <1>3 DEF InitFails, SigPipe, EndTest, Next
<1>4. CASE OpenBarrier \/ Report \/ UNCHANGED legacyVars
  BY <1>4 DEF OpenBarrier, Report, legacyVars
<1>5. CASE \E w \in Workers : WorkerStep(w) \/ Die(w)
  BY <1>5 DEF Next
<1> QED
  BY <1>2, <1>3, <1>4, <1>5 DEF LegacyNext

\* Only a packet sent is counted.
LEMMA SentStaysCounted ==
  ASSUME SentCounted, [Next]_vars PROVE SentCounted'
<1>1. ASSUME NEW c \in Clients, NEW p, Send(c, p) PROVE SentCounted'
  BY <1>1 DEF Send, SentCounted
<1>2. CASE UNCHANGED sent
  BY <1>2 DEF SentCounted
<1>3. ASSUME NEW w \in Workers, WorkerStep(w) \/ Die(w) PROVE UNCHANGED sent
  BY <1>3 DEF WorkerStep, Die, Accept, HandshakeFails, Malformed, CallDatabase,
    DatabasePerforms, Respond, CallOtp, OtpPerforms, RespondOtp, Answer, Meanwhile,
    EndOfConnection, WrongSize, CloseConnection, BadChecksum, TakePacket
<1>4. CASE OtpFails \/ UNCHANGED vars
  BY <1>2, <1>4 DEF OtpFails, Meanwhile, vars
<1>5. ASSUME NEW c \in Clients, Connect(c) \/ Receive(c) \/ RequestFails(c)
      PROVE  UNCHANGED sent
  BY <1>5 DEF Connect, Receive, RequestFails
<1>6. ASSUME NEW cs, EndProcess(cs) PROVE UNCHANGED sent
  BY <1>6 DEF EndProcess
<1> QED
  BY <1>1, <1>2, <1>3, <1>4, <1>5, <1>6 DEF Next

\* worker_routine is a client of the server as any other: whatever the server
\* promises its clients holds for the threads of the older client.
THEOREM ThreadsAreClients == LegacySpec => Spec
<1>1. LegacyInit => Init /\ SentCounted
  BY DEF LegacyInit, Init, SentCounted
<1>2. SentCounted /\ [LegacyNext]_legacyVars => [Next]_vars /\ SentCounted'
  BY LegacyIsServing, SentStaysCounted
<1> QED
  BY <1>1, <1>2, PTL DEF LegacySpec, Spec
=============================================================================

--------------------------- MODULE OtpServerProofs --------------------------
(***************************************************************************)
(* Safety of the one-time-password service, for any number of workers,     *)
(* accounts, codes, slots, calls and crashes.                              *)
(***************************************************************************)
EXTENDS OtpServer, FiniteSetTheorems, TLAPS

USE OtpAssumption

\* The program starts in the invariant.
LEMMA InitIInv == Init => IInv
<1> SUFFICES ASSUME Init PROVE IInv
  OBVIOUS
<1> USE DEF Init
<1>1. TypeOK
  BY DEF TypeOK, Responses, Failure, Entries, Blank
<1>2. ConnectionInv
  BY DEF ConnectionInv, Queued
<1>3. LatestCodeCompared /\ NobodyForgotten
  BY DEF LatestCodeCompared, NobodyForgotten
<1>4. CreditInv
  <2>1. \A a, c : Unspent(a, c) = {} /\ Told(a, c) = {}
    BY DEF Unspent, Of, Blank, Told, NoRequest
  <2>2. \A a \in Accounts, c \in Codes : credit[a][c] = 0
    OBVIOUS
  <2> HIDE DEF Init
  <2> QED
    BY <2>1, <2>2, FS_EmptySet DEF CreditInv
<1> QED
  BY <1>1, <1>2, <1>3, <1>4 DEF IInv
-----------------------------------------------------------------------------
\* Every step keeps the types.
LEMMA StepTypeOK == ASSUME TypeOK, [Next]_vars PROVE TypeOK'
<1> USE DEF TypeOK, server, callers, history
<1>1. ASSUME NEW w \in Workers, NEW r \in Requests, Call(w, r) PROVE TypeOK'
  BY <1>1 DEF Call, At
<1>2. ASSUME NEW w \in Workers, ConnectFails(w) \/ Read(w) PROVE TypeOK'
  <2>1. CASE ConnectFails(w)
    BY <2>1 DEF ConnectFails, Hangup
  <2>2. CASE Read(w)
    <3>1. credit' \in [Accounts -> [Codes -> Int]]
      <4>1. CASE req[w].op = "verify" /\ inbox[w].status = 1
        <5>1. req[w].account \in Accounts /\ req[w].otp \in Codes
          BY <4>1 DEF Requests, NoRequest
        <5> QED
          BY <2>2, <4>1, <5>1 DEF Read
      <4> QED
        BY <2>2, <4>1 DEF Read
    <3> QED
      BY <2>2, <3>1 DEF Read, Hangup
  <2> QED
    BY <1>2, <2>1, <2>2
<1>3. ASSUME NEW w \in Workers, Connect(w) PROVE TypeOK'
  <2>1. backlog' \in Seq(Workers) /\ Len(backlog') = Len(backlog) + 1
    BY <1>3 DEF Connect
  <2> QED
    BY <1>3, <2>1 DEF Connect
<1>4. ASSUME NEW w \in Workers, Write(w) \/ Die(w) \/ ReadEnd(w) \/ Respond(w)
      PROVE  TypeOK'
  <2>1. CASE Write(w) \/ Die(w)
    BY <2>1 DEF Write, Die, At
  <2>2. CASE ReadEnd(w)
    BY <2>2 DEF ReadEnd
  <2>3. CASE Respond(w)
    BY <2>3 DEF Respond
  <2> QED
    BY <1>4, <2>1, <2>2, <2>3
<1>5. CASE Accept
  <2>1. backlog' \in Seq(Workers) /\ Len(backlog') = Len(backlog) - 1 /\ serving' \in Workers
    BY <1>5 DEF Accept
  <2> QED
    BY <1>5, <2>1 DEF Accept
<1>6. ASSUME NEW w \in Workers, Busy(w) \/ Invalid(w) PROVE TypeOK'
  BY <1>6 DEF Busy, Invalid, Responses, Failure
<1>7. ASSUME NEW w \in Workers, NEW c \in Codes, Generate(w, c) PROVE TypeOK'
  <2>1. req[w].account \in Accounts
    BY <1>7 DEF Generate, Reading, Requests, NoRequest
  <2>2. otp_db' \in [Slots -> Entries]
    BY <1>7, <2>1 DEF Generate, Entries
  <2>3. answer' \in Responses
    BY <1>7 DEF Generate, Responses
  <2> QED
    BY <1>7, <2>1, <2>2, <2>3 DEF Generate
<1>8. ASSUME NEW w \in Workers, Verify(w) PROVE TypeOK'
  <2>1. req[w].account \in Accounts
    BY <1>8 DEF Verify, Reading, Requests, NoRequest
  <2>2. otp_db' \in [Slots -> Entries]
    <3>1. PICK s \in Slots : otp_db' = [otp_db EXCEPT ![s].used = FALSE]
      BY <1>8 DEF Verify
    <3>2. otp_db \in [Slots -> Entries] /\ otp_db[s] \in Entries
      OBVIOUS
    <3> HIDE DEF TypeOK
    <3>3. [otp_db[s] EXCEPT !.used = FALSE] \in Entries
      BY <3>2 DEF Entries
    <3> QED
      BY <3>1, <3>2, <3>3
  <2>3. answer' \in Responses
    BY <1>8 DEF Verify, Responses
  <2> QED
    BY <1>8, <2>1, <2>2, <2>3 DEF Verify
<1>9. CASE Crash
  <2>1. Blank \in Entries
    BY DEF Entries, Blank
  <2>2. /\ otp_db' \in [Slots -> Entries] /\ latest' \in [Accounts -> Codes \cup {NoCode}]
        /\ inbox' \in [Workers -> Responses \cup {EndOfFile, Nothing}]
    BY <1>9, <2>1 DEF Crash
  <2>3. /\ backlog' = <<>> /\ serving' = NoOne /\ answer' = Nothing /\ up' = FALSE
        /\ crashes' \in 0..MaxCrashes /\ UNCHANGED <<pc, req, alive, calls, credit>>
    BY <1>9 DEF Crash
  <2>4. backlog' \in Seq(Workers) /\ Len(backlog') <= Backlog
    BY <2>3
  <2> QED
    BY <2>2, <2>3, <2>4
<1>10. CASE Restart \/ UNCHANGED vars
  BY <1>10 DEF Restart, vars
<1> QED
  BY <1>1, <1>2, <1>3, <1>4, <1>5, <1>6, <1>7, <1>8, <1>9, <1>10
  DEF Next, CallerStep, ServerStep
-----------------------------------------------------------------------------
\* What the next two lemmas need of the types.
Calls ==
  /\ DOMAIN pc = Workers /\ DOMAIN inbox = Workers /\ DOMAIN alive = Workers
  /\ pc = [w \in Workers |-> pc[w]] /\ inbox = [w \in Workers |-> inbox[w]]
  /\ alive = [w \in Workers |-> alive[w]]
  /\ serving \in Workers \cup {NoOne} /\ NoOne \notin Workers
  /\ answer = Nothing \/ answer \in Responses
  /\ backlog \in Seq(Workers)

LEMMA TypedCalls == TypeOK => Calls
BY DEF TypeOK, Calls

\* Every step keeps the connections apart.
LEMMA StepConnectionInv ==
  ASSUME TypeOK, ConnectionInv, [Next]_vars PROVE ConnectionInv'
<1> USE DEF ConnectionInv, Queued, server, callers, history
<1>0. Calls
  BY TypedCalls
<1>1. ASSUME NEW w \in Workers, NEW r \in Requests, Call(w, r) PROVE ConnectionInv'
  BY <1>0, <1>1 DEF Call, At, Calls
<1>2. ASSUME NEW w \in Workers, ConnectFails(w) \/ Read(w) PROVE ConnectionInv'
  <2>1. /\ pc' = [pc EXCEPT ![w] = "idle"] /\ inbox' = [inbox EXCEPT ![w] = Nothing]
        /\ UNCHANGED <<server, backlog>>
        /\ serving # w /\ ~Queued(w)
    BY <1>0, <1>2 DEF ConnectFails, Read, Hangup, At, Calls
  <2> QED
    BY <1>0, <2>1 DEF Calls
<1>3. ASSUME NEW w \in Workers, Connect(w) PROVE ConnectionInv'
  <2>1. /\ Len(backlog') = Len(backlog) + 1 /\ Len(backlog) \in Nat
        /\ \A k \in 1..Len(backlog') :
             backlog'[k] = IF k = Len(backlog) + 1 THEN w ELSE backlog[k]
    BY <1>0, <1>3 DEF Connect, Calls
  <2>2. serving # w /\ ~Queued(w)
    BY <1>3 DEF Connect, At
  <2>3. \A v : Queued(v)' <=> v = w \/ Queued(v)
    BY <2>1
  <2> QED
    BY <1>0, <1>3, <2>1, <2>2, <2>3 DEF Connect, At, Calls
<1>4. ASSUME NEW w \in Workers, Write(w) \/ Die(w) \/ ReadEnd(w) PROVE ConnectionInv'
  <2>1. CASE Write(w)
    BY <1>0, <2>1 DEF Write, At, Calls
  <2>2. CASE Die(w) \/ ReadEnd(w)
    BY <1>0, <2>2 DEF Die, ReadEnd, Calls
  <2> QED
    BY <1>4, <2>1, <2>2
<1>5. ASSUME NEW w \in Workers, Respond(w) PROVE ConnectionInv'
  BY <1>0, <1>5 DEF Respond, Calls
<1>6. CASE Accept
  <2>1. /\ Len(backlog') = Len(backlog) - 1 /\ serving' = backlog[1]
        /\ \A k \in 1..Len(backlog') : backlog'[k] = backlog[k + 1]
        /\ Len(backlog) \in Nat \ {0}
    BY <1>0, <1>6 DEF Accept, Calls
  <2> QED
    BY <1>0, <1>6, <2>1 DEF Accept, Calls
<1>7. ASSUME NEW w \in Workers,
             Busy(w) \/ Invalid(w) \/ Verify(w) \/ \E c \in Codes : Generate(w, c)
      PROVE  ConnectionInv'
  <2>1. serving = w /\ pc[w] = "read" /\ UNCHANGED <<serving, backlog, pc, inbox>>
    BY <1>7 DEF Busy, Invalid, Verify, Generate, Reading
  <2> QED
    BY <2>1
<1>8. CASE Crash \/ Restart
  <2>1. CASE Crash
    BY <1>0, <2>1 DEF Crash, Calls
  <2>2. CASE Restart
    BY <2>2 DEF Restart
  <2> QED
    BY <1>8, <2>1, <2>2
<1>9. CASE UNCHANGED vars
  BY <1>9 DEF vars
<1> QED
  BY <1>1, <1>2, <1>3, <1>4, <1>5, <1>6, <1>7, <1>8, <1>9 DEF Next, CallerStep, ServerStep
-----------------------------------------------------------------------------
\* Every step keeps a waiting caller in the service's hands.
LEMMA StepNobodyForgotten ==
  ASSUME TypeOK, NobodyForgotten, [Next]_vars PROVE NobodyForgotten'
<1> USE DEF NobodyForgotten, server, callers, history
<1>0. Calls
  BY TypedCalls
<1>1. ASSUME NEW w \in Workers, NEW r \in Requests, Call(w, r) PROVE NobodyForgotten'
  BY <1>0, <1>1 DEF Call, At, Calls
<1>2. ASSUME NEW w \in Workers, ConnectFails(w) \/ Read(w) PROVE NobodyForgotten'
  BY <1>0, <1>2 DEF ConnectFails, Read, Hangup, Calls
<1>3. ASSUME NEW w \in Workers, Connect(w) PROVE NobodyForgotten'
  <2>1. /\ Len(backlog') = Len(backlog) + 1 /\ backlog'[Len(backlog')] = w
        /\ Len(backlog') \in 1..Len(backlog')
        /\ \A k \in 1..Len(backlog) : k \in 1..Len(backlog') /\ backlog'[k] = backlog[k]
    BY <1>0, <1>3 DEF Connect, Calls
  <2> QED
    BY <1>0, <1>3, <2>1 DEF Connect, Calls
<1>4. ASSUME NEW w \in Workers, Write(w) \/ Die(w) \/ ReadEnd(w) \/ Respond(w)
      PROVE  NobodyForgotten'
  <2>1. CASE Write(w) \/ Die(w)
    BY <1>0, <2>1 DEF Write, Die, At, Calls
  <2>2. CASE ReadEnd(w)
    BY <1>0, <2>2 DEF ReadEnd, Calls
  <2>3. CASE Respond(w)
    BY <1>0, <2>3 DEF Respond, Calls
  <2> QED
    BY <1>4, <2>1, <2>2, <2>3
<1>5. CASE Accept
  <2>1. /\ serving' = backlog[1] /\ Len(backlog') = Len(backlog) - 1
        /\ \A k \in 1..Len(backlog) :
             k = 1 \/ (k - 1 \in 1..Len(backlog') /\ backlog'[k - 1] = backlog[k])
    BY <1>0, <1>5 DEF Accept, Calls
  <2> SUFFICES ASSUME NEW w \in Workers, alive[w], pc[w] \in {"write", "read"}
               PROVE  \/ inbox[w] # Nothing \/ serving' = w
                      \/ \E k \in 1..Len(backlog') : backlog'[k] = w
    BY <1>5 DEF Accept
  <2>2. serving # w
    BY <1>0, <1>5 DEF Accept, Calls
  <2>3. ASSUME NEW k \in 1..Len(backlog), backlog[k] = w
        PROVE  serving' = w \/ \E j \in 1..Len(backlog') : backlog'[j] = w
    BY <2>1, <2>3
  <2> QED
    BY <2>2, <2>3
<1>6. ASSUME NEW w \in Workers,
             Busy(w) \/ Invalid(w) \/ Verify(w) \/ \E c \in Codes : Generate(w, c)
      PROVE  NobodyForgotten'
  BY <1>6 DEF Busy, Invalid, Verify, Generate
<1>7. CASE Crash \/ Restart
  <2>1. CASE Crash
    BY <1>0, <2>1 DEF Crash, EndOfFile, Nothing, Calls
  <2>2. CASE Restart
    BY <2>2 DEF Restart
  <2> QED
    BY <1>7, <2>1, <2>2
<1>8. CASE UNCHANGED vars
  BY <1>8 DEF vars
<1> QED
  BY <1>1, <1>2, <1>3, <1>4, <1>5, <1>6, <1>7, <1>8 DEF Next, CallerStep, ServerStep
-----------------------------------------------------------------------------
\* GENERATE puts the new code before the account's others, and touches no other
\* account's.
LEMMA GenerateFirst ==
  ASSUME TypeOK, NEW w \in Workers, NEW c \in Codes, Generate(w, c)
  PROVE  \E s \in Slots :
           /\ First(Of(req[w].account)', s) /\ (otp_db[s].otp)' = c
           /\ \A t \in Slots \ {s} : otp_db'[t] = otp_db[t]
           /\ \A a : a # req[w].account => Of(a)' = Of(a) /\ s \notin Of(a)
<1> DEFINE b == req[w].account
<1>1. PICK s \in Slots :
        /\ First(Places(b), s)
        /\ otp_db' = [otp_db EXCEPT ![s] = [account |-> b, otp |-> c, used |-> TRUE]]
  BY DEF Generate
<1>2. req' = req
  BY DEF Generate, callers
<1>3. otp_db'[s] = [account |-> b, otp |-> c, used |-> TRUE]
  BY <1>1 DEF TypeOK
<1>4. \A t \in Slots \ {s} : otp_db'[t] = otp_db[t]
  BY <1>1 DEF TypeOK
<1>5. First(Of(b)', s)
  BY <1>1, <1>2, <1>3, <1>4 DEF First, Of, Places
<1>6. \A a : a # b => Of(a)' = Of(a) /\ s \notin Of(a)
  BY <1>1, <1>3, <1>4 DEF First, Of, Places
<1> QED
  BY <1>3, <1>4, <1>5, <1>6

\* VERIFY spends an entry of the account it names, and no other.
LEMMA VerifySpends ==
  ASSUME TypeOK, NEW w \in Workers, Verify(w)
  PROVE  \E s \in Slots :
           /\ s \in Of(req[w].account) /\ otp_db[s].otp = req[w].otp
           /\ \A t \in Slots \ {s} : otp_db'[t] = otp_db[t]
           /\ \A a : Of(a)' = Of(a) \ {s}
<1>1. PICK s \in Slots :
        /\ Matches(req[w].account, req[w].otp, s)
        /\ otp_db' = [otp_db EXCEPT ![s].used = FALSE]
  BY DEF Verify
<1>2. ~otp_db'[s].used /\ \A t \in Slots \ {s} : otp_db'[t] = otp_db[t]
  BY <1>1 DEF TypeOK, Entries
<1>3. s \in Of(req[w].account) /\ otp_db[s].otp = req[w].otp
  BY <1>1 DEF Matches, First
<1>4. \A a : Of(a)' = Of(a) \ {s}
  BY <1>2 DEF Of
<1> QED
  BY <1>2, <1>3, <1>4

\* Every step keeps the latest code of each account before its others.
LEMMA StepLatestCodeCompared ==
  ASSUME TypeOK, LatestCodeCompared, [Next]_vars PROVE LatestCodeCompared'
<1> USE DEF LatestCodeCompared, Matches, First
<1>1. CASE UNCHANGED <<otp_db, latest>>
  BY <1>1 DEF Of
<1>2. ASSUME NEW w \in Workers, NEW c \in Codes, Generate(w, c) PROVE LatestCodeCompared'
  <2>1. PICK s \in Slots :
          /\ First(Of(req[w].account)', s) /\ (otp_db[s].otp)' = c
          /\ \A t \in Slots \ {s} : otp_db'[t] = otp_db[t]
          /\ \A a : a # req[w].account => Of(a)' = Of(a) /\ s \notin Of(a)
    BY <1>2, GenerateFirst
  <2>2. latest' = [latest EXCEPT ![req[w].account] = c] /\ req' = req
    BY <1>2 DEF Generate, callers
  <2> SUFFICES ASSUME NEW a \in Accounts, latest'[a] # NoCode
               PROVE  \E t \in Slots : First(Of(a)', t) /\ (otp_db[t].otp)' = latest'[a]
    OBVIOUS
  <2>3. CASE a = req[w].account
    BY <2>1, <2>2, <2>3 DEF TypeOK
  <2>4. CASE a # req[w].account
    <3>1. latest'[a] = latest[a]
      BY <2>2, <2>4 DEF TypeOK
    <3>2. PICK t \in Slots : First(Of(a), t) /\ otp_db[t].otp = latest[a]
      BY <3>1
    <3>3. Of(a)' = Of(a) /\ t # s
      BY <2>1, <2>4, <3>2
    <3> QED
      BY <2>1, <3>1, <3>2, <3>3
  <2> QED
    BY <2>3, <2>4
<1>3. ASSUME NEW w \in Workers, Verify(w) PROVE LatestCodeCompared'
  <2>1. PICK s \in Slots :
          /\ s \in Of(req[w].account) /\ otp_db[s].otp = req[w].otp
          /\ \A t \in Slots \ {s} : otp_db'[t] = otp_db[t]
          /\ \A a : Of(a)' = Of(a) \ {s}
    BY <1>3, VerifySpends
  <2>2. latest' = [latest EXCEPT ![req[w].account] = NoCode]
    BY <1>3 DEF Verify
  <2> SUFFICES ASSUME NEW a \in Accounts, latest'[a] # NoCode
               PROVE  \E t \in Slots : First(Of(a)', t) /\ (otp_db[t].otp)' = latest'[a]
    OBVIOUS
  <2>3. a # req[w].account /\ latest'[a] = latest[a]
    BY <2>2 DEF TypeOK
  <2>4. s \notin Of(a)
    BY <2>1, <2>3 DEF Of
  <2>5. PICK t \in Slots : First(Of(a), t) /\ otp_db[t].otp = latest[a]
    BY <2>3
  <2>6. Of(a)' = Of(a) /\ t # s
    BY <2>1, <2>4, <2>5
  <2> QED
    BY <2>1, <2>3, <2>5, <2>6
<1>4. CASE Crash
  BY <1>4 DEF Crash
<1> QED
  <2>1. ASSUME NEW w \in Workers, NEW r \in Requests, Call(w, r) PROVE LatestCodeCompared'
    BY <2>1, <1>1 DEF Call, server, history
  <2>2. ASSUME NEW w \in Workers, CallerStep(w) \/ Die(w) PROVE LatestCodeCompared'
    BY <2>2, <1>1 DEF CallerStep, ConnectFails, Connect, Write, Read, Hangup, Die, server, history
  <2>3. ASSUME NEW w \in Workers,
               ReadEnd(w) \/ Busy(w) \/ Invalid(w) \/ Respond(w) \/ Accept \/ Restart
        PROVE  LatestCodeCompared'
    BY <2>3, <1>1 DEF ReadEnd, Busy, Invalid, Respond, Accept, Restart, history
  <2>4. CASE Accept \/ Restart \/ UNCHANGED vars
    BY <2>4, <1>1 DEF Accept, Restart, vars, server, history
  <2> QED
    BY <1>2, <1>3, <1>4, <2>1, <2>2, <2>3, <2>4 DEF Next, ServerStep
-----------------------------------------------------------------------------
\* The table and the workers are finite, so that codes can be counted.
LEMMA Countable ==
  ASSUME NEW a, NEW c
  PROVE  /\ IsFiniteSet(Unspent(a, c)) /\ Cardinality(Unspent(a, c)) \in Nat
         /\ IsFiniteSet(Told(a, c)) /\ Cardinality(Told(a, c)) \in Nat
<1>1. IsFiniteSet(Slots)
  BY FS_Interval DEF Slots
<1>2. Unspent(a, c) \in SUBSET Slots
  BY DEF Unspent, Of
<1>3. Told(a, c) \in SUBSET Workers
  BY DEF Told
<1> QED
  BY <1>1, <1>2, <1>3, FS_Subset, FS_CardinalityType

\* A step that issues nothing keeps the balance, if nobody is told anew.
LEMMA CreditKept ==
  ASSUME TypeOK, CreditInv, credit' = credit,
         \A a \in Accounts, c \in Codes :
           Unspent(a, c)' \subseteq Unspent(a, c) /\ Told(a, c)' \subseteq Told(a, c)
  PROVE  CreditInv'
<1> SUFFICES ASSUME NEW a \in Accounts, NEW c \in Codes
             PROVE  credit[a][c] >= Cardinality(Unspent(a, c)') + Cardinality(Told(a, c)')
  BY DEF CreditInv
<1> DEFINE u == Unspent(a, c)   v == Told(a, c)
           u2 == Unspent(a, c)'  v2 == Told(a, c)'
<1>1. IsFiniteSet(u) /\ IsFiniteSet(v) /\ Cardinality(u) \in Nat /\ Cardinality(v) \in Nat
  BY Countable
<1>2. u2 \in SUBSET u /\ v2 \in SUBSET v
  OBVIOUS
<1>3. credit[a][c] \in Int /\ credit[a][c] >= Cardinality(u) + Cardinality(v)
  BY DEF CreditInv, TypeOK
<1> HIDE DEF u, v, u2, v2
<1>4. Cardinality(u2) <= Cardinality(u) /\ Cardinality(v2) <= Cardinality(v)
  BY <1>1, <1>2, FS_Subset
<1>5. Cardinality(u2) \in Nat /\ Cardinality(v2) \in Nat
  BY <1>1, <1>2, FS_Subset, FS_CardinalityType
<1>6. credit[a][c] >= Cardinality(u2) + Cardinality(v2)
  BY <1>1, <1>3, <1>4, <1>5
<1> QED
  BY <1>6 DEF u2, v2

\* The steps of a call that leave the table alone.
LEMMA CallersCredit ==
  ASSUME TypeOK, ConnectionInv, CreditInv, NEW w \in Workers,
         \/ \E r \in Requests : Call(w, r)
         \/ ConnectFails(w) \/ Connect(w) \/ Write(w) \/ Die(w)
  PROVE  CreditInv'
<1> USE DEF server, callers, history
<1>1. credit' = credit /\ otp_db' = otp_db
  BY DEF Call, ConnectFails, Hangup, Connect, Write, Die
<1>2. serving' = serving /\ answer' = answer
  BY DEF Call, ConnectFails, Hangup, Connect, Write, Die
<1>3. \A a, c : Unspent(a, c)' = Unspent(a, c)
  BY <1>1 DEF Unspent, Of
<1>4. ASSUME NEW a \in Accounts, NEW c \in Codes PROVE Told(a, c)' \subseteq Told(a, c)
  <2>1. CASE req' = req /\ inbox' = inbox
    BY <1>2, <2>1 DEF Told
  <2>2. CASE (\E r \in Requests : Call(w, r)) \/ ConnectFails(w)
    <3>1. inbox'[w] = Nothing /\ serving # w
      BY <2>2 DEF Call, ConnectFails, Hangup, At, TypeOK, ConnectionInv
    <3>2. \A v \in Workers \ {w} : req'[v] = req[v] /\ inbox'[v] = inbox[v]
      BY <2>2 DEF Call, ConnectFails, Hangup, TypeOK
    <3> QED
      BY <1>2, <3>1, <3>2 DEF Told, Nothing
  <2> QED
    BY <2>1, <2>2 DEF Connect, Write, Die
<1> QED
  BY <1>1, <1>3, <1>4, CreditKept

\* A response with status 1 to a verification takes its caller and one credit.
LEMMA ReadCredit ==
  ASSUME TypeOK, ConnectionInv, CreditInv, NEW w \in Workers, Read(w)
  PROVE  CreditInv'
<1> USE DEF server, callers, history
<1> DEFINE b == req[w].account   d == req[w].otp
<1>1. /\ otp_db' = otp_db /\ serving' = serving /\ answer' = answer /\ serving # w
      /\ req' = [req EXCEPT ![w] = NoRequest] /\ inbox' = [inbox EXCEPT ![w] = Nothing]
  BY DEF Read, Hangup, ConnectionInv
<1>2. \A a, c : Unspent(a, c)' = Unspent(a, c)
  BY <1>1 DEF Unspent, Of
<1>3. \A a, c : Told(a, c)' = Told(a, c) \ {w}
  <2>1. inbox'[w] = Nothing /\ \A v \in Workers \ {w} : req'[v] = req[v] /\ inbox'[v] = inbox[v]
    BY <1>1 DEF TypeOK
  <2> QED
    BY <1>1, <2>1 DEF Told, Nothing
<1>4. CASE ~(req[w].op = "verify" /\ inbox[w].status = 1)
  BY <1>2, <1>3, <1>4, CreditKept DEF Read
<1>5. CASE req[w].op = "verify" /\ inbox[w].status = 1
  <2>1. credit' = [credit EXCEPT ![b][d] = @ - 1]
    BY <1>5 DEF Read
  <2>2. b \in Accounts /\ d \in Codes /\ w \in Told(b, d)
    BY <1>5 DEF TypeOK, Requests, NoRequest, Told
  <2> SUFFICES ASSUME NEW a \in Accounts, NEW c \in Codes
               PROVE  credit'[a][c] >= Cardinality(Unspent(a, c)) + Cardinality(Told(a, c) \ {w})
    BY <1>2, <1>3 DEF CreditInv
  <2>3. /\ Cardinality(Unspent(a, c)) \in Nat /\ Cardinality(Told(a, c)) \in Nat
        /\ Cardinality(Told(a, c) \ {w}) =
             IF w \in Told(a, c) THEN Cardinality(Told(a, c)) - 1 ELSE Cardinality(Told(a, c))
    BY Countable, FS_RemoveElement
  <2>4. credit[a][c] \in Int /\ credit[a][c] >= Cardinality(Unspent(a, c)) + Cardinality(Told(a, c))
    BY DEF CreditInv, TypeOK
  <2>5. credit'[a][c] = IF a = b /\ c = d THEN credit[a][c] - 1 ELSE credit[a][c]
    BY <2>1, <2>2 DEF TypeOK
  <2>6. w \in Told(a, c) <=> a = b /\ c = d
    BY <1>5 DEF Told
  <2> QED
    BY <2>3, <2>4, <2>5, <2>6
<1> QED
  BY <1>4, <1>5

\* The steps of the service that neither issue a code nor spend one.
LEMMA ServiceCredit ==
  ASSUME TypeOK, ConnectionInv, CreditInv,
         \/ Accept \/ Restart \/ Crash
         \/ \E w \in Workers : ReadEnd(w) \/ Busy(w) \/ Invalid(w) \/ Respond(w)
  PROVE  CreditInv'
<1> USE DEF server, callers, history
<1>1. credit' = credit /\ req' = req
  BY DEF Accept, Restart, Crash, ReadEnd, Busy, Invalid, Respond
<1>2. \A a, c : Unspent(a, c)' \subseteq Unspent(a, c)
  <2>1. CASE otp_db' = otp_db
    BY <2>1 DEF Unspent, Of
  <2>2. CASE Crash
    BY <2>2 DEF Crash, Unspent, Of, Blank
  <2> QED
    BY <2>1, <2>2 DEF Accept, Restart, ReadEnd, Busy, Invalid, Respond
<1>3. ASSUME NEW w \in Workers,
             \/ inbox'[w].status = 1 \/ (serving' = w /\ answer'.status = 1)
      PROVE  inbox[w].status = 1 \/ (serving = w /\ answer.status = 1)
  <2>1. CASE Accept
    BY <1>3, <2>1 DEF Accept, TypeOK, ConnectionInv, Nothing
  <2>2. CASE Restart
    BY <1>3, <2>2 DEF Restart
  <2>3. CASE Crash
    BY <1>3, <2>3 DEF Crash, TypeOK, EndOfFile, Nothing
  <2>4. ASSUME NEW v \in Workers, ReadEnd(v) \/ Busy(v) \/ Invalid(v)
        PROVE  inbox[w].status = 1 \/ (serving = w /\ answer.status = 1)
    BY <1>3, <2>4 DEF ReadEnd, Busy, Invalid, TypeOK, Failure
  <2>5. ASSUME NEW v \in Workers, Respond(v)
        PROVE  inbox[w].status = 1 \/ (serving = w /\ answer.status = 1)
    BY <1>3, <2>5 DEF Respond, TypeOK, Nothing
  <2> QED
    BY <2>1, <2>2, <2>3, <2>4, <2>5
<1>4. \A a, c : Told(a, c)' \subseteq Told(a, c)
  BY <1>1, <1>3 DEF Told
<1> QED
  BY <1>1, <1>2, <1>4, CreditKept

\* A code issued is a code to be spent, and takes the place of at most another.
LEMMA GenerateCredit ==
  ASSUME TypeOK, ConnectionInv, CreditInv, NEW w \in Workers, NEW d \in Codes, Generate(w, d)
  PROVE  CreditInv'
<1> DEFINE b == req[w].account
<1>1. /\ credit' = [credit EXCEPT ![b][d] = @ + 1] /\ req' = req /\ inbox' = inbox
      /\ serving = w /\ serving' = w /\ req[w].op = "generate"
  BY DEF Generate, Reading, callers
<1>2. b \in Accounts
  BY <1>1 DEF TypeOK, Requests, NoRequest
<1>3. PICK s \in Slots :
        /\ First(Of(b)', s) /\ (otp_db[s].otp)' = d
        /\ \A t \in Slots \ {s} : otp_db'[t] = otp_db[t]
        /\ \A a : a # b => Of(a)' = Of(a) /\ s \notin Of(a)
  <2>1. req[w].account' = req[w].account
    BY <1>1
  <2> QED
    BY <2>1, GenerateFirst
<1>4. \A a, c : Told(a, c)' \subseteq Told(a, c)
  BY <1>1 DEF Told
<1>5. ASSUME NEW a, NEW c
      PROVE  Unspent(a, c)' \subseteq
               IF a = b /\ c = d THEN Unspent(a, c) \cup {s} ELSE Unspent(a, c)
  <2>1. CASE a = b
    BY <1>3, <2>1 DEF Unspent, Of
  <2>2. CASE a # b
    BY <1>3, <2>2 DEF Unspent, Of
  <2> QED
    BY <2>1, <2>2
<1> SUFFICES ASSUME NEW a \in Accounts, NEW c \in Codes
             PROVE  credit'[a][c] >= Cardinality(Unspent(a, c)') + Cardinality(Told(a, c)')
  BY DEF CreditInv
<1> DEFINE u == Unspent(a, c)   v == Told(a, c)
           u2 == Unspent(a, c)'  v2 == Told(a, c)'
<1>6. IsFiniteSet(u) /\ IsFiniteSet(v) /\ Cardinality(u) \in Nat /\ Cardinality(v) \in Nat
  BY Countable
<1>7. credit[a][c] \in Int /\ credit[a][c] >= Cardinality(u) + Cardinality(v)
  BY DEF CreditInv, TypeOK
<1>8. credit'[a][c] = IF a = b /\ c = d THEN credit[a][c] + 1 ELSE credit[a][c]
  BY <1>1, <1>2 DEF TypeOK
<1>9. u2 \subseteq IF a = b /\ c = d THEN u \cup {s} ELSE u
  BY <1>5
<1>10. v2 \in SUBSET v
  BY <1>4
<1> HIDE DEF u, v, u2, v2
<1>11. /\ IsFiniteSet(u \cup {s}) /\ Cardinality(u \cup {s}) \in Nat
       /\ Cardinality(u \cup {s}) <= Cardinality(u) + 1
  <2>1. /\ IsFiniteSet(u \cup {s})
        /\ Cardinality(u \cup {s})
             = IF s \in u THEN Cardinality(u) ELSE Cardinality(u) + 1
    BY <1>6, FS_AddElement
  <2>2. Cardinality(u) \in Nat
    BY <1>6, FS_CardinalityType
  <2> QED
    BY <2>1, <2>2
<1>12. /\ Cardinality(u2) <= IF a = b /\ c = d THEN Cardinality(u) + 1 ELSE Cardinality(u)
       /\ Cardinality(u2) \in Nat
  <2>1. CASE a = b /\ c = d
    <3>1. u2 \in SUBSET (u \cup {s})
      BY <1>9, <2>1
    <3>2. IsFiniteSet(u2) /\ Cardinality(u2) <= Cardinality(u \cup {s})
      BY <3>1, <1>11, FS_Subset
    <3> QED
      BY <3>2, <2>1, <1>6, <1>11, FS_CardinalityType
  <2>2. CASE ~(a = b /\ c = d)
    <3>1. u2 \in SUBSET u
      BY <1>9, <2>2
    <3> QED
      BY <3>1, <2>2, <1>6, FS_Subset, FS_CardinalityType
  <2> QED
    BY <2>1, <2>2
<1>13. Cardinality(v2) <= Cardinality(v) /\ Cardinality(v2) \in Nat
  BY <1>6, <1>10, FS_Subset, FS_CardinalityType
<1>14. credit'[a][c] >= Cardinality(u2) + Cardinality(v2)
  BY <1>6, <1>7, <1>8, <1>12, <1>13
<1> QED
  BY <1>14 DEF u2, v2

\* A code spent is one told, to a worker that has not been told before.
LEMMA VerifyCredit ==
  ASSUME TypeOK, ConnectionInv, CreditInv, NEW w \in Workers, Verify(w)
  PROVE  CreditInv'
<1> DEFINE b == req[w].account   d == req[w].otp
<1>1. /\ credit' = credit /\ req' = req /\ inbox' = inbox
      /\ serving = w /\ serving' = w /\ answer = Nothing
  BY DEF Verify, Reading, callers
<1>2. PICK s \in Slots :
        /\ s \in Of(b) /\ otp_db[s].otp = d
        /\ \A t \in Slots \ {s} : otp_db'[t] = otp_db[t]
        /\ \A a : Of(a)' = Of(a) \ {s}
  BY VerifySpends
<1>3. \A a, c : Unspent(a, c)' = Unspent(a, c) \ {s}
  BY <1>2 DEF Unspent, Of
<1>4. \A a, c : Told(a, c)' \subseteq
                  IF a = b /\ c = d THEN Told(a, c) \cup {w} ELSE Told(a, c)
  BY <1>1 DEF Told
<1> SUFFICES ASSUME NEW a \in Accounts, NEW c \in Codes
             PROVE  credit[a][c] >= Cardinality(Unspent(a, c) \ {s}) + Cardinality(Told(a, c)')
  BY <1>1, <1>3 DEF CreditInv
<1> DEFINE u == Unspent(a, c)   v == Told(a, c)   v2 == Told(a, c)'
<1>5. IsFiniteSet(u) /\ IsFiniteSet(v) /\ Cardinality(u) \in Nat /\ Cardinality(v) \in Nat
  BY Countable
<1>6. credit[a][c] \in Int /\ credit[a][c] >= Cardinality(u) + Cardinality(v)
  BY DEF CreditInv, TypeOK
<1>7. a = b /\ c = d => s \in u
  BY <1>2 DEF Unspent
<1>8. v2 \subseteq IF a = b /\ c = d THEN v \cup {w} ELSE v
  BY <1>4
<1> HIDE DEF u, v, v2
<1>9. /\ Cardinality(u \ {s}) = IF s \in u THEN Cardinality(u) - 1 ELSE Cardinality(u)
  BY <1>5, FS_RemoveElement
<1>10. /\ IsFiniteSet(v \cup {w}) /\ Cardinality(v \cup {w}) \in Nat
       /\ Cardinality(v \cup {w}) <= Cardinality(v) + 1
  <2>1. /\ IsFiniteSet(v \cup {w})
        /\ Cardinality(v \cup {w})
             = IF w \in v THEN Cardinality(v) ELSE Cardinality(v) + 1
    BY <1>5, FS_AddElement
  <2>2. Cardinality(v) \in Nat
    BY <1>5, FS_CardinalityType
  <2> QED
    BY <2>1, <2>2
<1>11. CASE a = b /\ c = d
  <2>1. v2 \in SUBSET (v \cup {w})
    BY <1>8, <1>11
  <2>2. IsFiniteSet(v2) /\ Cardinality(v2) <= Cardinality(v \cup {w})
    BY <2>1, <1>10, FS_Subset
  <2>3. Cardinality(v2) \in Nat
    BY <2>2, FS_CardinalityType
  <2>4. credit[a][c] >= Cardinality(u \ {s}) + Cardinality(v2)
    BY <2>2, <2>3, <1>5, <1>6, <1>7, <1>9, <1>10, <1>11
  <2> QED
    BY <2>4 DEF u, v2
<1>12. CASE ~(a = b /\ c = d)
  <2>1. v2 \in SUBSET v
    BY <1>8, <1>12
  <2>2. Cardinality(v2) <= Cardinality(v) /\ Cardinality(v2) \in Nat
    BY <2>1, <1>5, FS_Subset, FS_CardinalityType
  <2>3. credit[a][c] >= Cardinality(u \ {s}) + Cardinality(v2)
    BY <2>2, <1>5, <1>6, <1>9
  <2> QED
    BY <2>3 DEF u, v2
<1> QED
  BY <1>11, <1>12
-----------------------------------------------------------------------------
\* Every step keeps the invariant.
LEMMA StepIInv == ASSUME IInv, [Next]_vars PROVE IInv'
<1>1. CreditInv'
  <2>1. TypeOK /\ ConnectionInv /\ CreditInv
    BY DEF IInv
  <2>2. CASE UNCHANGED vars
    <3>1. \A a, c : Unspent(a, c)' = Unspent(a, c) /\ Told(a, c)' = Told(a, c)
      BY <2>2 DEF Unspent, Of, Told, vars, server, callers
    <3> QED
      BY <2>1, <2>2, <3>1, CreditKept DEF vars, history
  <2> QED
    BY <2>1, <2>2, CallersCredit, ReadCredit, ServiceCredit, GenerateCredit, VerifyCredit
    DEF Next, CallerStep, ServerStep
<1> QED
  BY <1>1, StepTypeOK, StepConnectionInv, StepLatestCodeCompared, StepNobodyForgotten DEF IInv

\* The inductive invariant holds of every behaviour: who holds whose connection,
\* and where every code issued has gone.
THEOREM InvariantHolds == Spec => []IInv
<1>1. IInv /\ [Next]_vars => IInv'
  BY StepIInv
<1> QED
  BY <1>1, InitIInv, PTL DEF Spec

\* The variables of call_otp_service and of handle_client keep their types.
THEOREM TypesHold == Spec => []TypeOK
<1>1. IInv => TypeOK
  BY DEF IInv
<1> QED
  BY <1>1, InvariantHolds, PTL

\* GENERATE and VERIFY agree on the slot: the latest code is the one compared.
THEOREM LatestIsCompared == Spec => []LatestCodeCompared
<1>1. IInv => LatestCodeCompared
  BY DEF IInv
<1> QED
  BY <1>1, InvariantHolds, PTL

\* No code is accepted more often than it was issued: what call_otp_service has
\* said yes to is bounded by what handle_client has put into the table.
THEOREM CodesAreOneTime == Spec => []OneTime
<1>1. IInv => OneTime
  <2> SUFFICES ASSUME IInv, NEW a \in Accounts, NEW c \in Codes PROVE credit[a][c] >= 0
    BY DEF OneTime
  <2>1. credit[a][c] \in Int /\ credit[a][c] >= Cardinality(Unspent(a, c)) + Cardinality(Told(a, c))
    BY DEF IInv, CreditInv, TypeOK
  <2> QED
    BY <2>1, Countable
<1> QED
  BY <1>1, InvariantHolds, PTL

\* A caller in read has a connection in the service's hands, or an answer.
THEOREM NobodyIsForgotten == Spec => []NobodyForgotten
<1>1. IInv => NobodyForgotten
  BY DEF IInv
<1> QED
  BY <1>1, InvariantHolds, PTL
-----------------------------------------------------------------------------
(***************************************************************************)
(* The refinement of OtpPromise.  An entry's place in the pile of its      *)
(* account is one more than the entries of the account before it.          *)
(***************************************************************************)
Before(S, s) == {t \in S : t < s}
Place(S, s) == Cardinality(Before(S, s)) + 1

\* Slots in order: the places of a set of slots are 1, 2, ..., each of one slot.
LEMMA PlacesCount ==
  ASSUME NEW S \in SUBSET Slots
  PROVE  /\ IsFiniteSet(S) /\ Cardinality(S) \in 0..MaxOtps
         /\ \A s \in S : Place(S, s) \in 1..Cardinality(S)
         /\ \A s, t \in S : Place(S, s) = Place(S, t) => s = t
         /\ \A k \in 1..Cardinality(S) : \E s \in S : Place(S, s) = k
<1>1. IsFiniteSet(Slots) /\ Cardinality(Slots) = MaxOtps
  BY FS_Interval DEF Slots
<1>2. IsFiniteSet(S) /\ Cardinality(S) \in 0..MaxOtps
  BY <1>1, FS_Subset, FS_CardinalityType
<1>3. \A T \in SUBSET S : IsFiniteSet(T) /\ Cardinality(T) \in Nat
  BY <1>2, FS_Subset, FS_CardinalityType
<1>4. ASSUME NEW T \in SUBSET S, NEW s \in T
      PROVE  Place(T, s) \in 1..Cardinality(T)
  <2>1. Before(T, s) \in SUBSET T /\ s \notin Before(T, s) /\ s \in Nat
    BY DEF Before, Slots
  <2>2. Cardinality(Before(T, s)) <= Cardinality(T) /\ Cardinality(Before(T, s)) # Cardinality(T)
    BY <1>3, <2>1, FS_Subset
  <2> QED
    BY <1>3, <2>1, <2>2 DEF Place
<1>5. ASSUME NEW s \in S, NEW t \in S, s < t PROVE Place(S, s) < Place(S, t)
  <2>1. Before(S, s) \cup {s} \in SUBSET Before(S, t) /\ s \notin Before(S, s)
    <3>1. S \subseteq Int
      BY DEF Slots
    <3>2. \A u \in S : u < s => u < t
      BY <1>5, <3>1
    <3>3. ~(s < s)
      BY <3>1
    <3> QED
      BY <1>5, <3>2, <3>3 DEF Before
  <2>2. Before(S, s) \in SUBSET S /\ Before(S, t) \in SUBSET S
    BY DEF Before
  <2>3. Cardinality(Before(S, s) \cup {s}) = Cardinality(Before(S, s)) + 1
    BY <1>3, <2>1, <2>2, FS_AddElement
  <2>4. Cardinality(Before(S, s) \cup {s}) <= Cardinality(Before(S, t))
    BY <1>3, <2>1, <2>2, FS_Subset
  <2> QED
    BY <1>3, <2>2, <2>3, <2>4 DEF Place
<1>6. \A s, t \in S : Place(S, s) = Place(S, t) => s = t
  <2>1. S \subseteq Int /\ \A s \in S : Place(S, s) \in Int
    BY <1>4 DEF Slots
  <2> QED
    BY <1>5, <2>1
<1>7. \A k \in 1..Cardinality(S) : \E s \in S : Place(S, s) = k
  <2> DEFINE f == [s \in S |-> Place(S, s)]
  <2>1. f \in Injection(S, 1..Cardinality(S))
    BY <1>4, <1>6 DEF Injection, IsInjective
  <2>2. IsFiniteSet(1..Cardinality(S)) /\ Cardinality(1..Cardinality(S)) = Cardinality(S)
    BY <1>2, FS_Interval
  <2>3. f \in Surjection(S, 1..Cardinality(S))
    BY <2>1, <2>2, FS_Injection
  <2> QED
    BY <2>3 DEF Surjection
<1> QED
  BY <1>2, <1>4, <1>6, <1>7

\* The codes of the slots of S in order.
InOrder(S, db) ==
  [k \in 1..Cardinality(S) |->
     db[CHOOSE s \in S : Cardinality({t \in S : t < s}) = k - 1].otp]

\* The k-th code is that of the slot in place k.
LEMMA InOrderAt ==
  ASSUME NEW S \in SUBSET Slots, NEW db, NEW s \in S
  PROVE  InOrder(S, db)[Place(S, s)] = db[s].otp
<1> DEFINE k == Place(S, s)
           Nth == CHOOSE t \in S : Cardinality({u \in S : u < t}) = k - 1
<1>1. k \in 1..Cardinality(S) /\ \A t \in S : Place(S, t) \in Nat
  BY PlacesCount
<1>2. ASSUME NEW t \in S
      PROVE  Cardinality({u \in S : u < t}) = Place(S, t) - 1
  <2>1. Cardinality(Before(S, t)) \in Int
    <3>1. Before(S, t) \in SUBSET S
      BY DEF Before
    <3> QED
      BY <3>1, PlacesCount, FS_Subset, FS_CardinalityType
  <2> QED
    BY <2>1 DEF Place, Before
<1>3. Nth \in S /\ Cardinality({u \in S : u < Nth}) = k - 1
  <2>1. \E t \in S : Cardinality({u \in S : u < t}) = k - 1
    BY <1>2
  <2> QED
    BY <2>1
<1>4. Place(S, Nth) = k
  BY <1>1, <1>2, <1>3
<1>5. Nth = s
  BY <1>3, <1>4, PlacesCount
<1> QED
  BY <1>1, <1>5 DEF InOrder

\* Two sequences are equal when they are element by element.
LEMMA SeqEqual ==
  ASSUME NEW p \in Seq(Codes), NEW q \in Seq(Codes), Len(p) = Len(q),
         \A k \in 1..Len(p) : p[k] = q[k]
  PROVE  p = q
OBVIOUS

\* Taking the first slot away takes the first code away.
LEMMA FirstInOrder ==
  ASSUME NEW S \in SUBSET Slots, NEW db, NEW m \in Slots, First(S, m),
         \A s \in S : db[s].otp \in Codes
  PROVE  /\ InOrder(S, db) \in Seq(Codes) /\ InOrder(S \ {m}, db) \in Seq(Codes)
         /\ InOrder(S, db) # <<>> /\ Head(InOrder(S, db)) = db[m].otp
         /\ InOrder(S \ {m}, db) = Tail(InOrder(S, db))
<1> DEFINE R == S \ {m}
           n == Cardinality(S)
<1>1. m \in S /\ \A s \in S : m <= s
  BY DEF First
<1>2. R \in SUBSET Slots /\ Cardinality(R) = n - 1 /\ n \in Nat \ {0}
  <2>1. IsFiniteSet(S) /\ n \in Nat
    BY PlacesCount
  <2>2. n # 0 /\ Cardinality(R) = n - 1
    BY <1>1, <2>1, FS_RemoveElement, FS_EmptySet
  <2> QED
    BY <2>1, <2>2
<1>3. Place(S, m) = 1
  <2>1. Before(S, m) = {}
    <3>1. m \in Int /\ \A s \in S : s \in Int
      BY DEF Slots
    <3>2. \A s \in S : ~(s < m)
      BY <1>1, <3>1
    <3> QED
      BY <3>2 DEF Before
  <2> QED
    BY <2>1, FS_EmptySet DEF Place
<1>4. ASSUME NEW s \in R PROVE Place(R, s) = Place(S, s) - 1
  <2>1. /\ Before(S, s) \in SUBSET S /\ m \in Before(S, s)
        /\ Before(R, s) = Before(S, s) \ {m}
    <3>1. m \in Int /\ s \in Int /\ s # m
      BY DEF Slots
    <3>2. m < s
      BY <1>1, <3>1
    <3> QED
      BY <1>1, <3>2 DEF Before
  <2>2. IsFiniteSet(Before(S, s)) /\ Cardinality(Before(S, s)) \in Nat
    BY <2>1, PlacesCount, FS_Subset, FS_CardinalityType
  <2>3. Cardinality(Before(R, s)) = Cardinality(Before(S, s)) - 1
    <3>1. Cardinality(Before(S, s) \ {m}) = Cardinality(Before(S, s)) - 1
      BY <2>1, <2>2, FS_RemoveElement
    <3> QED
      BY <2>1, <3>1
  <2> QED
    BY <2>2, <2>3 DEF Place
<1>5. ASSUME NEW T \in SUBSET S, NEW k \in 1..Cardinality(T)
      PROVE  \E s \in T : Place(T, s) = k /\ InOrder(T, db)[k] = db[s].otp
  BY PlacesCount, InOrderAt
<1>6. ASSUME NEW T \in SUBSET S
      PROVE  /\ Cardinality(T) \in Nat /\ InOrder(T, db) \in Seq(Codes)
             /\ Len(InOrder(T, db)) = Cardinality(T)
  <2>1. Cardinality(T) \in Nat
    BY PlacesCount
  <2>2. \A k \in 1..Cardinality(T) : InOrder(T, db)[k] \in Codes
    BY <1>5
  <2>3. InOrder(T, db) \in [1..Cardinality(T) -> Codes]
    BY <2>2 DEF InOrder
  <2>4. Len(InOrder(T, db)) = Cardinality(T)
    BY <2>1 DEF InOrder
  <2> QED
    BY <2>1, <2>3, <2>4
<1>7. Head(InOrder(S, db)) = db[m].otp /\ InOrder(S, db) # <<>>
  BY <1>1, <1>2, <1>3, <1>6, InOrderAt
<1>8. ASSUME NEW k \in 1..(n - 1)
      PROVE  InOrder(R, db)[k] = Tail(InOrder(S, db))[k]
  <2>1. PICK s \in R : Place(R, s) = k /\ InOrder(R, db)[k] = db[s].otp
    BY <1>2, <1>5
  <2>2. Place(S, s) = k + 1
    <3>1. Place(S, s) \in Nat
      BY PlacesCount
    <3> QED
      BY <1>4, <2>1, <3>1
  <2>3. InOrder(S, db)[k + 1] = db[s].otp
    BY <2>2, InOrderAt
  <2> QED
    BY <1>2, <1>6, <2>1, <2>3
<1> QED
  <2>1. InOrder(R, db) \in Seq(Codes) /\ Len(InOrder(R, db)) = n - 1
    BY <1>2, <1>6
  <2>2. Tail(InOrder(S, db)) \in Seq(Codes) /\ Len(Tail(InOrder(S, db))) = n - 1
    BY <1>2, <1>6, <1>7
  <2>3. InOrder(R, db) = Tail(InOrder(S, db))
    <3> HIDE DEF n, R
    <3> QED
      BY <1>8, <2>1, <2>2, SeqEqual
  <2> QED
    BY <1>6, <1>7, <2>1, <2>3

\* The codes in order depend on the codes of the slots only.
LEMMA InOrderSame ==
  ASSUME NEW S \in SUBSET Slots, NEW d, NEW e, \A s \in S : d[s].otp = e[s].otp
  PROVE  InOrder(S, d) = InOrder(S, e)
<1>1. \A k \in 1..Cardinality(S) : InOrder(S, d)[k] = InOrder(S, e)[k]
  <2> TAKE k \in 1..Cardinality(S)
  <2>1. PICK s \in S : Place(S, s) = k
    BY PlacesCount
  <2>2. InOrder(S, d)[Place(S, s)] = d[s].otp /\ InOrder(S, e)[Place(S, s)] = e[s].otp
    BY InOrderAt
  <2> QED
    BY <2>1, <2>2
<1>2. /\ InOrder(S, d) = [k \in 1..Cardinality(S) |-> InOrder(S, d)[k]]
      /\ InOrder(S, e) = [k \in 1..Cardinality(S) |-> InOrder(S, e)[k]]
  BY DEF InOrder
<1> QED
  BY <1>1, <1>2

\* A used entry is that of an account.
UsedInv ==
  \A s \in Slots :
    otp_db[s].used => otp_db[s].account \in Accounts /\ otp_db[s].otp \in Codes

\* At the start no slot is used.
LEMMA InitUsed == Init => UsedInv
BY DEF Init, UsedInv, Blank

\* GENERATE writes an account and a code; no other step fills a slot.
LEMMA StepUsed ==
  ASSUME TypeOK, UsedInv, [Next]_vars PROVE UsedInv'
<1>1. ASSUME NEW w \in Workers, NEW c \in Codes, Generate(w, c) PROVE UsedInv'
  <2>1. PICK s \in Slots : 
          otp_db' = [otp_db EXCEPT ![s] = [account |-> req[w].account, otp |-> c, used |-> TRUE]]
    BY <1>1 DEF Generate
  <2>2. req[w].account \in Accounts
    BY <1>1 DEF Generate, Reading, TypeOK, Requests, NoRequest
  <2>3. \A t \in Slots :
          otp_db'[t] = IF t = s THEN [account |-> req[w].account, otp |-> c, used |-> TRUE]
                                ELSE otp_db[t]
    BY <2>1 DEF TypeOK
  <2> QED
    BY <2>2, <2>3 DEF UsedInv
<1>2. ASSUME NEW w \in Workers, Verify(w) PROVE UsedInv'
  <2>1. PICK s \in Slots : otp_db' = [otp_db EXCEPT ![s].used = FALSE]
    BY <1>2 DEF Verify
  <2>2. ~otp_db'[s].used /\ \A t \in Slots \ {s} : otp_db'[t] = otp_db[t]
    BY <2>1 DEF TypeOK, Entries
  <2> QED
    BY <2>2 DEF UsedInv
<1>3. CASE Crash
  BY <1>3 DEF Crash, UsedInv, Blank
<1>4. CASE UNCHANGED otp_db
  BY <1>4 DEF UsedInv
<1> QED
  BY <1>1, <1>2, <1>3, <1>4 DEF Next, CallerStep, ServerStep, vars, server, callers, Call,
     ConnectFails, Connect, Write, Read, Hangup, Die, Accept, ReadEnd, Busy, Invalid, Respond,
     Restart

\* The slots that have an entry.
Used == {s \in Slots : otp_db[s].used}

\* A pile is the codes of its account's slots in order.
LEMMA PileIsInOrder == \A a : Pile(a) = InOrder(Of(a), otp_db) /\ Of(a) \in SUBSET Slots
BY DEF Pile, InOrder, Of

\* The entries of the piles are as many as the used slots.
LEMMA OutstandingIsUsed ==
  ASSUME UsedInv
  PROVE  /\ P!Outstanding = Cardinality(Used)
         /\ Cardinality(Used) \in 0..MaxOtps
         /\ Cardinality(Used) = MaxOtps <=> Used = Slots
<1> DEFINE T == {p \in Accounts \X (1..MaxOtps) : p[2] <= Cardinality(Of(p[1]))}
           f == [s \in Used |-> <<otp_db[s].account, Place(Of(otp_db[s].account), s)>>]
<1>1. Used \in SUBSET Slots /\ \A a : Of(a) \in SUBSET Slots
  BY DEF Used, Of
<1>2. IsFiniteSet(Used) /\ Cardinality(Used) \in 0..MaxOtps
  BY <1>1, PlacesCount
<1>3. Cardinality(Used) = MaxOtps <=> Used = Slots
  <2>1. IsFiniteSet(Slots) /\ Cardinality(Slots) = MaxOtps
    BY FS_Interval DEF Slots
  <2> QED
    BY <1>1, <2>1, FS_Subset
<1>4. P!Outstanding = Cardinality(T)
  <2>1. \A a : Len(Pile(a)) = Cardinality(Of(a))
    BY <1>1, PlacesCount, PileIsInOrder DEF InOrder
  <2>2. P!Outstanding = Cardinality({p \in Accounts \X (1..MaxOtps) : p[2] <= Len(Piles[p[1]])})
    BY DEF P!Outstanding, P!Cardinality, Cardinality
  <2>3. \A p \in Accounts \X (1..MaxOtps) : Len(Piles[p[1]]) = Cardinality(Of(p[1]))
    BY <2>1 DEF Piles
  <2>4. {p \in Accounts \X (1..MaxOtps) : p[2] <= Len(Piles[p[1]])} = T
    BY <2>3
  <2> QED
    BY <2>2, <2>4
<1>5. \A s \in Used : /\ otp_db[s].account \in Accounts /\ s \in Of(otp_db[s].account)
                      /\ Place(Of(otp_db[s].account), s) \in 1..Cardinality(Of(otp_db[s].account))
  <2>1. \A s \in Used : otp_db[s].account \in Accounts /\ s \in Of(otp_db[s].account)
    BY DEF UsedInv, Used, Of
  <2> QED
    BY <1>1, <2>1, PlacesCount
<1>6. f \in [Used -> T]
  <2>1. ASSUME NEW s \in Used PROVE f[s] \in T
    <3>1. Cardinality(Of(otp_db[s].account)) \in 0..MaxOtps
      BY <1>1, PlacesCount
    <3> QED
      BY <1>5, <3>1
  <2> QED
    BY <2>1
<1>7. \A s, t \in Used : f[s] = f[t] => s = t
  <2> TAKE s, t \in Used
  <2> HAVE f[s] = f[t]
  <2>1. /\ otp_db[s].account = otp_db[t].account
        /\ Place(Of(otp_db[s].account), s) = Place(Of(otp_db[s].account), t)
    OBVIOUS
  <2> QED
    BY <1>1, <1>5, <2>1, PlacesCount
<1>8. \A p \in T : \E s \in Used : f[s] = p
  <2> TAKE p \in T
  <2>1. p[1] \in Accounts /\ p[2] \in 1..Cardinality(Of(p[1])) /\ p = <<p[1], p[2]>>
    <3>1. Cardinality(Of(p[1])) \in 0..MaxOtps
      BY <1>1, PlacesCount
    <3> QED
      BY <3>1
  <2>2. PICK s \in Of(p[1]) : Place(Of(p[1]), s) = p[2]
    BY <1>1, <2>1, PlacesCount
  <2>3. s \in Used /\ otp_db[s].account = p[1]
    BY <2>2 DEF Of, Used
  <2> QED
    BY <2>1, <2>2, <2>3
<1>9. f \in Bijection(Used, T)
  BY <1>6, <1>7, <1>8 DEF Bijection, Injection, Surjection, IsInjective
<1>10. Cardinality(T) = Cardinality(Used)
  BY <1>2, <1>9, FS_Bijection DEF ExistsBijection
<1> QED
  BY <1>2, <1>3, <1>4, <1>10

-----------------------------------------------------------------------------
\* What the promise calls requests and answers is what the code does.
LEMMA SamePromise ==
  /\ P!Requests = Requests /\ P!NoRequest = NoRequest /\ P!Failure = Failure
BY DEF P!Requests, Requests, P!NoRequest, NoRequest, P!Failure, Failure

\* A search that can find a slot finds a first one.
LEMMA HasFirst ==
  ASSUME NEW S \in SUBSET Slots, S # {} PROVE \E s \in S : First(S, s)
<1>1. IsFiniteSet(S) /\ Cardinality(S) \in Nat \ {0}
  BY PlacesCount, FS_EmptySet
<1>2. PICK s \in S : Place(S, s) = 1
  BY <1>1, PlacesCount
<1>3. Before(S, s) = {}
  <2>1. Before(S, s) \in SUBSET S
    BY DEF Before
  <2>2. IsFiniteSet(Before(S, s)) /\ Cardinality(Before(S, s)) \in Nat
    BY <1>1, <2>1, FS_Subset, FS_CardinalityType
  <2>3. Cardinality(Before(S, s)) = 0
    BY <1>2, <2>2 DEF Place
  <2> QED
    BY <2>2, <2>3, FS_EmptySet
<1>4. s \in Int /\ \A t \in S : t \in Int /\ ~(t < s)
  BY <1>3 DEF Before, Slots
<1> QED
  BY <1>4 DEF First

\* The pile of an account without entries is empty.
LEMMA NoneInOrder == \A db : InOrder({}, db) = <<>>
BY FS_EmptySet DEF InOrder

LEMMA NoTop == \A a \in Accounts : Of(a) = {} => Piles[a] = <<>>
BY NoneInOrder, PileIsInOrder DEF Piles

\* The first entry of an account is the top of its pile.
LEMMA TopIsFirst ==
  ASSUME UsedInv, NEW a \in Accounts, NEW m \in Slots, First(Of(a), m)
  PROVE  /\ Piles[a] \in Seq(Codes) /\ Piles[a] # <<>> /\ Head(Piles[a]) = otp_db[m].otp
         /\ InOrder(Of(a) \ {m}, otp_db) = Tail(Piles[a])
<1>1. Of(a) \in SUBSET Slots /\ \A s \in Of(a) : otp_db[s].otp \in Codes
  BY DEF Of, UsedInv
<1>2. Piles[a] = InOrder(Of(a), otp_db)
  BY PileIsInOrder DEF Piles
<1>3. /\ InOrder(Of(a), otp_db) \in Seq(Codes) /\ InOrder(Of(a), otp_db) # <<>>
      /\ Head(InOrder(Of(a), otp_db)) = otp_db[m].otp
      /\ InOrder(Of(a) \ {m}, otp_db) = Tail(InOrder(Of(a), otp_db))
  <2> DEFINE S == Of(a)
  <2>1. S \in SUBSET Slots /\ \A s \in S : otp_db[s].otp \in Codes
    BY <1>1
  <2>2. First(S, m)
    OBVIOUS
  <2> HIDE DEF S
  <2>3. /\ InOrder(S, otp_db) \in Seq(Codes) /\ InOrder(S, otp_db) # <<>>
        /\ Head(InOrder(S, otp_db)) = otp_db[m].otp
        /\ InOrder(S \ {m}, otp_db) = Tail(InOrder(S, otp_db))
    BY <2>1, <2>2, FirstInOrder
  <2> QED
    BY <2>3 DEF S
<1> QED
  BY <1>2, <1>3

\* The next state's piles, told of any account the same way.
LEMMA PileAfter ==
  \A a \in Accounts : Piles'[a] = InOrder(Of(a)', otp_db') /\ Of(a)' \in SUBSET Slots
<1>1. \A a : Pile(a)' = InOrder(Of(a)', otp_db')
  BY DEF Pile, InOrder, Of
<1>2. \A a : Of(a)' \in SUBSET Slots
  BY DEF Of, Slots
<1> QED
  BY <1>1, <1>2 DEF Piles

\* A pile stays as long as its entries do.
LEMMA PileStays ==
  ASSUME NEW a \in Accounts, Of(a)' = Of(a), \A s \in Of(a) : otp_db'[s] = otp_db[s]
  PROVE  Piles'[a] = Piles[a]
<1>1. Of(a) \in SUBSET Slots /\ InOrder(Of(a), otp_db') = InOrder(Of(a), otp_db)
  BY InOrderSame, PileIsInOrder
<1> QED
  BY <1>1, PileIsInOrder, PileAfter DEF Piles

\* Steps that leave the table alone leave the piles alone.
LEMMA PilesStay == UNCHANGED otp_db => UNCHANGED Piles
BY DEF Piles, Pile, Of

\* handle_client has computed the response r to w's request.
LEMMA Performed ==
  ASSUME TypeOK, ConnectionInv, NEW w \in Workers, NEW op, Reading(w, op),
         NEW r \in Responses, answer' = r, UNCHANGED <<serving, up, backlog, callers>>
  PROVE  P!Effect(w, op, r)
<1>1. /\ AnswerOf(w) = Nothing /\ AnswerOf(w)' = r /\ r # Nothing
      /\ \A v \in Workers \ {w} : AnswerOf(v)' = AnswerOf(v)
  BY DEF ConnectionInv, Reading, AnswerOf, Responses, Nothing, callers
<1>2. PhaseOf(w) = "called" /\ PhaseOf(w)' = "done"
  BY <1>1 DEF PhaseOf, Reading, callers
<1>3. \A v \in Workers \ {w} : PhaseOf(v)' = PhaseOf(v)
  BY <1>1 DEF PhaseOf, callers
<1>4. Phases' = [Phases EXCEPT ![w] = "done"] /\ Phases[w] = "called"
  BY <1>2, <1>3 DEF Phases
<1>5. Outcomes' = [Outcomes EXCEPT ![w] = r]
  <2>1. \A v \in Workers : Outcomes'[v] = IF v = w THEN r ELSE Outcomes[v]
    BY <1>1 DEF Outcomes
  <2> QED
    BY <2>1 DEF Outcomes
<1> QED
  BY <1>4, <1>5 DEF P!Effect, Reading, callers

\* The calls look as they did when neither their places nor their answers move.
LEMMA CallsStay ==
  ASSUME \A v \in Workers : PhaseOf(v)' = PhaseOf(v) /\ AnswerOf(v)' = AnswerOf(v)
  PROVE  UNCHANGED <<Phases, Outcomes>>
BY DEF Phases, Outcomes
-----------------------------------------------------------------------------
\* A call of a worker starts a call of the promise.
LEMMA CallStarts ==
  ASSUME TypeOK, ConnectionInv, NEW w \in Workers, NEW r \in Requests, Call(w, r)
  PROVE  P!Start(w, r)
<1>1. /\ AnswerOf(w) = Nothing /\ AnswerOf(w)' = Nothing
      /\ \A v \in Workers \ {w} : AnswerOf(v)' = AnswerOf(v)
  BY DEF ConnectionInv, Call, At, AnswerOf, TypeOK, server
<1>2. /\ PhaseOf(w) = "idle" /\ PhaseOf(w)' = "called"
      /\ \A v \in Workers \ {w} : PhaseOf(v)' = PhaseOf(v)
  BY <1>1 DEF Call, At, PhaseOf, TypeOK
<1>3. Phases' = [Phases EXCEPT ![w] = "called"] /\ Phases[w] = "idle"
  BY <1>2 DEF Phases
<1>4. UNCHANGED Outcomes
  BY <1>1 DEF Outcomes
<1>5. UNCHANGED Piles
  BY PilesStay DEF Call, server
<1> QED
  BY <1>3, <1>4, <1>5 DEF P!Start, Call, At, server

\* A worker that hangs up has ended its call.
LEMMA HangupEnds ==
  ASSUME TypeOK, ConnectionInv, NEW w \in Workers, alive[w], Hangup(w),
         pc[w] = "connect" \/ (pc[w] = "read" /\ inbox[w] # Nothing)
  PROVE  P!Over(w)
<1>1. serving # w
  BY DEF ConnectionInv
<1>2. /\ AnswerOf(w)' = Nothing /\ PhaseOf(w)' = "idle"
      /\ \A v \in Workers \ {w} : AnswerOf(v)' = AnswerOf(v) /\ PhaseOf(v)' = PhaseOf(v)
  BY <1>1 DEF Hangup, AnswerOf, PhaseOf, TypeOK, server
<1>3. Phases' = [Phases EXCEPT ![w] = "idle"]
  BY <1>2 DEF Phases
<1>4. Outcomes' = [Outcomes EXCEPT ![w] = Failure]
  <2>1. \A v \in Workers : Outcomes'[v] = IF v = w THEN Failure ELSE Outcomes[v]
    BY <1>2 DEF Outcomes
  <2> QED
    BY <2>1 DEF Outcomes
<1>5. UNCHANGED Piles
  BY PilesStay DEF Hangup, server
<1> QED
  BY <1>3, <1>4, <1>5, SamePromise DEF P!Over, Hangup, server

\* read has returned, or connect has failed.
LEMMA CallEnds ==
  ASSUME TypeOK, ConnectionInv, NEW w \in Workers, Read(w) \/ ConnectFails(w)
  PROVE  P!Return(w) \/ P!GiveUp(w)
<1>1. CASE Read(w)
  <2>1. alive[w] /\ Hangup(w) /\ pc[w] = "read" /\ inbox[w] # Nothing
    BY <1>1 DEF Read, At
  <2>2. AnswerOf(w) # Nothing
    BY <2>1 DEF AnswerOf, Failure, Nothing
  <2>3. Phases[w] = "done"
    BY <2>1, <2>2 DEF Phases, PhaseOf
  <2> QED
    BY <2>1, <2>3, HangupEnds DEF P!Return
<1>2. CASE ConnectFails(w)
  <2>1. alive[w] /\ Hangup(w) /\ pc[w] = "connect"
    BY <1>2 DEF ConnectFails, At
  <2>2. AnswerOf(w) = Nothing
    BY <2>1 DEF AnswerOf, ConnectionInv
  <2>3. Phases[w] = "called"
    BY <2>1, <2>2 DEF Phases, PhaseOf
  <2> QED
    BY <2>1, <2>3, HangupEnds DEF P!GiveUp
<1> QED
  BY <1>1, <1>2

\* Connecting, writing, accepting, reading the end of a connection and writing
\* the response are not seen.
LEMMA ConnectionsUnseen ==
  ASSUME TypeOK, ConnectionInv,
         Accept \/ \E w \in Workers : Connect(w) \/ Write(w) \/ ReadEnd(w) \/ Respond(w)
  PROVE  UNCHANGED P!vars
<1> DEFINE Same == \A v \in Workers : PhaseOf(v)' = PhaseOf(v) /\ AnswerOf(v)' = AnswerOf(v)
<1>1. Same
  <2>1. CASE Accept
    <3>1. answer = Nothing
      BY <2>1 DEF Accept, ConnectionInv, OtpAssumption
    <3> QED
      BY <2>1, <3>1 DEF Accept, AnswerOf, PhaseOf, callers
  <2>2. ASSUME NEW w \in Workers, Connect(w) PROVE Same
    <3>1. inbox[w] = Nothing /\ serving # w
      BY <2>2 DEF Connect, At, ConnectionInv
    <3> QED
      BY <2>2, <3>1 DEF Connect, At, AnswerOf, PhaseOf, TypeOK, server
  <2>3. ASSUME NEW w \in Workers, Write(w) PROVE Same
    BY <2>3 DEF Write, At, AnswerOf, PhaseOf, TypeOK, server
  <2>4. ASSUME NEW w \in Workers, ReadEnd(w) PROVE Same
    BY <2>4 DEF ReadEnd, AnswerOf, PhaseOf, callers
  <2>5. ASSUME NEW w \in Workers, Respond(w) PROVE Same
    <3>1. /\ pc[w] = "read" /\ inbox[w] = Nothing
          /\ answer \in Responses /\ answer # EndOfFile /\ answer # Nothing
      BY <2>5 DEF Respond, ConnectionInv, TypeOK, Responses, EndOfFile
    <3>2. inbox' = [inbox EXCEPT ![w] = answer]
      BY <2>5 DEF Respond
    <3> QED
      BY <2>5, <3>1, <3>2 DEF Respond, AnswerOf, PhaseOf, TypeOK
  <2> QED
    BY <2>1, <2>2, <2>3, <2>4, <2>5
<1>2. UNCHANGED <<otp_db, up, req, alive>>
  BY DEF Accept, Connect, Write, ReadEnd, Respond, server, callers
<1> QED
  BY <1>1, <1>2, CallsStay, PilesStay DEF P!vars

\* A kill is a kill.
LEMMA DieKills == ASSUME NEW w \in Workers, Die(w) PROVE P!Kill(w)
<1>1. \A v \in Workers : PhaseOf(v)' = PhaseOf(v) /\ AnswerOf(v)' = AnswerOf(v)
  BY DEF Die, AnswerOf, PhaseOf, server
<1> QED
  BY <1>1, CallsStay, PilesStay DEF Die, P!Kill, server

\* Starting again is starting again.
LEMMA RestartRestarts == Restart => P!Restart
<1> SUFFICES ASSUME Restart PROVE P!Restart
  OBVIOUS
<1>1. \A v \in Workers : PhaseOf(v)' = PhaseOf(v) /\ AnswerOf(v)' = AnswerOf(v)
  BY DEF Restart, AnswerOf, PhaseOf, callers
<1> QED
  BY <1>1, CallsStay, PilesStay DEF Restart, P!Restart, callers

\* A crash cuts the calls that have a connection and no answer yet.
LEMMA CrashCuts == ASSUME TypeOK, ConnectionInv, Crash PROVE P!Crash
<1> DEFINE cut == {w \in Workers : pc[w] \in {"write", "read"} /\ inbox[w] = Nothing}
<1>1. ASSUME NEW w \in cut
      PROVE  PhaseOf(w)' = "done" /\ AnswerOf(w)' = Failure /\ PhaseOf(w) # "idle"
  <2>1. inbox'[w] = EndOfFile /\ pc'[w] \in {"write", "read"} /\ pc' = pc
    BY <1>1 DEF Crash
  <2>2. w \in Workers /\ pc[w] \in {"write", "read"}
    BY <1>1
  <2>3. EndOfFile # Nothing /\ Failure # Nothing
    BY DEF EndOfFile, Nothing, Failure
  <2>4. AnswerOf(w)' = Failure
    <3>1. serving' # w
      BY <2>2 DEF Crash, OtpAssumption
    <3> QED
      BY <2>1, <2>3, <3>1 DEF AnswerOf
  <2>5. PhaseOf(w) # "idle" /\ PhaseOf(w)' = "done"
    BY <2>1, <2>2, <2>3, <2>4 DEF PhaseOf
  <2> QED
    BY <2>4, <2>5
<1>2. ASSUME NEW w \in Workers \ cut PROVE PhaseOf(w)' = PhaseOf(w) /\ AnswerOf(w)' = AnswerOf(w)
  <2>1. inbox'[w] = inbox[w] /\ pc' = pc /\ serving # w /\ serving' # w
    BY <1>2 DEF Crash, ConnectionInv, TypeOK, OtpAssumption
  <2> QED
    BY <2>1 DEF AnswerOf, PhaseOf
<1>3. cut \in SUBSET {w \in Workers : Phases[w] # "idle"}
  BY <1>1 DEF Phases
<1>4. Phases' = [w \in Workers |-> IF w \in cut THEN "done" ELSE Phases[w]]
  <2>1. \A w \in Workers : Phases'[w] = IF w \in cut THEN "done" ELSE Phases[w]
    BY <1>1, <1>2 DEF Phases
  <2> QED
    BY <2>1 DEF Phases
<1>5. Outcomes' = [w \in Workers |-> IF w \in cut THEN P!Failure ELSE Outcomes[w]]
  <2>1. \A w \in Workers : Outcomes'[w] = IF w \in cut THEN P!Failure ELSE Outcomes[w]
    BY <1>1, <1>2, SamePromise DEF Outcomes
  <2> QED
    BY <2>1 DEF Outcomes
<1>6. Piles' = [a \in Accounts |-> <<>>]
  <2>1. \A a \in Accounts : Of(a)' = {}
    BY DEF Crash, Of, Blank
  <2>2. \A a \in Accounts : Piles'[a] = <<>>
    BY <2>1, PileAfter, NoneInOrder
  <2> QED
    BY <2>2 DEF Piles
<1> HIDE DEF cut
<1> QED
  BY <1>3, <1>4, <1>5, <1>6 DEF P!Crash, Crash
-----------------------------------------------------------------------------
\* Where an account's top entry is, and whether a login names its code.
LEMMA TopNamed ==
  ASSUME UsedInv, NEW r, r.account \in Accounts
  PROVE  P!OnTop(r) <=> \E s \in Slots : Matches(r.account, r.otp, s)
<1> DEFINE a == r.account
<1>1. CASE Of(a) = {}
  BY <1>1, NoTop DEF P!OnTop, Matches, First
<1>2. CASE Of(a) # {}
  <2>1. PICK m \in Of(a) : First(Of(a), m)
    BY <1>2, HasFirst, PileIsInOrder
  <2>2. m \in Slots /\ \A s \in Slots : First(Of(a), s) => s = m
    BY <2>1 DEF First, Of, Slots
  <2>3. Piles[a] # <<>> /\ Head(Piles[a]) = otp_db[m].otp
    BY <2>1, <2>2, TopIsFirst
  <2> QED
    BY <2>1, <2>2, <2>3 DEF P!OnTop, Matches
<1> QED
  BY <1>1, <1>2

\* VERIFY with another code, or without one, is refused.
LEMMA InvalidRefused ==
  ASSUME TypeOK, ConnectionInv, UsedInv, NEW w \in Workers, Invalid(w)
  PROVE  P!Refuse(w)
<1>1. req[w].account \in Accounts
  BY DEF Invalid, Reading, TypeOK, Requests, NoRequest
<1>2. ~P!OnTop(req[w])
  BY <1>1, TopNamed DEF Invalid
<1>3. P!Effect(w, "verify", Failure)
  BY Performed DEF Invalid, Responses, Failure
<1>4. UNCHANGED Piles
  BY PilesStay DEF Invalid
<1> QED
  BY <1>2, <1>3, <1>4, SamePromise DEF P!Refuse

\* VERIFY with the code of the first entry takes it from the pile.
LEMMA VerifyTakesTop ==
  ASSUME TypeOK, ConnectionInv, UsedInv, NEW w \in Workers, Verify(w)
  PROVE  P!Spend(w)
<1> DEFINE a == req[w].account
<1>1. a \in Accounts
  BY DEF Verify, Reading, TypeOK, Requests, NoRequest
<1>2. PICK m \in Slots :
        /\ Matches(a, req[w].otp, m)
        /\ otp_db' = [otp_db EXCEPT ![m].used = FALSE]
  BY DEF Verify
<1>3. ~otp_db'[m].used /\ \A t \in Slots \ {m} : otp_db'[t] = otp_db[t]
  BY <1>2 DEF TypeOK, Entries
<1>4. \A b : Of(b)' = Of(b) \ {m}
  BY <1>3 DEF Of
<1>5. First(Of(a), m) /\ m \in Of(a) /\ \A b : b # a => m \notin Of(b)
  BY <1>2 DEF Matches, First, Of
<1>6. Piles'[a] = Tail(Piles[a])
  <2>1. Piles'[a] = InOrder(Of(a) \ {m}, otp_db') /\ Of(a) \ {m} \in SUBSET Slots
    BY <1>1, <1>4, PileAfter, PileIsInOrder
  <2>2. InOrder(Of(a) \ {m}, otp_db') = InOrder(Of(a) \ {m}, otp_db)
    BY <1>3, <2>1, InOrderSame
  <2> QED
    BY <1>1, <1>5, <2>1, <2>2, TopIsFirst
<1>7. ASSUME NEW b \in Accounts, b # a PROVE Piles'[b] = Piles[b]
  <2>1. Of(b)' = Of(b) /\ \A s \in Of(b) : otp_db'[s] = otp_db[s]
    BY <1>3, <1>4, <1>5, <1>7, PileIsInOrder
  <2> QED
    BY <2>1, PileStays
<1>8. Piles' = [Piles EXCEPT ![a] = Tail(@)]
  BY <1>1, <1>6, <1>7 DEF Piles
<1>9. P!OnTop(req[w])
  BY <1>1, <1>2, TopNamed
<1>10. P!Effect(w, "verify", [status |-> 1, otp |-> NoCode])
  BY Performed DEF Verify, Responses
<1> QED
  BY <1>8, <1>9, <1>10 DEF P!Spend

\* GENERATE without a place for the code is denied: every slot has another
\* account's code.
LEMMA BusyDenies ==
  ASSUME TypeOK, ConnectionInv, UsedInv, NEW w \in Workers, Busy(w)
  PROVE  P!Deny(w)
<1> DEFINE a == req[w].account
<1>1. a \in Accounts /\ Places(a) = {}
  BY DEF Busy, Reading, TypeOK, Requests, NoRequest
<1>2. Used = Slots /\ Of(a) = {}
  BY <1>1 DEF Places, Used, Of
<1>3. P!Outstanding = MaxOtps
  BY <1>2, OutstandingIsUsed
<1>4. Piles[a] = <<>>
  BY <1>1, <1>2, NoTop
<1>5. P!Effect(w, "generate", Failure)
  BY Performed DEF Busy, Responses, Failure
<1>6. UNCHANGED Piles
  BY PilesStay DEF Busy
<1> QED
  BY <1>3, <1>4, <1>5, <1>6, SamePromise DEF P!Deny

\* GENERATE puts the code before the account's others, or in the place of the
\* first of them.
LEMMA GenerateIssues ==
  ASSUME TypeOK, ConnectionInv, UsedInv, UsedInv', NEW w \in Workers, NEW c \in Codes,
         Generate(w, c)
  PROVE  P!Issue(w, c)
<1> DEFINE a == req[w].account
<1>1. a \in Accounts
  BY DEF Generate, Reading, TypeOK, Requests, NoRequest
<1>2. PICK s \in Slots :
        /\ First(Places(a), s)
        /\ otp_db' = [otp_db EXCEPT ![s] = [account |-> a, otp |-> c, used |-> TRUE]]
  BY DEF Generate
<1>3. /\ otp_db'[s] = [account |-> a, otp |-> c, used |-> TRUE]
      /\ \A t \in Slots \ {s} : otp_db'[t] = otp_db[t]
  BY <1>2 DEF TypeOK
<1>4. /\ \A b : Of(b)' = IF b = a THEN Of(b) \cup {s} ELSE Of(b)
      /\ \A b : b # a => s \notin Of(b)
  <2>1. ~otp_db[s].used \/ otp_db[s].account = a
    BY <1>2 DEF First, Places
  <2>2. /\ \A b : s \in Of(b)' <=> b = a
        /\ \A b : b # a => s \notin Of(b)
    <3>1. otp_db'[s].used = TRUE /\ otp_db'[s].account = a
      BY <1>3
    <3> QED
      BY <2>1, <3>1 DEF Of
  <2>3. \A b : \A t \in Slots \ {s} : t \in Of(b)' <=> t \in Of(b)
    BY <1>3 DEF Of
  <2>4. \A b : Of(b) \in SUBSET Slots /\ Of(b)' \in SUBSET Slots
    BY DEF Of, Slots
  <2> QED
    BY <2>2, <2>3, <2>4
<1>5. First(Of(a) \cup {s}, s) /\ \A t \in Of(a) : s <= t
  BY <1>2 DEF First, Places, Of, Slots
<1>6. Piles'[a] = <<c>> \o InOrder(Of(a) \ {s}, otp_db)
  <2> DEFINE S == Of(a) \cup {s}
  <2>1. /\ S \in SUBSET Slots /\ \A t \in S : otp_db'[t].otp \in Codes
        /\ First(S, s) /\ Piles'[a] = InOrder(S, otp_db')
    <3>1. S \in SUBSET Slots /\ Piles'[a] = InOrder(S, otp_db')
      BY <1>1, <1>4, PileAfter
    <3>2. \A t \in S : otp_db'[t].otp \in Codes
      <4>1. \A t \in Of(a) : otp_db[t].otp \in Codes
        BY DEF UsedInv, Of
      <4> QED
        BY <1>3, <3>1, <4>1
    <3> QED
      BY <1>5, <3>1, <3>2
  <2> HIDE DEF S
  <2>2. /\ InOrder(S, otp_db') \in Seq(Codes) /\ InOrder(S, otp_db') # <<>>
        /\ Head(InOrder(S, otp_db')) = c
        /\ InOrder(S \ {s}, otp_db') = Tail(InOrder(S, otp_db'))
    <3>1. /\ InOrder(S, otp_db') \in Seq(Codes) /\ InOrder(S, otp_db') # <<>>
          /\ Head(InOrder(S, otp_db')) = otp_db'[s].otp
          /\ InOrder(S \ {s}, otp_db') = Tail(InOrder(S, otp_db'))
      BY <2>1, FirstInOrder
    <3>2. otp_db'[s].otp = c
      BY <1>3
    <3> QED
      BY <3>1, <3>2
  <2>3. InOrder(S \ {s}, otp_db') = InOrder(S \ {s}, otp_db)
    BY <1>3, <2>1, InOrderSame
  <2>4. S \ {s} = Of(a) \ {s}
    BY DEF S
  <2>5. \A p \in Seq(Codes) : p # <<>> => p = <<Head(p)>> \o Tail(p)
    OBVIOUS
  <2> QED
    BY <2>1, <2>2, <2>3, <2>4, <2>5
<1>7. ASSUME NEW b \in Accounts, b # a PROVE Piles'[b] = Piles[b]
  <2>1. Of(b)' = Of(b) /\ \A t \in Of(b) : otp_db'[t] = otp_db[t]
    BY <1>3, <1>4, <1>7, PileIsInOrder
  <2> QED
    BY <2>1, PileStays
<1>8. Piles' = [Piles EXCEPT ![a] = <<c>> \o InOrder(Of(a) \ {s}, otp_db)]
  BY <1>1, <1>6, <1>7 DEF Piles
<1>9. P!Effect(w, "generate", [status |-> 1, otp |-> c])
  BY Performed DEF Generate, Responses
<1>10. CASE s \in Of(a)
  <2>1. First(Of(a), s)
    BY <1>5, <1>10 DEF First
  <2>2. Piles[a] # <<>> /\ InOrder(Of(a) \ {s}, otp_db) = Tail(Piles[a])
    BY <1>1, <2>1, TopIsFirst
  <2> QED
    BY <1>8, <1>9, <2>2 DEF P!Issue
<1>11. CASE s \notin Of(a)
  <2>1. s \in Slots \ Used
    BY <1>2, <1>11 DEF First, Places, Of, Used
  <2>2. P!Outstanding < MaxOtps
    BY <2>1, OutstandingIsUsed
  <2>3. InOrder(Of(a) \ {s}, otp_db) = Piles[a]
    <3>1. Of(a) \ {s} = Of(a)
      BY <1>11
    <3> QED
      BY <1>1, <3>1, PileIsInOrder DEF Piles
  <2> QED
    BY <1>8, <1>9, <2>2, <2>3 DEF P!Issue
<1> QED
  BY <1>10, <1>11
-----------------------------------------------------------------------------
\* The service starts without codes and calls.
LEMMA StartsEmpty == Init => P!Init
<1> SUFFICES ASSUME Init PROVE P!Init
  OBVIOUS
<1>1. \A a \in Accounts : Piles[a] = <<>>
  <2>1. \A a : Of(a) = {}
    BY DEF Init, Of, Blank
  <2> QED
    BY <2>1, NoTop
<1>2. \A w \in Workers : AnswerOf(w) = Nothing /\ PhaseOf(w) = "idle"
  BY DEF Init, AnswerOf, PhaseOf
<1>3. Piles = [a \in Accounts |-> <<>>]
  BY <1>1 DEF Piles
<1> QED
  BY <1>2, <1>3, SamePromise DEF P!Init, Init, Phases, Outcomes

\* Every step of the code is a step of the promise, or unseen.
LEMMA StepKeepsPromise ==
  ASSUME IInv, UsedInv, UsedInv', [Next]_vars PROVE [P!Next]_P!vars
<1>0. TypeOK /\ ConnectionInv
  BY DEF IInv
<1>1. ASSUME NEW w \in Workers, NEW r \in Requests, Call(w, r) PROVE P!Next
  BY <1>0, <1>1, CallStarts, SamePromise DEF P!Next
<1>2. ASSUME NEW w \in Workers, ConnectFails(w) \/ Read(w) \/ Die(w) PROVE P!Next
  BY <1>0, <1>2, CallEnds, DieKills DEF P!Next
<1>3. ASSUME NEW w \in Workers,
             Busy(w) \/ Verify(w) \/ Invalid(w) \/ \E c \in Codes : Generate(w, c)
      PROVE  P!Next
  BY <1>0, <1>3, BusyDenies, VerifyTakesTop, InvalidRefused, GenerateIssues
  DEF P!Next, P!Perform
<1>4. CASE Crash \/ Restart
  BY <1>0, <1>4, CrashCuts, RestartRestarts DEF P!Next
<1>5. CASE Accept \/ \E w \in Workers : Connect(w) \/ Write(w) \/ ReadEnd(w) \/ Respond(w)
  BY <1>0, <1>5, ConnectionsUnseen
<1>6. CASE UNCHANGED vars
  <2>1. \A v \in Workers : PhaseOf(v)' = PhaseOf(v) /\ AnswerOf(v)' = AnswerOf(v)
    BY <1>6 DEF vars, server, callers, AnswerOf, PhaseOf
  <2> QED
    BY <1>6, <2>1, CallsStay, PilesStay DEF vars, server, callers, P!vars
<1> QED
  BY <1>1, <1>2, <1>3, <1>4, <1>5, <1>6 DEF Next, CallerStep, ServerStep

\* handle_client with its table searched from the beginning, call_otp_service,
\* and the crashes of either implement the piles of codes: every call is
\* indivisible and the latest code comes first.
THEOREM ServiceKeepsPromise == Spec => PromiseKept
<1>1. TypeOK /\ UsedInv /\ [Next]_vars => UsedInv'
  BY StepUsed
<1>2. IInv /\ UsedInv /\ UsedInv' /\ [Next]_vars => [P!Next]_P!vars
  BY StepKeepsPromise
<1>3. IInv => TypeOK
  BY DEF IInv
<1> QED
  BY <1>1, <1>2, <1>3, InitUsed, StartsEmpty, InvariantHolds, PTL DEF Spec, PromiseKept, P!Spec
=============================================================================

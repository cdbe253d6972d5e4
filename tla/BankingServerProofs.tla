------------------------ MODULE BankingServerProofs -------------------------
(***************************************************************************)
(* Safety of requests and responses, for any number of clients, workers,   *)
(* packets, accounts and codes.                                            *)
(***************************************************************************)
EXTENDS BankingServer, SequenceTheorems, TLAPS

USE MoneyAssumption, CallsAssumption, ServerAssumption

\* Sums and differences of amounts are amounts.
LEMMA AmountsClosed ==
  ASSUME NEW a \in Money, NEW b \in Money
  PROVE  Add(a, b) \in Money /\ Sub(a, b) \in Money
BY DEF Money, Special, Add, Sub, Negate

\* The names that the database takes from AccountCalls mean the same there.
LEMMA SameInterface ==
  /\ DB!Money = Money /\ DB!Requests = Requests /\ DB!NoRequest = NoRequest
  /\ DB!Codes = Codes /\ DB!Answers = Answers /\ DB!OK = OK
  /\ \A code : DB!Bare(code) = Bare(code)
  /\ \A a, b : DB!Add(a, b) = Add(a, b) /\ DB!Sub(a, b) = Sub(a, b)
BY DEF DB!Money, DB!Special, DB!Requests, DB!NoRequest, DB!Codes, DB!Answers, DB!OK,
  DB!BadArgument, DB!NotFound, DB!Insufficient, DB!Bare, DB!Add, DB!Sub, DB!Negate,
  Money, Special, Requests, NoRequest, Codes, Answers, OK,
  BadArgument, NotFound, Insufficient, Bare, Add, Sub, Negate

\* A call fails with one of the codes.
LEMMA FailuresAreCodes == \A r : DB!Failure(r) \in Codes \ {OK}
<1> TAKE r
<1> DEFINE cause ==
      CASE r.op = "create" /\ DB!Has(r.id)  -> DB!Exists
        [] r.op = "create" /\ ~DB!Has(r.id) -> DB!Full
        [] r.op # "create" /\ ~DB!Has(r.id) -> DB!NotFound
        [] OTHER -> DB!Insufficient
<1> USE DEF Codes, OK, BadArgument, NotFound, Insufficient,
            DB!Exists, DB!Full, DB!NotFound, DB!Insufficient, DB!BadArgument
<1>1. cause \in Codes \ {OK}
  OBVIOUS
<1>2. DB!Failure(r) = IF DB!Rejected(r) THEN DB!BadArgument ELSE cause
  BY DEF DB!Failure
<1>3. DB!BadArgument \in Codes \ {OK}
  OBVIOUS
<1> HIDE DEF cause
<1> QED
  BY <1>1, <1>2, <1>3

\* The steps of the database keep its variables in their types.
LEMMA DatabaseTyped ==
  ASSUME DB!TypeOK, NEW w \in Workers,
         \/ \E r \in Requests : DB!Start(w, r)
         \/ DB!Perform(w) \/ DB!Finish(w) \/ DB!Kill(w)
  PROVE  DB!TypeOK'
<1> USE SameInterface DEF DB!TypeOK
<1>1. \A code \in Codes : Bare(code) \in Answers
  BY DEF Bare, Answers
<1>2. OK \in Codes /\ \A r : DB!Failure(r) \in Codes
  BY FailuresAreCodes DEF Codes
<1>3. CASE \E r \in Requests : DB!Start(w, r)
  BY <1>3 DEF DB!Start
<1>4. CASE DB!Finish(w)
  BY <1>4, <1>1, <1>2 DEF DB!Finish
<1>5. CASE DB!Kill(w)
  BY <1>5 DEF DB!Kill
<1>6. CASE DB!Perform(w)
  <2>1. CASE DB!Refusal(w, req[w])
    BY <2>1, <1>1, <1>2 DEF DB!Refusal, DB!Effect
  <2>2. CASE DB!Opening(w, req[w])
    <3>1. req[w] \in Requests /\ req[w].amount \in Money
      BY <2>2 DEF DB!Opening, Requests, NoRequest
    <3>2. opened < MaxAccounts
      BY <2>2 DEF DB!Opening, DB!Fails
    <3>3. req[w].id \in Ids
      BY <3>1 DEF Requests
    <3>4. bal' \in [Ids -> Money \cup {NoAccount}]
      BY <2>2, <3>1, <3>3 DEF DB!Opening
    <3>5. opened' \in 0..MaxAccounts
      BY <2>2, <3>2 DEF DB!Opening
    <3> QED
      BY <2>2, <3>4, <3>5, <1>1, <1>2 DEF DB!Opening, DB!Effect
  <2>3. CASE DB!Movement(w, req[w])
    <3>1. req[w] \in Requests /\ req[w].amount \in Money /\ req[w].id \in Ids
      BY <2>3 DEF DB!Movement, Requests, NoRequest
    <3>2. bal[req[w].id] \in Money
      BY <2>3, <3>1 DEF DB!Movement, DB!Fails, DB!Has
    <3>3. /\ Add(bal[req[w].id], req[w].amount) \in Money
          /\ Sub(bal[req[w].id], req[w].amount) \in Money
      BY <3>1, <3>2, AmountsClosed
    <3>4. bal' \in [Ids -> Money \cup {NoAccount}] /\ bal'[req[w].id] \in Money
      BY <2>3, <3>1, <3>3 DEF DB!Movement
    <3>5. [code |-> OK, out |-> bal'[req[w].id]] \in Answers
      BY <3>4, <1>2 DEF Answers
    <3> QED
      BY <2>3, <3>4, <3>5 DEF DB!Movement, DB!Effect
  <2>4. CASE DB!Inquiry(w, req[w])
    <3>1. req[w] \in Requests /\ req[w].id \in Ids
      BY <2>4 DEF DB!Inquiry, Requests, NoRequest
    <3>2. bal[req[w].id] \in Money
      BY <2>4, <3>1 DEF DB!Inquiry, DB!Fails, DB!Has
    <3>3. [code |-> OK, out |-> bal[req[w].id]] \in Answers
      BY <3>2, <1>2 DEF Answers
    <3> QED
      BY <2>4, <3>3 DEF DB!Inquiry, DB!Effect
  <2> QED
    BY <1>6, <2>1, <2>2, <2>3, <2>4 DEF DB!Perform
<1> QED
  BY <1>3, <1>4, <1>5, <1>6

\* The steps of the OTP service keep its variables in their types.
LEMMA OtpTyped ==
  ASSUME OTP!TypeOK, NEW w \in Workers,
         \/ \E r \in OTP!Requests : OTP!Start(w, r)
         \/ OTP!Perform(w) \/ OTP!Return(w) \/ OTP!GiveUp(w) \/ OTP!Kill(w)
  PROVE  OTP!TypeOK'
<1> USE DEF OTP!TypeOK
<1>1. OTP!Failure \in OTP!Answers
  BY DEF OTP!Failure, OTP!Answers
<1>2. \A code \in Otps : [status |-> 1, otp |-> code] \in OTP!Answers
  BY DEF OTP!Answers
<1>3. [status |-> 1, otp |-> NoCode] \in OTP!Answers
  BY DEF OTP!Answers
<1>4. CASE \E r \in OTP!Requests : OTP!Start(w, r)
  BY <1>4 DEF OTP!Start
<1>5. CASE OTP!Return(w) \/ OTP!GiveUp(w)
  <2>1. OTP!Over(w)
    BY <1>5 DEF OTP!Return, OTP!GiveUp
  <2>2. /\ ophase' \in [Workers -> {"idle", "called", "done"}]
        /\ oreq' \in [Workers -> OTP!Requests \cup {OTP!NoRequest}]
        /\ oans' \in [Workers -> OTP!Answers]
    BY <2>1, <1>1 DEF OTP!Over
  <2>3. UNCHANGED <<codes, up, alive>>
    BY <2>1 DEF OTP!Over
  <2> QED
    BY <2>2, <2>3
<1>6. CASE OTP!Kill(w)
  BY <1>6 DEF OTP!Kill
<1>7. CASE OTP!Perform(w)
  <2>1. ASSUME NEW op, NEW a \in OTP!Answers, OTP!Effect(w, op, a),
               codes' \in [Ids -> Seq(Otps)]
        PROVE  OTP!TypeOK'
    BY <2>1 DEF OTP!Effect
  <2>2. ASSUME NEW code \in Otps, OTP!Issue(w, code) PROVE OTP!TypeOK'
    <3> DEFINE i == oreq[w].account
    <3>1. i \in Ids
      BY <2>2 DEF OTP!Issue, OTP!Effect, OTP!Requests, OTP!NoRequest
    <3>2. codes[i] \in Seq(Otps)
      BY <3>1
    <3>3. <<code>> \o codes[i] \in Seq(Otps)
      BY <3>2
    <3>4. codes[i] # <<>> => <<code>> \o Tail(codes[i]) \in Seq(Otps)
      BY <3>2
    <3>5. codes' \in [Ids -> Seq(Otps)]
      BY <2>2, <3>1, <3>3, <3>4 DEF OTP!Issue
    <3> QED
      BY <2>1, <2>2, <3>5, <1>2 DEF OTP!Issue
  <2>3. CASE OTP!Deny(w) \/ OTP!Refuse(w)
    BY <2>1, <2>3, <1>1 DEF OTP!Deny, OTP!Refuse
  <2>4. CASE OTP!Spend(w)
    <3>1. codes' \in [Ids -> Seq(Otps)]
      <4>1. oreq[w].account \in Ids
        BY <2>4 DEF OTP!Spend, OTP!Effect, OTP!Requests, OTP!NoRequest
      <4>2. codes[oreq[w].account] \in Seq(Otps) /\ codes[oreq[w].account] # <<>>
        BY <4>1, <2>4 DEF OTP!Spend, OTP!OnTop
      <4> QED
        BY <4>1, <4>2, <2>4 DEF OTP!Spend
    <3> QED
      BY <2>1, <2>4, <3>1, <1>3 DEF OTP!Spend
  <2> QED
    BY <1>7, <2>2, <2>3, <2>4 DEF OTP!Perform
<1> QED
  BY <1>4, <1>5, <1>6, <1>7
LEMMA CrashTyped ==
  ASSUME OTP!TypeOK, OTP!Crash \/ OTP!Restart
  PROVE  OTP!TypeOK'
<1> USE DEF OTP!TypeOK
<1>1. CASE OTP!Restart
  BY <1>1 DEF OTP!Restart
<1>2. CASE OTP!Crash
  <2>1. PICK cut \in SUBSET {v \in Workers : ophase[v] # "idle"} :
          /\ ophase' = [v \in Workers |-> IF v \in cut THEN "done" ELSE ophase[v]]
          /\ oans' = [v \in Workers |-> IF v \in cut THEN OTP!Failure ELSE oans[v]]
    BY <1>2, Zenon DEF OTP!Crash
  <2>2. ophase' \in [Workers -> {"idle", "called", "done"}]
    BY <2>1
  <2>3. OTP!Failure \in OTP!Answers
    BY DEF OTP!Failure, OTP!Answers
  <2>4. oans' \in [Workers -> OTP!Answers]
    BY <2>1, <2>3
  <2>5. codes' \in [Ids -> Seq(Otps)]
    BY <1>2 DEF OTP!Crash
  <2>6. UNCHANGED <<oreq, alive>> /\ up' \in BOOLEAN
    BY <1>2 DEF OTP!Crash
  <2> QED
    BY <2>2, <2>4, <2>5, <2>6
<1> QED
  BY <1>1, <1>2

\* A sequence of one element at most.
LEMMA AtMostOne ==
  ASSUME NEW S, NEW s \in Seq(S), Len(s) \in {0, 1}, s # <<>>
  PROVE  Len(s) = 1 /\ Head(s) \in S /\ Tail(s) = <<>>
<1>1. Len(s) = 1
  BY EmptySeq
<1>2. s[1] \in S
  BY <1>1, ElementOfSeq
<1>3. Tail(s) \in Seq(S) /\ Len(Tail(s)) = 0
  BY <1>1
<1>4. Tail(s) = <<>>
  BY <1>3, EmptySeq
<1> QED
  BY <1>1, <1>2, <1>4

\* A response or packet that follows nothing.
LEMMA First ==
  ASSUME NEW S, NEW e \in S
  PROVE  LET s == Append(<<>>, e) IN
           s \in Seq(S) /\ Len(s) = 1 /\ s # <<>> /\ Head(s) = e /\ s[1] = e
OBVIOUS

\* What kind a packet is of tells what it asks for.
LEMMA PacketFacts ==
  /\ \A p \in Packets :
       /\ p.n \in 1..MaxSends
       /\ p.kind \in {"db", "otp", "malformed", "corrupted", "partial"}
       /\ p.r \in Requests \cup OTP!Requests \cup {NoRequest}
       /\ p.kind = "db" => p.r \in Requests
       /\ p.kind = "otp" => p.r \in OTP!Requests
       /\ p.kind \notin {"db", "otp"} => p.r = NoRequest
  /\ NoPacket \notin Packets
  /\ NoPacket.kind = "none" /\ NoPacket.n = 0
BY DEF Packets, NoPacket

\* What a request asks for.
LEMMA RequestFacts ==
  /\ \A r \in Requests :
       /\ r.op \in {"create", "deposit", "withdraw", "balance"}
       /\ r.op = "create" => r.amount \in Money
  /\ \A r \in OTP!Requests : r.op \in {"generate", "verify"}
  /\ NoRequest.op = "none"
BY DEF Requests, OTP!Requests, NoRequest

\* Responses are of the type the wire carries.
LEMMA ResponseTyped ==
  ASSUME NEW p \in Packets, NEW status \in Codes, NEW balance \in Money \cup {Unwritten},
         NEW code \in Otps \cup {NoCode}
  PROVE  LET m == Response(p, status, balance, code) IN
           /\ m \in Responses
           /\ m.n = p.n /\ m.r = p.r /\ m.status = status /\ m.balance = balance
BY PacketFacts DEF Response, Responses

\* The codes that the server itself puts into responses.
LEMMA ServerCodes ==
  /\ Success \in Codes /\ Error \in Codes /\ Success # Error /\ OK = Success
  /\ 0 \in Money /\ Unwritten # 0
BY DEF Success, Error, Codes, OK, BadArgument, NotFound, Insufficient, Money

\* A worker that has a packet holds a connection with nothing on its way.
LEMMA AtWork ==
  ASSUME TypeOK, PacketInv, NEW w \in Workers, handling[w] # NoPacket
  PROVE  /\ handling[w] \in Packets
         /\ serving[w] \in Clients /\ Working(w, serving[w])
         /\ toServer[serving[w]] = <<>> /\ toClient[serving[w]] = <<>>
         /\ alive[w] => /\ cpc[serving[w]] \in {"pending", "gone"}
                        /\ handling[w].n = sent[serving[w]]
BY DEF TypeOK, PacketInv, OnePlace, AtHand, Working

\* What the answer to a packet changes.
LEMMA Answered ==
  ASSUME TypeOK, PacketInv, NEW w \in Workers, alive[w], handling[w] # NoPacket,
         NEW status \in Codes, NEW balance \in Money \cup {Unwritten},
         NEW code \in Otps \cup {NoCode}, Answer(w, status, balance, code)
  PROVE  /\ toClient' \in [Clients -> Seq(Responses)]
         /\ handling' = [handling EXCEPT ![w] = NoPacket]
         /\ UNCHANGED <<backlog, serving, cpc, open, toServer, sent, acked>>
         /\ \A c \in Clients :
              \/ /\ toClient'[c] = toClient[c]
                 /\ c # serving[w] \/ cpc[c] = "gone"
              \/ /\ c = serving[w] /\ cpc[c] = "pending"
                 /\ Len(toClient'[c]) = 1 /\ toClient'[c] # <<>>
                 /\ Head(toClient'[c]) = Response(handling[w], status, balance, code)
                 /\ toClient'[c][1] = Response(handling[w], status, balance, code)
<1> DEFINE m == Response(handling[w], status, balance, code)
           c == serving[w]
<1>1. /\ handling[w] \in Packets /\ c \in Clients /\ toClient[c] = <<>>
      /\ cpc[c] \in {"pending", "gone"}
  BY AtWork
<1>2. m \in Responses
  BY <1>1, ResponseTyped
<1>3. toClient \in [Clients -> Seq(Responses)]
  BY DEF TypeOK
<1>4. /\ toClient' = IF cpc[c] = "pending"
                     THEN [toClient EXCEPT ![c] = Append(@, m)] ELSE toClient
      /\ handling' = [handling EXCEPT ![w] = NoPacket]
      /\ UNCHANGED <<backlog, serving, cpc, open, toServer, sent, acked>>
  BY DEF Answer, Deliver
<1> HIDE DEF m
<1>5. LET s == Append(<<>>, m) IN
        s \in Seq(Responses) /\ Len(s) = 1 /\ s # <<>> /\ Head(s) = m /\ s[1] = m
  BY <1>2, First
<1>6. CASE cpc[c] = "pending"
  <2>1. toClient' = [toClient EXCEPT ![c] = Append(<<>>, m)]
    BY <1>1, <1>3, <1>4, <1>6
  <2> HIDE DEF c
  <2> DEFINE s == Append(<<>>, m)
  <2>2. s \in Seq(Responses) /\ Len(s) = 1 /\ s # <<>> /\ Head(s) = m /\ s[1] = m
    BY <1>5
  <2>3. toClient' = [toClient EXCEPT ![c] = s]
    BY <2>1
  <2> HIDE DEF s
  <2>4. /\ toClient' \in [Clients -> Seq(Responses)] /\ toClient'[c] = s
        /\ \A d \in Clients : d # c => toClient'[d] = toClient[d]
    BY <2>2, <2>3, <1>1, <1>3
  <2> QED
    BY <2>2, <2>4, <1>4, <1>6 DEF m, c
<1>7. CASE cpc[c] = "gone"
  BY <1>1, <1>3, <1>4, <1>7 DEF m
<1> QED
  BY <1>1, <1>6, <1>7

-----------------------------------------------------------------------------
(***************************************************************************)
(* What each part of the invariant is about: it stays while that does.     *)
(***************************************************************************)
LEMMA LedgerSame == DB!TypeOK /\ UNCHANGED ledger => DB!TypeOK'
BY DEF DB!TypeOK, ledger

LEMMA OtpSame ==
  OTP!TypeOK /\ UNCHANGED <<codes, up, ophase, oreq, oans, alive>> => OTP!TypeOK'
BY DEF OTP!TypeOK

LEMMA ServicesSame ==
  TypeOK /\ UNCHANGED services => DB!TypeOK' /\ OTP!TypeOK' /\ crashes' \in 0..MaxCrashes
<1> SUFFICES ASSUME TypeOK, UNCHANGED services
             PROVE  DB!TypeOK' /\ OTP!TypeOK' /\ crashes' \in 0..MaxCrashes
  OBVIOUS
<1>1. UNCHANGED ledger /\ UNCHANGED otp
  BY DEF services
<1>2. UNCHANGED <<codes, up, ophase, oreq, oans, alive, crashes>>
  BY <1>1 DEF ledger, otp
<1> QED
  BY <1>1, <1>2, LedgerSame, OtpSame DEF TypeOK

LEMMA ConnectionSame ==
  ConnectionInv /\ UNCHANGED <<serving, backlog, cpc, open, alive>> => ConnectionInv'
BY DEF ConnectionInv

LEMMA PacketSame ==
  PacketInv /\ UNCHANGED <<toServer, toClient, cpc, open, sent, serving, handling, alive>>
    => PacketInv'
BY DEF PacketInv, OnePlace, AtHand, Working

LEMMA CallSame ==
  CallInv /\ UNCHANGED <<phase, req, ans, ophase, oreq, handling>> => CallInv'
BY DEF CallInv

LEMMA EffectSame ==
  EffectInv /\ UNCHANGED <<effects, acked, sent, cpc, open, toServer, toClient,
                           handling, serving, phase, ans, req>> => EffectInv'
BY DEF EffectInv, Known, Owed, Changed, Confirms

LEMMA WrittenSame == BalanceWritten /\ UNCHANGED toClient => BalanceWritten'
BY DEF BalanceWritten

\* The services at rest, part by part.
LEMMA AtRest ==
  UNCHANGED services => UNCHANGED <<phase, req, ans, alive, ophase, oreq, oans>>
BY DEF services, ledger, otp

(***************************************************************************)
(* The same for one client and for one worker.                             *)
(***************************************************************************)
LEMMA OnePlaceSame ==
  ASSUME NEW c \in Clients, OnePlace(c),
         UNCHANGED <<toServer[c], toClient[c], cpc[c], open[c], sent[c]>>,
         \A w \in Workers : Working(w, c)' => Working(w, c)
  PROVE  OnePlace(c)'
BY DEF OnePlace

LEMMA AtHandSame ==
  ASSUME NEW w \in Workers, AtHand(w), UNCHANGED <<serving[w], handling[w], alive[w]>>,
         serving[w] \in Clients => cpc'[serving[w]] = cpc[serving[w]],
         serving[w] \in Clients => sent'[serving[w]] = sent[serving[w]]
  PROVE  AtHand(w)'
BY DEF AtHand

LEMMA KnownSame ==
  ASSUME NEW c \in Clients, Known(c),
         UNCHANGED <<effects[c], acked[c], sent[c], cpc[c], open[c], toServer[c], toClient[c]>>
  PROVE  Known(c)'
BY DEF Known, Confirms

LEMMA OwedSame ==
  ASSUME NEW w \in Workers, NEW c \in Clients, Owed(w, c),
         UNCHANGED <<phase[w], ans[w], req[w], effects[c], acked[c], sent[c]>>
  PROVE  Owed(w, c)'
BY DEF Owed, Changed

\* A client that leaves, or sends and receives, has the connection it had.
LEMMA ConnectionStays ==
  ASSUME TypeOK, ConnectionInv, UNCHANGED <<serving, backlog, open, alive>>,
         \A c \in Clients :
           \/ cpc'[c] \in {cpc[c], "gone"}
           \/ cpc[c] \in {"ready", "pending"} /\ cpc'[c] \in {"ready", "pending"}
  PROVE  ConnectionInv'
<1>1. \A k \in 1..Len(backlog) : backlog[k] \in Clients
  BY ElementOfSeq DEF TypeOK
<1>2. \A w \in Workers : serving[w] # Nobody =>
        serving[w] \in Clients /\ cpc[serving[w]] \in {"ready", "pending", "gone"}
  BY DEF ConnectionInv, TypeOK
<1>3. \A w \in Workers : serving[w] # Nobody =>
        cpc'[serving[w]] \in {"ready", "pending", "gone"}
  BY <1>2
<1>4. \A k \in 1..Len(backlog) : cpc'[backlog[k]] \in {"waiting", "gone"}
  BY <1>1 DEF ConnectionInv
<1>5. \A c \in Clients : cpc'[c] \in {"off", "waiting"} => ~open[c]
  BY DEF ConnectionInv
<1> QED
  BY <1>3, <1>4, <1>5 DEF ConnectionInv

-----------------------------------------------------------------------------
(***************************************************************************)
(* The steps of a client.                                                  *)
(***************************************************************************)
LEMMA ConnectKeeps ==
  ASSUME IInv, NEW c \in Clients, Connect(c)
  PROVE  IInv'
<1> USE DEF IInv, Connect
<1>1. TypeOK'
  <2>1. Append(backlog, c) \in Seq(Clients)
    BY DEF TypeOK
  <2> QED
    BY <2>1, ServicesSame DEF TypeOK, wires
<1>2. ConnectionInv'
  <2>1. /\ backlog \in Seq(Clients) /\ Len(backlog) \in Nat
        /\ \A k \in 1..Len(backlog) : backlog[k] \in Clients
    BY LenProperties, ElementOfSeq DEF TypeOK
  <2>2. /\ Len(backlog') = Len(backlog) + 1 /\ backlog'[Len(backlog) + 1] = c
        /\ \A k \in 1..Len(backlog) : backlog'[k] = backlog[k]
    BY <2>1
  <2>3. /\ \A k \in 1..Len(backlog) : backlog[k] # c
        /\ \A w \in Workers : serving[w] # c
    <3>1. cpc[c] = "off" /\ c # Nobody
      OBVIOUS
    <3>2. \A k \in 1..Len(backlog) : backlog[k] # c
      BY <3>1 DEF ConnectionInv
    <3>3. \A w \in Workers : serving[w] # c
      BY <3>1 DEF ConnectionInv
    <3> QED
      BY <3>2, <3>3
  <2>4. /\ cpc'[c] = "waiting" /\ ~open[c] /\ UNCHANGED <<serving, open, alive>>
        /\ \A d \in Clients : d # c => cpc'[d] = cpc[d]
    BY AtRest DEF TypeOK, ConnectionInv
  <2>5. \A k \in 1..Len(backlog') : k \in 1..Len(backlog) \/ k = Len(backlog) + 1
    BY <2>1, <2>2
  <2>6. \A j, k \in 1..Len(backlog') : backlog'[j] = backlog'[k] => j = k
    BY <2>2, <2>3, <2>5 DEF ConnectionInv
  <2>7. \A k \in 1..Len(backlog') :
          /\ cpc'[backlog'[k]] \in {"waiting", "gone"}
          /\ \A w \in Workers : serving'[w] # backlog'[k]
    BY <2>1, <2>2, <2>3, <2>4, <2>5 DEF ConnectionInv
  <2>8. \A w \in Workers : serving'[w] # Nobody =>
          /\ cpc'[serving'[w]] \in {"ready", "pending", "gone"}
          /\ open'[serving'[w]] <=> alive'[w]
    BY <2>3, <2>4 DEF ConnectionInv, TypeOK
  <2>9. \A d \in Clients : cpc'[d] \in {"off", "waiting"} => ~open'[d]
    BY <2>4 DEF ConnectionInv
  <2> QED
    BY <2>4, <2>6, <2>7, <2>8, <2>9 DEF ConnectionInv
<1>3. PacketInv'
  <2>1. UNCHANGED <<serving, handling, open, alive, toServer, toClient, sent>>
    BY AtRest DEF wires
  <2>2. cpc[c] = "off" /\ \A d \in Clients : d # c => cpc'[d] = cpc[d]
    BY DEF TypeOK
  <2>3. ASSUME NEW d \in Clients PROVE OnePlace(d)'
    <3>1. CASE d = c
      BY <2>1, <2>2, <3>1 DEF PacketInv, OnePlace
    <3>2. CASE d # c
      BY <2>1, <2>2, <3>2, OnePlaceSame DEF PacketInv, Working
    <3> QED
      BY <3>1, <3>2
  <2>4. ASSUME NEW w \in Workers PROVE AtHand(w)'
    BY <2>1, <2>2 DEF PacketInv, AtHand
  <2> QED
    BY <2>3, <2>4 DEF PacketInv
<1>4. CallInv' /\ BalanceWritten'
  BY CallSame, WrittenSame, AtRest DEF wires
<1>5. EffectInv'
  <2>1. UNCHANGED <<serving, handling, open, toServer, toClient, sent, effects, acked,
                    phase, ans, req>>
    BY AtRest DEF wires
  <2>2. cpc[c] = "off" /\ \A d \in Clients : d # c => cpc'[d] = cpc[d]
    BY DEF TypeOK
  <2>3. ASSUME NEW d \in Clients PROVE Known(d)'
    BY <2>1, <2>2 DEF EffectInv, Known, Confirms
  <2>4. ASSUME NEW w \in Workers, handling'[w] # NoPacket PROVE Owed(w, serving[w])'
    BY <2>1, <2>4 DEF EffectInv, Owed, Changed
  <2> QED
    BY <2>3, <2>4 DEF EffectInv
<1> QED
  BY <1>1, <1>2, <1>3, <1>4, <1>5

LEMMA SendKeeps ==
  ASSUME IInv, NEW c \in Clients, NEW p \in Packets, Send(c, p)
  PROVE  IInv'
<1> USE DEF IInv
<1>1. /\ cpc[c] = "ready" /\ toServer[c] = <<>> /\ toClient[c] = <<>>
      /\ \A w \in Workers : alive[w] => ~Working(w, c)
  BY DEF PacketInv, OnePlace, AtHand, Send, Working
<1>o. open[c] => \A w \in Workers : ~Working(w, c)
  BY <1>1, ServerAssumption DEF ConnectionInv, Working
<1>2. /\ sent[c] \in Nat /\ sent'[c] = sent[c] + 1 /\ sent' \in [Clients -> 0..MaxSends]
      /\ \A d \in Clients : d # c => sent'[d] = sent[d]
      /\ p.n = sent'[c]
  <2>1. /\ sent[c] \in 0..MaxSends /\ sent[c] < MaxSends
        /\ MaxSends \in Nat /\ sent \in [Clients -> 0..MaxSends]
    BY DEF Send, TypeOK
  <2>2. sent' = [sent EXCEPT ![c] = sent[c] + 1] /\ p.n = sent[c] + 1
    BY DEF Send
  <2> QED
    BY <2>1, <2>2
<1>3. /\ toServer' \in [Clients -> Seq(Packets)]
      /\ \A d \in Clients : d # c => toServer'[d] = toServer[d]
      /\ Len(toServer'[c]) \in {0, 1}
      /\ toServer'[c] # <<>> => open[c] /\ Head(toServer'[c]) = p
  <2> DEFINE s == Append(<<>>, p)
  <2>1. s \in Seq(Packets) /\ Len(s) = 1 /\ s # <<>> /\ Head(s) = p
    BY First
  <2>2. /\ toServer' = [toServer EXCEPT ![c] = IF open[c] THEN s ELSE toServer[c]]
        /\ toServer \in [Clients -> Seq(Packets)]
    BY <1>1 DEF Send, TypeOK
  <2> HIDE DEF s
  <2>3. Len(toServer[c]) = 0
    BY <1>1
  <2>4. CASE open[c]
    <3>1. toServer' = [toServer EXCEPT ![c] = s]
      BY <2>2, <2>4
    <3>2. /\ toServer' \in [Clients -> Seq(Packets)] /\ toServer'[c] = s
          /\ \A d \in Clients : d # c => toServer'[d] = toServer[d]
      BY <2>1, <2>2, <3>1
    <3>3. Len(toServer'[c]) \in {0, 1}
      BY <2>1, <3>2
    <3>4. toServer'[c] # <<>> => open[c] /\ Head(toServer'[c]) = p
      BY <2>1, <2>4, <3>2
    <3> QED
      BY <3>2, <3>3, <3>4, Zenon
  <2>5. CASE ~open[c]
    <3>1. toServer' = [toServer EXCEPT ![c] = toServer[c]]
      BY <2>2, <2>5
    <3> QED
      BY <1>1, <2>2, <2>3, <3>1
  <2> QED
    BY <2>4, <2>5
<1>4. /\ cpc' = [cpc EXCEPT ![c] = "pending"]
      /\ cpc' \in [Clients -> {"off", "waiting", "ready", "pending", "gone"}]
      /\ UNCHANGED <<services, backlog, serving, handling, open, toClient, effects, acked>>
  BY DEF Send, TypeOK
<1>a. UNCHANGED <<alive, phase, req, ans, ophase, oreq, open>>
  BY <1>4, AtRest
<1>5. cpc'[c] = "pending" /\ \A d \in Clients : d # c => cpc'[d] = cpc[d]
  BY <1>4 DEF TypeOK
<1>6. TypeOK'
  BY <1>2, <1>3, <1>4, ServicesSame DEF TypeOK
<1>7. ConnectionInv'
  BY <1>1, <1>4, <1>5, <1>a, ConnectionStays
<1>8. PacketInv'
  <2>1. OnePlace(c)'
    <3>1. toClient'[c] = <<>> /\ Len(toClient'[c]) \in {0, 1}
      BY <1>1, <1>4 DEF PacketInv, OnePlace
    <3>2. toServer'[c] # <<>> => \A w \in Workers : ~Working(w, c)'
      BY <1>3, <1>4, <1>o DEF Working
    <3>3. toServer'[c] # <<>> => open'[c] /\ Head(toServer'[c]).n = sent'[c]
      BY <1>2, <1>3, <1>a
    <3>4. Len(toServer'[c]) \in {0, 1} /\ cpc'[c] \in {"pending", "gone"}
      BY <1>3, <1>5
    <3> QED
      BY <3>1, <3>2, <3>3, <3>4 DEF OnePlace
  <2>2. ASSUME NEW d \in Clients, d # c PROVE OnePlace(d)'
    BY <1>2, <1>3, <1>4, <1>5, <1>a, <2>2, OnePlaceSame DEF PacketInv, Working
  <2>3. ASSUME NEW w \in Workers PROVE AtHand(w)'
    <3>1. CASE handling[w] = NoPacket
      BY <1>4, <3>1 DEF AtHand
    <3>2. CASE handling[w] # NoPacket /\ serving[w] = c
      <4>1. ~alive[w]
        BY <1>1, <3>2 DEF Working
      <4> QED
        BY <1>4, <1>a, <3>2, <4>1 DEF AtHand
    <3>3. CASE serving[w] # c
      BY <1>2, <1>4, <1>5, <1>a, <3>3, AtHandSame DEF PacketInv
    <3> QED
      BY <3>1, <3>2, <3>3
  <2> QED
    BY <2>1, <2>2, <2>3 DEF PacketInv
<1>9. CallInv' /\ BalanceWritten'
  BY <1>4, <1>a, CallSame, WrittenSame
<1>10. EffectInv'
  <2>1. /\ effects[c] <= sent[c] /\ effects[c] \in Nat /\ effects[c] - acked[c] \in {0, 1}
        /\ open[c] => effects[c] = acked[c]
    BY <1>1 DEF EffectInv, Known, TypeOK
  <2>2. effects[c] < sent'[c] /\ effects[c] <= sent'[c]
    BY <1>2, <2>1
  <2>3. UNCHANGED <<effects, acked, serving, handling, toClient, phase, ans, req>>
    BY <1>4, AtRest
  <2>4. Known(c)'
    BY <1>1, <1>3, <1>5, <2>1, <2>2, <2>3 DEF Known
  <2>5. ASSUME NEW d \in Clients, d # c PROVE Known(d)'
    BY <1>2, <1>3, <1>5, <1>a, <2>3, <2>5, KnownSame DEF EffectInv
  <2>6. ASSUME NEW w \in Workers, handling'[w] # NoPacket PROVE Owed(w, serving[w])'
    <3>1. serving[w] \in Clients /\ Owed(w, serving[w])
      BY <2>3, <2>6 DEF PacketInv, AtHand, EffectInv
    <3>2. CASE serving[w] # c
      BY <1>2, <2>3, <3>1, <3>2, OwedSame
    <3>3. CASE serving[w] = c
      BY <2>2, <2>3, <3>1, <3>3 DEF Owed, Changed
    <3> QED
      BY <3>2, <3>3
  <2> QED
    BY <2>4, <2>5, <2>6 DEF EffectInv
<1> QED
  BY <1>6, <1>7, <1>8, <1>9, <1>10

LEMMA ReceiveKeeps ==
  ASSUME IInv, NEW c \in Clients, Receive(c)
  PROVE  IInv'
<1> USE DEF IInv
<1>1. /\ cpc[c] = "pending" /\ toServer[c] = <<>>
      /\ \A w \in Workers : ~Working(w, c)
  BY DEF PacketInv, OnePlace, Receive
<1>2. /\ toClient[c] \in Seq(Responses) /\ Len(toClient[c]) \in {0, 1} /\ toClient[c] # <<>>
      /\ toClient \in [Clients -> Seq(Responses)]
  BY DEF Receive, TypeOK, PacketInv, OnePlace
<1>3. Tail(toClient[c]) = <<>>
  BY <1>2, AtMostOne
<1>4. /\ toClient' \in [Clients -> Seq(Responses)] /\ toClient'[c] = <<>>
      /\ \A d \in Clients : d # c => toClient'[d] = toClient[d]
  <2>1. toClient' = [toClient EXCEPT ![c] = <<>>]
    BY <1>3 DEF Receive
  <2> QED
    BY <2>1, <1>2
<1>5. /\ cpc' = [cpc EXCEPT ![c] = "ready"]
      /\ acked' = [acked EXCEPT ![c] = IF Confirms(Head(toClient[c]))
                                       THEN acked[c] + 1 ELSE acked[c]]
      /\ UNCHANGED <<services, backlog, serving, handling, open, toServer, sent, effects>>
  BY DEF Receive
<1>a. UNCHANGED <<alive, phase, req, ans, ophase, oreq, open>>
  BY <1>5, AtRest
<1>6. /\ cpc'[c] = "ready" /\ \A d \in Clients : d # c => cpc'[d] = cpc[d]
      /\ cpc' \in [Clients -> {"off", "waiting", "ready", "pending", "gone"}]
  BY <1>5 DEF TypeOK
<1>7. /\ acked'[c] = effects[c] /\ acked'[c] \in 0..MaxSends
      /\ \A d \in Clients : d # c => acked'[d] = acked[d]
      /\ acked' \in [Clients -> 0..MaxSends]
  <2>1. /\ effects[c] \in 0..MaxSends /\ acked[c] \in 0..MaxSends
        /\ acked \in [Clients -> 0..MaxSends]
        /\ effects[c] - acked[c] \in {0, 1}
        /\ effects[c] = acked[c] + 1 <=> Confirms(Head(toClient[c]))
    BY <1>2 DEF TypeOK, EffectInv, Known
  <2>2. (IF Confirms(Head(toClient[c])) THEN acked[c] + 1 ELSE acked[c]) = effects[c]
    BY <2>1
  <2> QED
    BY <1>5, <2>1, <2>2
<1>8. TypeOK'
  BY <1>4, <1>5, <1>6, <1>7, ServicesSame DEF TypeOK
<1>9. ConnectionInv'
  BY <1>1, <1>5, <1>6, <1>a, ConnectionStays
<1>10. PacketInv'
  <2>1. OnePlace(c)'
    <3>1. toServer'[c] = <<>> /\ Len(toServer'[c]) \in {0, 1} /\ Len(toClient'[c]) \in {0, 1}
      BY <1>1, <1>4, <1>5
    <3> QED
      BY <1>4, <3>1 DEF OnePlace
  <2>2. ASSUME NEW d \in Clients, d # c PROVE OnePlace(d)'
    BY <1>4, <1>5, <1>6, <1>a, <2>2, OnePlaceSame DEF PacketInv, Working
  <2>3. ASSUME NEW w \in Workers PROVE AtHand(w)'
    <3>1. CASE handling[w] = NoPacket
      BY <1>5, <3>1 DEF AtHand
    <3>2. CASE handling[w] # NoPacket
      <4>1. serving[w] # c /\ AtHand(w)
        BY <1>1, <3>2 DEF PacketInv, Working
      <4> QED
        BY <1>5, <1>6, <1>a, <4>1, AtHandSame
    <3> QED
      BY <3>1, <3>2
  <2> QED
    BY <2>1, <2>2, <2>3 DEF PacketInv
<1>11. CallInv'
  BY <1>5, <1>a, CallSame
<1>12. BalanceWritten'
  <2> SUFFICES ASSUME NEW d \in Clients, NEW k \in 1..Len(toClient'[d]),
                      toClient'[d][k].r \in Requests /\ toClient'[d][k].status = Success
               PROVE  toClient'[d][k].balance # Unwritten
    BY DEF BalanceWritten
  <2>1. d # c
    BY <1>4
  <2> QED
    BY <1>4, <2>1 DEF BalanceWritten
<1>13. EffectInv'
  <2>1. UNCHANGED <<effects, sent, serving, handling, toServer, phase, ans, req>>
    BY <1>5, AtRest
  <2>2. Known(c)'
    <3>1. effects[c] \in Nat /\ effects[c] <= sent[c]
      BY DEF TypeOK, EffectInv, Known
    <3> QED
      BY <1>1, <1>4, <1>7, <2>1, <3>1 DEF Known
  <2>3. ASSUME NEW d \in Clients, d # c PROVE Known(d)'
    BY <1>4, <1>6, <1>7, <1>a, <2>1, <2>3, KnownSame DEF EffectInv
  <2>4. ASSUME NEW w \in Workers, handling'[w] # NoPacket PROVE Owed(w, serving[w])'
    <3>1. serving[w] \in Clients /\ serving[w] # c /\ Owed(w, serving[w])
      BY <1>1, <2>1, <2>4 DEF PacketInv, AtHand, EffectInv, Working
    <3> QED
      BY <1>7, <2>1, <3>1, OwedSame
  <2> QED
    BY <2>2, <2>3, <2>4 DEF EffectInv
<1> QED
  BY <1>8, <1>9, <1>10, <1>11, <1>12, <1>13

LEMMA RequestFailsKeeps ==
  ASSUME IInv, NEW c \in Clients, RequestFails(c)
  PROVE  IInv'
<1> USE DEF IInv
<1>1. /\ cpc[c] \in {"ready", "pending"} /\ ~open[c] /\ toClient[c] = <<>>
      /\ cpc' = [cpc EXCEPT ![c] = "ready"]
      /\ UNCHANGED <<services, backlog, serving, handling, open, toServer, toClient, sent,
                     effects, acked>>
  BY DEF RequestFails, Lost, wires
<1>a. UNCHANGED <<alive, phase, req, ans, ophase, oreq, open>>
  BY <1>1, AtRest
<1>2. /\ cpc'[c] = "ready" /\ \A d \in Clients : d # c => cpc'[d] = cpc[d]
      /\ cpc' \in [Clients -> {"off", "waiting", "ready", "pending", "gone"}]
  BY <1>1 DEF TypeOK
<1>3. toServer[c] = <<>>
  BY <1>1 DEF PacketInv, OnePlace
<1>4. TypeOK'
  BY <1>1, <1>2, ServicesSame DEF TypeOK
<1>5. ConnectionInv'
  BY <1>1, <1>2, <1>a, ConnectionStays
<1>6. PacketInv'
  <2>1. OnePlace(c)'
    BY <1>1, <1>3 DEF PacketInv, OnePlace
  <2>2. ASSUME NEW d \in Clients, d # c PROVE OnePlace(d)'
    BY <1>1, <1>2, <2>2, OnePlaceSame DEF PacketInv, Working
  <2>3. ASSUME NEW w \in Workers PROVE AtHand(w)'
    <3>1. CASE serving[w] = c
      <4>1. ~alive[w]
        BY <1>1, <3>1 DEF ConnectionInv
      <4> QED
        BY <1>1, <1>a, <4>1 DEF PacketInv, AtHand
    <3>2. CASE serving[w] # c
      BY <1>1, <1>2, <1>a, <3>2, AtHandSame DEF PacketInv
    <3> QED
      BY <3>1, <3>2
  <2> QED
    BY <2>1, <2>2, <2>3 DEF PacketInv
<1>7. CallInv' /\ BalanceWritten'
  BY <1>1, <1>a, CallSame, WrittenSame
<1>8. EffectInv'
  <2>1. Known(c)'
    BY <1>1, <1>2, <1>3 DEF EffectInv, Known
  <2>2. ASSUME NEW d \in Clients, d # c PROVE Known(d)'
    BY <1>1, <1>2, <2>2, KnownSame DEF EffectInv
  <2>3. ASSUME NEW w \in Workers, handling'[w] # NoPacket PROVE Owed(w, serving[w])'
    BY <1>1, <1>a, <2>3 DEF EffectInv, Owed, Changed
  <2> QED
    BY <2>1, <2>2, <2>3 DEF EffectInv
<1> QED
  BY <1>4, <1>5, <1>6, <1>7, <1>8

LEMMA EndProcessKeeps ==
  ASSUME IInv, NEW cs \in SUBSET Clients, EndProcess(cs)
  PROVE  IInv'
<1> USE DEF IInv
<1>1. UNCHANGED <<services, backlog, serving, handling, open, toServer, sent, effects, acked>>
  BY DEF EndProcess
<1>a. UNCHANGED <<alive, phase, req, ans, ophase, oreq, open>>
  BY <1>1, AtRest
<1>2. /\ \A d \in Clients : IF d \in cs THEN cpc'[d] = "gone" /\ toClient'[d] = <<>>
                            ELSE cpc'[d] = cpc[d] /\ toClient'[d] = toClient[d]
      /\ cpc' \in [Clients -> {"off", "waiting", "ready", "pending", "gone"}]
      /\ toClient' \in [Clients -> Seq(Responses)]
  BY DEF EndProcess, TypeOK
<1>4. TypeOK'
  BY <1>1, <1>2, ServicesSame DEF TypeOK
<1>5. ConnectionInv'
  BY <1>1, <1>2, <1>a, ConnectionStays
<1>6. PacketInv'
  <2>1. ASSUME NEW d \in cs PROVE OnePlace(d)'
    <3>1. /\ Len(toServer'[d]) \in {0, 1} /\ Len(toClient'[d]) \in {0, 1}
          /\ toServer'[d] # <<>> => /\ open'[d] /\ Head(toServer'[d]).n = sent'[d]
                                    /\ \A w \in Workers : ~Working(w, d)'
      BY <1>1, <1>2 DEF PacketInv, OnePlace, Working
    <3> QED
      BY <1>2, <3>1 DEF OnePlace
  <2>2. ASSUME NEW d \in Clients \ cs PROVE OnePlace(d)'
    BY <1>1, <1>2, OnePlaceSame DEF PacketInv, Working
  <2>3. ASSUME NEW w \in Workers PROVE AtHand(w)'
    <3>1. serving[w] \in Clients => cpc'[serving[w]] \in {"gone", cpc[serving[w]]}
      BY <1>2
    <3> QED
      BY <1>1, <1>a, <3>1 DEF PacketInv, AtHand
  <2> QED
    BY <2>1, <2>2, <2>3 DEF PacketInv
<1>7. CallInv'
  BY <1>1, <1>a, CallSame
<1>8. BalanceWritten'
  <2> SUFFICES ASSUME NEW d \in Clients, NEW k \in 1..Len(toClient'[d]),
                      toClient'[d][k].r \in Requests /\ toClient'[d][k].status = Success
               PROVE  toClient'[d][k].balance # Unwritten
    BY DEF BalanceWritten
  <2>1. d \notin cs
    BY <1>2
  <2> QED
    BY <1>2, <2>1 DEF BalanceWritten
<1>9. EffectInv'
  <2>1. UNCHANGED <<effects, acked, sent, serving, handling, open, toServer, phase, ans, req>>
    BY <1>1, <1>a
  <2>2. ASSUME NEW d \in cs PROVE Known(d)'
    BY <1>2, <2>1 DEF EffectInv, Known
  <2>3. ASSUME NEW d \in Clients \ cs PROVE Known(d)'
    BY <1>2, <2>1, KnownSame DEF EffectInv
  <2>4. ASSUME NEW w \in Workers, handling'[w] # NoPacket PROVE Owed(w, serving[w])'
    BY <2>1, <2>4 DEF EffectInv, Owed, Changed
  <2> QED
    BY <2>2, <2>3, <2>4 DEF EffectInv
<1> QED
  BY <1>4, <1>5, <1>6, <1>7, <1>8, <1>9

-----------------------------------------------------------------------------
(***************************************************************************)
(* The steps of a worker with its connection.                              *)
(***************************************************************************)

\* The connection that accept takes is in the backlog no more.
LEMMA NextInLine ==
  ASSUME TypeOK, ConnectionInv, backlog # <<>>
  PROVE  /\ Head(backlog) \in Clients /\ Tail(backlog) \in Seq(Clients)
         /\ cpc[Head(backlog)] \in {"waiting", "gone"}
         /\ \A w \in Workers : serving[w] # Head(backlog)
         /\ \A k \in 1..Len(Tail(backlog)) :
              /\ k + 1 \in 1..Len(backlog) /\ Tail(backlog)[k] = backlog[k + 1]
              /\ Tail(backlog)[k] \in Clients /\ Tail(backlog)[k] # Head(backlog)
<1>1. backlog \in Seq(Clients)
  BY DEF TypeOK
<1> DEFINE n == Len(backlog)
<1>2. n \in Nat /\ n # 0
  BY <1>1, EmptySeq
<1>3. /\ Head(backlog) \in Clients /\ Tail(backlog) \in Seq(Clients)
      /\ Len(Tail(backlog)) = n - 1
      /\ \A k \in 1..Len(Tail(backlog)) : Tail(backlog)[k] = backlog[k + 1]
  BY <1>1, HeadTailProperties
<1>4. Head(backlog) = backlog[1]
  BY <1>1
<1> HIDE DEF n
<1>5. 1 \in 1..n /\ \A k \in 1..(n - 1) : k + 1 \in 1..n /\ k + 1 # 1
  BY <1>2
<1>6. \A j, k \in 1..n : backlog[j] = backlog[k] => j = k
  BY DEF ConnectionInv, n
<1>7. \A k \in 1..n : /\ cpc[backlog[k]] \in {"waiting", "gone"}
                      /\ \A w \in Workers : serving[w] # backlog[k]
  BY DEF ConnectionInv, n
<1>8. \A k \in 1..n : backlog[k] \in Clients
  BY <1>1, ElementOfSeq DEF n
<1>9. ASSUME NEW k \in 1..(n - 1)
      PROVE  /\ k + 1 \in 1..n /\ Tail(backlog)[k] = backlog[k + 1]
             /\ Tail(backlog)[k] \in Clients /\ Tail(backlog)[k] # Head(backlog)
  BY <1>3, <1>4, <1>5, <1>6, <1>8
<1> QED
  BY <1>3, <1>4, <1>5, <1>7, <1>9 DEF n

\* What remains of the backlog is still in order.
LEMMA RestOfLine ==
  ASSUME TypeOK, ConnectionInv, backlog # <<>>
  PROVE  \A j, k \in 1..Len(Tail(backlog)) : Tail(backlog)[j] = Tail(backlog)[k] => j = k
<1> SUFFICES ASSUME NEW j \in 1..Len(Tail(backlog)), NEW k \in 1..Len(Tail(backlog)),
                    Tail(backlog)[j] = Tail(backlog)[k]
             PROVE  j = k
  OBVIOUS
<1>1. j + 1 = k + 1
  BY NextInLine DEF ConnectionInv
<1> QED
  BY <1>1

LEMMA AcceptKeeps ==
  ASSUME IInv, NEW w \in Workers, Accept(w)
  PROVE  IInv'
<1> USE DEF IInv
<1>c. PICK c \in Clients : c = Head(backlog)
  BY NextInLine DEF Accept
<1>1. /\ alive[w] /\ serving[w] = Nobody /\ backlog # <<>> /\ cpc[c] = "waiting"
      /\ serving' = [serving EXCEPT ![w] = c] /\ cpc' = [cpc EXCEPT ![c] = "ready"]
      /\ open' = [open EXCEPT ![c] = TRUE] /\ backlog' = Tail(backlog)
      /\ UNCHANGED <<services, handling, wires, sent, effects, acked>>
  BY <1>c DEF Accept
<1>2. /\ c \in Clients /\ Tail(backlog) \in Seq(Clients)
      /\ \A v \in Workers : serving[v] # c
      /\ \A k \in 1..Len(Tail(backlog)) :
           /\ k + 1 \in 1..Len(backlog) /\ Tail(backlog)[k] = backlog[k + 1]
           /\ Tail(backlog)[k] \in Clients /\ Tail(backlog)[k] # c
  BY <1>c, <1>1, NextInLine
<1>3. UNCHANGED <<toServer, toClient, alive, phase, req, ans, ophase, oreq>>
  BY <1>1, AtRest DEF wires
<1>b. open'[c] /\ \A d \in Clients : d # c => open'[d] = open[d]
  BY <1>1 DEF TypeOK
<1>4. /\ cpc'[c] = "ready" /\ \A d \in Clients : d # c => cpc'[d] = cpc[d]
      /\ cpc' \in [Clients -> {"off", "waiting", "ready", "pending", "gone"}]
  BY <1>1, <1>2 DEF TypeOK
<1>5. /\ serving'[w] = c /\ \A v \in Workers : v # w => serving'[v] = serving[v]
      /\ serving' \in [Workers -> Clients \cup {Nobody}] /\ c # Nobody
  BY <1>1, <1>2 DEF TypeOK
<1>6. handling[w] = NoPacket
  BY <1>1 DEF PacketInv, AtHand
<1>7. toServer[c] = <<>> /\ toClient[c] = <<>> /\ effects[c] = acked[c]
  BY <1>1, <1>2 DEF PacketInv, OnePlace, EffectInv, Known
<1>8. TypeOK'
  <2>1. open' \in [Clients -> BOOLEAN]
    BY <1>1 DEF TypeOK
  <2> QED
    BY <1>1, <1>2, <1>3, <1>4, <1>5, <2>1, ServicesSame DEF TypeOK
<1>9. ConnectionInv'
  <2>1. \A u, v \in Workers : serving'[u] = serving'[v] /\ serving'[u] # Nobody => u = v
    BY <1>2, <1>5 DEF ConnectionInv
  <2>2. \A j, k \in 1..Len(backlog') : backlog'[j] = backlog'[k] => j = k
    BY <1>1, RestOfLine
  <2>3. ASSUME NEW k \in 1..Len(backlog')
        PROVE  /\ cpc'[backlog'[k]] \in {"waiting", "gone"}
               /\ \A v \in Workers : serving'[v] # backlog'[k]
    <3>1. /\ backlog'[k] = backlog[k + 1] /\ k + 1 \in 1..Len(backlog)
          /\ backlog'[k] \in Clients /\ backlog'[k] # c
      BY <1>1, <1>2
    <3> QED
      BY <1>4, <1>5, <3>1 DEF ConnectionInv
  <2>4. ASSUME NEW v \in Workers, serving'[v] # Nobody
        PROVE  /\ cpc'[serving'[v]] \in {"ready", "pending", "gone"}
               /\ open'[serving'[v]] <=> alive'[v]
    <3>1. CASE v = w
      BY <1>1, <1>3, <1>4, <1>5, <1>b, <3>1
    <3>2. CASE v # w
      <4>1. serving'[v] = serving[v] /\ serving[v] \in Clients /\ serving[v] # c
        BY <1>2, <1>5, <2>4, <3>2 DEF TypeOK
      <4> QED
        BY <1>3, <1>4, <1>b, <2>4, <4>1 DEF ConnectionInv
    <3> QED
      BY <3>1, <3>2
  <2>5. \A d \in Clients : cpc'[d] \in {"off", "waiting"} => ~open'[d]
    BY <1>4, <1>b DEF ConnectionInv
  <2> QED
    BY <2>1, <2>2, <2>3, <2>4, <2>5 DEF ConnectionInv
<1>10. \A v \in Workers, d \in Clients : Working(v, d)' => Working(v, d)
  BY <1>1, <1>5, <1>6 DEF Working
<1>11. PacketInv'
  <2>1. OnePlace(c)'
    BY <1>1, <1>2, <1>3, <1>7, <1>10 DEF PacketInv, OnePlace
  <2>2. ASSUME NEW d \in Clients, d # c PROVE OnePlace(d)'
    BY <1>1, <1>3, <1>4, <1>10, <1>b, <2>2, OnePlaceSame DEF PacketInv
  <2>3. ASSUME NEW v \in Workers PROVE AtHand(v)'
    <3>1. CASE v = w
      BY <1>1, <1>6, <3>1 DEF AtHand
    <3>2. CASE v # w
      BY <1>1, <1>2, <1>3, <1>4, <1>5, <3>2, AtHandSame DEF PacketInv
    <3> QED
      BY <3>1, <3>2
  <2> QED
    BY <2>1, <2>2, <2>3 DEF PacketInv
<1>12. CallInv' /\ BalanceWritten'
  BY <1>1, <1>3, CallSame, WrittenSame
<1>13. EffectInv'
  <2>1. UNCHANGED <<effects, acked, sent, handling, phase, ans, req>>
    BY <1>1, AtRest
  <2>2. Known(c)'
    BY <1>2, <1>3, <1>7, <2>1 DEF EffectInv, Known
  <2>3. ASSUME NEW d \in Clients, d # c PROVE Known(d)'
    BY <1>3, <1>4, <1>b, <2>1, <2>3, KnownSame DEF EffectInv
  <2>4. ASSUME NEW v \in Workers, handling'[v] # NoPacket PROVE Owed(v, serving[v])'
    <3>1. serving'[v] = serving[v] /\ serving[v] \in Clients /\ Owed(v, serving[v])
      BY <1>5, <1>6, <2>1, <2>4 DEF PacketInv, AtHand, EffectInv
    <3> QED
      BY <2>1, <3>1 DEF Owed, Changed
  <2> QED
    BY <2>2, <2>3, <2>4 DEF EffectInv
<1> QED
  BY <1>8, <1>9, <1>11, <1>12, <1>13

LEMMA HandshakeFailsKeeps ==
  ASSUME IInv, NEW w \in Workers, HandshakeFails(w)
  PROVE  IInv'
<1> USE DEF IInv
<1>c. PICK c \in Clients : c = Head(backlog)
  BY NextInLine DEF HandshakeFails
<1>1. /\ backlog # <<>> /\ backlog' = Tail(backlog) /\ cpc' = [cpc EXCEPT ![c] = "gone"]
      /\ UNCHANGED <<services, serving, handling, open, wires, sent, effects, acked>>
  BY <1>c DEF HandshakeFails
<1>2. /\ Tail(backlog) \in Seq(Clients) /\ cpc[c] \in {"waiting", "gone"}
      /\ \A v \in Workers : serving[v] # c
      /\ \A k \in 1..Len(Tail(backlog)) :
           /\ k + 1 \in 1..Len(backlog) /\ Tail(backlog)[k] = backlog[k + 1]
           /\ Tail(backlog)[k] \in Clients /\ Tail(backlog)[k] # c
  BY <1>c, <1>1, NextInLine
<1>a. UNCHANGED <<toServer, toClient>>
  BY <1>1 DEF wires
<1>3. UNCHANGED <<toServer, toClient, open, alive, phase, req, ans, ophase, oreq>>
  BY <1>1, <1>a, AtRest
<1>4. /\ cpc'[c] = "gone" /\ \A d \in Clients : d # c => cpc'[d] = cpc[d]
      /\ cpc' \in [Clients -> {"off", "waiting", "ready", "pending", "gone"}]
  BY <1>1 DEF TypeOK
<1>5. TypeOK'
  BY <1>1, <1>2, <1>4, <1>a, ServicesSame DEF TypeOK
<1>6. ConnectionInv'
  <2>1. \A j, k \in 1..Len(backlog') : backlog'[j] = backlog'[k] => j = k
    BY <1>1, RestOfLine
  <2>2. ASSUME NEW k \in 1..Len(backlog')
        PROVE  /\ cpc'[backlog'[k]] \in {"waiting", "gone"}
               /\ \A v \in Workers : serving'[v] # backlog'[k]
    <3>1. /\ backlog'[k] = backlog[k + 1] /\ k + 1 \in 1..Len(backlog)
          /\ backlog'[k] \in Clients /\ backlog'[k] # c
      BY <1>1, <1>2
    <3> QED
      BY <1>1, <1>4, <3>1 DEF ConnectionInv
  <2>3. ASSUME NEW v \in Workers, serving'[v] # Nobody
        PROVE  /\ cpc'[serving'[v]] \in {"ready", "pending", "gone"}
               /\ open'[serving'[v]] <=> alive'[v]
    <3>1. serving'[v] = serving[v] /\ serving[v] \in Clients /\ serving[v] # c
      BY <1>1, <1>2, <2>3 DEF TypeOK
    <3> QED
      BY <1>3, <1>4, <2>3, <3>1 DEF ConnectionInv
  <2>4. \A d \in Clients : cpc'[d] \in {"off", "waiting"} => ~open'[d]
    BY <1>3, <1>4 DEF ConnectionInv
  <2> QED
    BY <1>1, <2>1, <2>2, <2>3, <2>4 DEF ConnectionInv
<1>7. PacketInv'
  <2>1. OnePlace(c)'
    BY <1>1, <1>2, <1>3, <1>4 DEF PacketInv, OnePlace, Working
  <2>2. ASSUME NEW d \in Clients, d # c PROVE OnePlace(d)'
    BY <1>1, <1>3, <1>4, <2>2, OnePlaceSame DEF PacketInv, Working
  <2>3. ASSUME NEW v \in Workers PROVE AtHand(v)'
    BY <1>1, <1>2, <1>3, <1>4, AtHandSame DEF PacketInv
  <2> QED
    BY <2>1, <2>2, <2>3 DEF PacketInv
<1>8. CallInv' /\ BalanceWritten'
  BY <1>1, <1>3, CallSame, WrittenSame
<1>9. EffectInv'
  <2>1. UNCHANGED <<effects, acked, sent, serving, handling, phase, ans, req>>
    BY <1>1, AtRest
  <2>2. Known(c)'
    BY <1>3, <1>4, <2>1 DEF EffectInv, Known, Confirms
  <2>3. ASSUME NEW d \in Clients, d # c PROVE Known(d)'
    BY <1>3, <1>4, <2>1, <2>3, KnownSame DEF EffectInv
  <2>4. ASSUME NEW v \in Workers, handling'[v] # NoPacket PROVE Owed(v, serving[v])'
    BY <2>1, <2>4 DEF EffectInv, Owed, Changed
  <2> QED
    BY <2>2, <2>3, <2>4 DEF EffectInv
<1> QED
  BY <1>5, <1>6, <1>7, <1>8, <1>9

\* The connection ends when the client has left, or sent what is not a packet.
LEMMA CloseKeeps ==
  ASSUME IInv, NEW w \in Workers, NEW c \in Clients, ReadsFrom(w, c), CloseConnection(w, c)
  PROVE  IInv'
<1> USE DEF IInv
<1>1. /\ serving[w] = c /\ handling[w] = NoPacket
      /\ UNCHANGED <<services, backlog, handling, cpc, toClient, sent, effects, acked>>
      /\ UNCHANGED <<alive, phase, req, ans, ophase, oreq>>
  BY AtRest DEF ReadsFrom, CloseConnection
<1>b. ~open'[c] /\ \A d \in Clients : d # c => open'[d] = open[d]
  BY DEF CloseConnection, TypeOK
<1>2. /\ serving'[w] = Nobody /\ \A v \in Workers : v # w => serving'[v] = serving[v]
      /\ serving' \in [Workers -> Clients \cup {Nobody}] /\ \A d \in Clients : d # Nobody
  BY DEF CloseConnection, TypeOK
<1>3. /\ toServer'[c] = <<>> /\ \A d \in Clients : d # c => toServer'[d] = toServer[d]
      /\ toServer' \in [Clients -> Seq(Packets)] /\ open' \in [Clients -> BOOLEAN]
  BY DEF CloseConnection, TypeOK
<1>4. TypeOK'
  BY <1>1, <1>2, <1>3, ServicesSame DEF TypeOK
<1>5. ConnectionInv'
  <2>1. \A k \in 1..Len(backlog) : backlog[k] # Nobody
    BY <1>2, ElementOfSeq DEF TypeOK
  <2>2. ASSUME NEW v \in Workers, serving'[v] # Nobody
        PROVE  /\ cpc'[serving'[v]] \in {"ready", "pending", "gone"}
               /\ open'[serving'[v]] <=> alive'[v]
    <3>1. v # w /\ serving'[v] = serving[v] /\ serving[v] \in Clients
      BY <1>2, <2>2 DEF TypeOK
    <3>2. serving[v] # c
      BY <1>1, <1>2, <3>1 DEF ConnectionInv
    <3> QED
      BY <1>1, <1>b, <2>2, <3>1, <3>2 DEF ConnectionInv
  <2>3. \A d \in Clients : cpc'[d] \in {"off", "waiting"} => ~open'[d]
    BY <1>1, <1>b DEF ConnectionInv
  <2> QED
    BY <1>1, <1>2, <2>1, <2>2, <2>3 DEF ConnectionInv
<1>6. \A v \in Workers, d \in Clients : Working(v, d)' => Working(v, d)
  BY <1>1, <1>2 DEF Working
<1>7. PacketInv'
  <2>1. OnePlace(c)'
    <3>1. Len(toServer'[c]) \in {0, 1} /\ Len(toClient'[c]) \in {0, 1}
      BY <1>1, <1>3 DEF PacketInv, OnePlace
    <3> QED
      BY <1>1, <1>3, <1>6, <3>1 DEF PacketInv, OnePlace
  <2>2. ASSUME NEW d \in Clients, d # c PROVE OnePlace(d)'
    BY <1>1, <1>3, <1>6, <1>b, <2>2, OnePlaceSame DEF PacketInv
  <2>3. ASSUME NEW v \in Workers PROVE AtHand(v)'
    <3>1. CASE v = w
      BY <1>1, <3>1 DEF AtHand
    <3>2. CASE v # w
      BY <1>1, <1>2, <3>2, AtHandSame DEF PacketInv
    <3> QED
      BY <3>1, <3>2
  <2> QED
    BY <2>1, <2>2, <2>3 DEF PacketInv
<1>8. CallInv' /\ BalanceWritten'
  BY <1>1, CallSame, WrittenSame
<1>9. EffectInv'
  <2>1. UNCHANGED <<effects, acked, sent, handling, phase, ans, req>>
    BY <1>1, AtRest
  <2>2. Known(c)'
    BY <1>1, <1>3, <1>b, <2>1 DEF EffectInv, Known, Confirms
  <2>3. ASSUME NEW d \in Clients, d # c PROVE Known(d)'
    BY <1>1, <1>3, <1>b, <2>1, <2>3, KnownSame DEF EffectInv
  <2>4. ASSUME NEW v \in Workers, handling'[v] # NoPacket PROVE Owed(v, serving[v])'
    <3>1. serving'[v] = serving[v] /\ Owed(v, serving[v])
      BY <1>1, <1>2, <2>1, <2>4 DEF EffectInv
    <3> QED
      BY <2>1, <3>1 DEF Owed, Changed
  <2> QED
    BY <2>2, <2>3, <2>4 DEF EffectInv
<1> QED
  BY <1>4, <1>5, <1>7, <1>8, <1>9

\* What a worker finds when it reads a packet.
LEMMA AtRead ==
  ASSUME TypeOK, PacketInv, EffectInv, NEW w \in Workers, NEW c \in Clients,
         ReadsFrom(w, c), toServer[c] # <<>>
  PROVE  /\ serving[w] = c /\ handling[w] = NoPacket /\ phase[w] = "idle"
         /\ Head(toServer[c]) \in Packets /\ Head(toServer[c]).n = sent[c]
         /\ toClient[c] = <<>> /\ cpc[c] \in {"pending", "gone"}
         /\ [toServer EXCEPT ![c] = Tail(@)] = [toServer EXCEPT ![c] = <<>>]
         /\ effects[c] = acked[c] /\ effects[c] < sent[c]
         /\ \A v \in Workers : ~Working(v, c)
<1>1. toServer[c] \in Seq(Packets) /\ Len(toServer[c]) \in {0, 1}
  BY DEF TypeOK, PacketInv, OnePlace
<1>2. Head(toServer[c]) \in Packets /\ Tail(toServer[c]) = <<>>
  BY <1>1, AtMostOne
<1> QED
  BY <1>2 DEF ReadsFrom, PacketInv, OnePlace, EffectInv, Known

LEMMA BadChecksumKeeps ==
  ASSUME IInv, NEW w \in Workers, NEW c \in Clients, BadChecksum(w, c)
  PROVE  IInv'
<1> USE DEF IInv
<1>1. /\ ReadsFrom(w, c) /\ toServer[c] # <<>> /\ Head(toServer[c]).kind = "corrupted"
      /\ UNCHANGED <<services, backlog, serving, handling, cpc, open, sent, effects, acked>>
  BY DEF BadChecksum
<1>a. UNCHANGED <<alive, phase, req, ans, ophase, oreq>>
  BY <1>1, AtRest
<1> DEFINE p == Head(toServer[c])
<1>2. /\ p \in Packets /\ p.n = sent[c] /\ p.r = NoRequest /\ toClient[c] = <<>>
      /\ cpc[c] \in {"pending", "gone"} /\ effects[c] = acked[c]
      /\ \A v \in Workers : ~Working(v, c)
  BY <1>1, AtRead, PacketFacts
<1>3. /\ toServer'[c] = <<>> /\ \A d \in Clients : d # c => toServer'[d] = toServer[d]
      /\ toServer' \in [Clients -> Seq(Packets)]
  <2>1. toServer' = [toServer EXCEPT ![c] = <<>>]
    BY <1>1, AtRead DEF BadChecksum
  <2> QED
    BY <2>1 DEF TypeOK
<1> DEFINE m == Response(p, Error, 0, NoCode)
<1>4. PICK e \in Responses : e = m
  BY <1>2, ResponseTyped, ServerCodes
<1>5. e.n = sent[c] /\ e.r = NoRequest /\ ~Confirms(e) /\ e.status # Success
  BY <1>2, <1>4, ResponseTyped, ServerCodes, RequestFacts DEF Confirms
<1>6. /\ toClient' \in [Clients -> Seq(Responses)]
      /\ \A d \in Clients : d # c => toClient'[d] = toClient[d]
      /\ toClient'[c] # <<>> =>
           /\ cpc[c] = "pending" /\ Len(toClient'[c]) = 1
           /\ Head(toClient'[c]) = e /\ toClient'[c][1] = e
  <2>1. toClient' = IF cpc[c] = "pending"
                    THEN [toClient EXCEPT ![c] = Append(<<>>, e)] ELSE toClient
    <3>1. toClient' = IF cpc[c] = "pending"
                      THEN [toClient EXCEPT ![c] = Append(@, e)] ELSE toClient
      BY <1>4 DEF BadChecksum, Deliver
    <3> QED
      BY <1>2, <3>1
  <2> DEFINE s == Append(<<>>, e)
  <2>2. s \in Seq(Responses) /\ Len(s) = 1 /\ s # <<>> /\ Head(s) = e /\ s[1] = e
    BY First
  <2>3. toClient' = IF cpc[c] = "pending" THEN [toClient EXCEPT ![c] = s] ELSE toClient
    BY <2>1
  <2>4. toClient \in [Clients -> Seq(Responses)]
    BY DEF TypeOK
  <2> HIDE DEF s
  <2>5. CASE cpc[c] = "pending"
    <3>1. toClient' = [toClient EXCEPT ![c] = s]
      BY <2>3, <2>5
    <3>2. /\ toClient' \in [Clients -> Seq(Responses)] /\ toClient'[c] = s
          /\ \A d \in Clients : d # c => toClient'[d] = toClient[d]
      BY <2>2, <2>4, <3>1
    <3> QED
      BY <2>2, <2>5, <3>2
  <2>6. CASE cpc[c] # "pending"
    BY <1>2, <2>3, <2>4, <2>6
  <2> QED
    BY <2>5, <2>6
<1> HIDE DEF p, m
<1>7. TypeOK'
  BY <1>1, <1>3, <1>6, ServicesSame DEF TypeOK
<1>8. ConnectionInv'
  BY <1>1, <1>a, ConnectionSame
<1>9. PacketInv'
  <2>1. OnePlace(c)'
    <3>1. Len(toServer'[c]) \in {0, 1} /\ Len(toClient'[c]) \in {0, 1}
      <4>1. Len(toServer'[c]) = 0
        BY <1>3
      <4>2. toClient'[c] = <<>> => Len(toClient'[c]) = 0
        OBVIOUS
      <4> QED
        BY <1>6, <4>1, <4>2
    <3>2. \A v \in Workers : ~Working(v, c)'
      BY <1>1, <1>2 DEF Working
    <3>3. toClient'[c] # <<>> => cpc'[c] = "pending" /\ Head(toClient'[c]).n = sent'[c]
      BY <1>1, <1>5, <1>6
    <3> QED
      BY <1>3, <3>1, <3>2, <3>3 DEF OnePlace
  <2>2. ASSUME NEW d \in Clients, d # c PROVE OnePlace(d)'
    BY <1>1, <1>3, <1>6, <2>2, OnePlaceSame DEF PacketInv, Working
  <2>3. ASSUME NEW v \in Workers PROVE AtHand(v)'
    BY <1>1, <1>a, AtHandSame DEF PacketInv
  <2> QED
    BY <2>1, <2>2, <2>3 DEF PacketInv
<1>10. CallInv'
  BY <1>1, <1>a, CallSame
<1>11. BalanceWritten'
  <2> SUFFICES ASSUME NEW d \in Clients, NEW k \in 1..Len(toClient'[d]),
                      toClient'[d][k].r \in Requests /\ toClient'[d][k].status = Success
               PROVE  toClient'[d][k].balance # Unwritten
    BY DEF BalanceWritten
  <2>1. d # c
    <3> SUFFICES ASSUME d = c PROVE FALSE
      OBVIOUS
    <3>1. toClient'[c] # <<>>
      OBVIOUS
    <3>2. k = 1
      <4>1. Len(toClient'[d]) = 1
        BY <1>6, <3>1
      <4>2. k \in 1..1
        BY <4>1
      <4> QED
        BY <4>2
    <3> QED
      BY <1>5, <1>6, <3>1, <3>2
  <2> QED
    BY <1>6, <2>1 DEF BalanceWritten
<1>12. EffectInv'
  <2>1. UNCHANGED <<effects, acked, sent, serving, handling, phase, ans, req>>
    BY <1>1, AtRest
  <2>2. Known(c)'
    <3>1. effects[c] # acked[c] + 1 /\ effects[c] - acked[c] \in {0, 1} /\ effects[c] <= sent[c]
      BY <1>2 DEF TypeOK, EffectInv, Known
    <3>2. toClient'[c] # <<>> => ~Confirms(Head(toClient'[c]))
      BY <1>5, <1>6
    <3> QED
      BY <1>1, <1>2, <1>3, <2>1, <3>1, <3>2 DEF Known, Confirms
  <2>3. ASSUME NEW d \in Clients, d # c PROVE Known(d)'
    BY <1>1, <1>3, <1>6, <2>1, <2>3, KnownSame DEF EffectInv
  <2>4. ASSUME NEW v \in Workers, handling'[v] # NoPacket PROVE Owed(v, serving[v])'
    BY <2>1, <2>4 DEF EffectInv, Owed, Changed
  <2> QED
    BY <2>2, <2>3, <2>4 DEF EffectInv
<1> QED
  BY <1>7, <1>8, <1>9, <1>10, <1>11, <1>12

LEMMA TakePacketKeeps ==
  ASSUME IInv, NEW w \in Workers, NEW c \in Clients, TakePacket(w, c)
  PROVE  IInv'
<1> USE DEF IInv
<1>1. /\ ReadsFrom(w, c) /\ toServer[c] # <<>>
      /\ UNCHANGED <<services, backlog, serving, cpc, open, toClient, sent, effects, acked>>
  BY DEF TakePacket
<1>a. UNCHANGED <<alive, phase, req, ans, ophase, oreq>>
  BY <1>1, AtRest
<1>2. PICK p \in Packets : p = Head(toServer[c])
  BY <1>1, AtRead
<1>3. /\ p.n = sent[c] /\ toClient[c] = <<>> /\ cpc[c] \in {"pending", "gone"}
      /\ effects[c] = acked[c] /\ effects[c] < sent[c]
      /\ serving[w] = c /\ handling[w] = NoPacket /\ phase[w] = "idle"
      /\ \A v \in Workers : ~Working(v, c)
  BY <1>1, <1>2, AtRead
<1>4. /\ toServer'[c] = <<>> /\ \A d \in Clients : d # c => toServer'[d] = toServer[d]
      /\ toServer' \in [Clients -> Seq(Packets)]
  <2>1. toServer' = [toServer EXCEPT ![c] = <<>>]
    BY <1>1, AtRead DEF TakePacket
  <2> QED
    BY <2>1 DEF TypeOK
<1>5. /\ handling'[w] = p /\ p # NoPacket
      /\ \A v \in Workers : v # w => handling'[v] = handling[v]
      /\ handling' \in [Workers -> Packets \cup {NoPacket}]
  BY <1>2, PacketFacts DEF TakePacket, TypeOK
<1>6. TypeOK'
  BY <1>1, <1>4, <1>5, ServicesSame DEF TypeOK
<1>7. ConnectionInv'
  BY <1>1, <1>a, ConnectionSame
<1>8. PacketInv'
  <2>1. OnePlace(c)'
    <3>1. toServer'[c] = <<>> /\ toClient'[c] = <<>>
      BY <1>1, <1>3, <1>4
    <3>2. Len(toServer'[c]) \in {0, 1} /\ Len(toClient'[c]) \in {0, 1}
      BY <3>1
    <3> QED
      BY <3>1, <3>2 DEF OnePlace
  <2>2. ASSUME NEW d \in Clients, d # c PROVE OnePlace(d)'
    <3>1. \A v \in Workers : Working(v, d)' => Working(v, d)
      BY <1>1, <1>3, <1>5, <2>2 DEF Working
    <3> QED
      BY <1>1, <1>4, <2>2, <3>1, OnePlaceSame DEF PacketInv
  <2>3. ASSUME NEW v \in Workers PROVE AtHand(v)'
    <3>1. CASE v = w
      BY <1>1, <1>3, <1>5, <1>a, <3>1 DEF AtHand
    <3>2. CASE v # w
      BY <1>1, <1>5, <1>a, <3>2, AtHandSame DEF PacketInv
    <3> QED
      BY <3>1, <3>2
  <2> QED
    BY <2>1, <2>2, <2>3 DEF PacketInv
<1>9. CallInv'
  <2>1. phase[w] = "idle" /\ ophase[w] = "idle"
    BY <1>3, PacketFacts DEF CallInv
  <2>2. UNCHANGED <<phase, req, ans, ophase, oreq>>
    BY <1>a
  <2> QED
    BY <1>5, <2>1, <2>2 DEF CallInv
<1>10. BalanceWritten'
  BY <1>1, WrittenSame
<1>11. EffectInv'
  <2>1. UNCHANGED <<effects, acked, sent, serving, toClient, cpc, open, phase, ans, req>>
    BY <1>1, AtRest
  <2>2. Known(c)'
    BY <1>4, <2>1 DEF EffectInv, Known, Confirms
  <2>3. ASSUME NEW d \in Clients, d # c PROVE Known(d)'
    BY <1>4, <2>1, <2>3, KnownSame DEF EffectInv
  <2>4. ASSUME NEW v \in Workers, handling'[v] # NoPacket PROVE Owed(v, serving[v])'
    <3>1. CASE v = w
      BY <1>3, <2>1, <3>1 DEF Owed, Changed
    <3>2. CASE v # w
      BY <1>5, <2>1, <2>4, <3>2 DEF EffectInv, Owed, Changed
    <3> QED
      BY <3>1, <3>2
  <2> QED
    BY <2>2, <2>3, <2>4 DEF EffectInv
<1> QED
  BY <1>6, <1>7, <1>8, <1>9, <1>10, <1>11

-----------------------------------------------------------------------------
(***************************************************************************)
(* The steps of process_request.                                           *)
(***************************************************************************)

\* An answer confirms what the worker has changed, and nothing else.
LEMMA AnswerKeeps ==
  ASSUME IInv, NEW w \in Workers, alive[w], handling[w] # NoPacket, UNCHANGED alive,
         NEW status \in Codes, NEW balance \in Money \cup {Unwritten},
         NEW code \in Otps \cup {NoCode}, Answer(w, status, balance, code),
         Changed(w) <=> /\ handling[w].r.op \in {"create", "deposit", "withdraw"}
                        /\ status = Success,
         handling[w].r \in Requests /\ status = Success => balance # Unwritten,
         UNCHANGED effects,
         \A v \in Workers : v # w => UNCHANGED <<phase[v], ans[v], req[v]>>
  PROVE  /\ toClient' \in [Clients -> Seq(Responses)]
         /\ handling' \in [Workers -> Packets \cup {NoPacket}]
         /\ ConnectionInv' /\ PacketInv' /\ BalanceWritten' /\ EffectInv'
<1> USE DEF IInv
<1>1. PICK c \in Clients : c = serving[w]
  BY AtWork
<1>2. /\ handling[w] \in Packets /\ toServer[c] = <<>> /\ toClient[c] = <<>>
      /\ cpc[c] \in {"pending", "gone"} /\ handling[w].n = sent[c]
  BY <1>1, AtWork
<1>3. PICK m \in Responses : m = Response(handling[w], status, balance, code)
  BY <1>2, ResponseTyped
<1>4. /\ m.n = sent[c] /\ m.r = handling[w].r /\ m.status = status /\ m.balance = balance
      /\ Confirms(m) <=> Changed(w)
  BY <1>2, <1>3, ResponseTyped DEF Confirms
<1>5. /\ toClient' \in [Clients -> Seq(Responses)]
      /\ handling' = [handling EXCEPT ![w] = NoPacket]
      /\ UNCHANGED <<backlog, serving, cpc, open, toServer, sent, acked>>
      /\ \A d \in Clients :
           \/ /\ toClient'[d] = toClient[d]
              /\ d # serving[w] \/ cpc[d] = "gone"
           \/ /\ d = serving[w] /\ cpc[d] = "pending"
              /\ Len(toClient'[d]) = 1 /\ toClient'[d] # <<>>
              /\ Head(toClient'[d]) = m /\ toClient'[d][1] = m
  BY <1>3, Answered
<1>6. /\ handling'[w] = NoPacket /\ \A v \in Workers : v # w => handling'[v] = handling[v]
      /\ handling' \in [Workers -> Packets \cup {NoPacket}]
  BY <1>5 DEF TypeOK
<1>7. /\ \A d \in Clients : d # c => toClient'[d] = toClient[d]
      /\ toClient'[c] # <<>> =>
           /\ cpc[c] = "pending" /\ Len(toClient'[c]) = 1
           /\ Head(toClient'[c]) = m /\ toClient'[c][1] = m
  BY <1>1, <1>2, <1>5
<1>8. ConnectionInv'
  BY <1>5, ConnectionSame
<1>9. \A v \in Workers : v # w => serving[v] # c
  <2>1. c # Nobody
    OBVIOUS
  <2> QED
    BY <1>1, <2>1 DEF ConnectionInv
<1>10. PacketInv'
  <2>1. OnePlace(c)'
    <3>1. Len(toServer'[c]) \in {0, 1} /\ Len(toClient'[c]) \in {0, 1}
      <4>1. Len(toServer'[c]) = 0
        BY <1>2, <1>5
      <4>2. toClient'[c] = <<>> => Len(toClient'[c]) = 0
        OBVIOUS
      <4> QED
        BY <1>7, <4>1, <4>2
    <3>2. \A v \in Workers : ~Working(v, c)'
      BY <1>5, <1>6, <1>9 DEF Working
    <3>3. toClient'[c] # <<>> => cpc'[c] = "pending" /\ Head(toClient'[c]).n = sent'[c]
      BY <1>4, <1>5, <1>7
    <3>4. toServer'[c] = <<>>
      BY <1>2, <1>5
    <3> QED
      BY <3>1, <3>2, <3>3, <3>4 DEF OnePlace
  <2>2. ASSUME NEW d \in Clients, d # c PROVE OnePlace(d)'
    <3>1. \A v \in Workers : Working(v, d)' => Working(v, d)
      BY <1>5, <1>6 DEF Working
    <3> QED
      BY <1>5, <1>7, <2>2, <3>1, OnePlaceSame DEF PacketInv
  <2>3. ASSUME NEW v \in Workers PROVE AtHand(v)'
    <3>1. CASE v = w
      BY <1>6, <3>1 DEF AtHand
    <3>2. CASE v # w
      BY <1>5, <1>6, <3>2, AtHandSame DEF PacketInv
    <3> QED
      BY <3>1, <3>2
  <2> QED
    BY <2>1, <2>2, <2>3 DEF PacketInv
<1>11. BalanceWritten'
  <2> SUFFICES ASSUME NEW d \in Clients, NEW k \in 1..Len(toClient'[d]),
                      toClient'[d][k].r \in Requests /\ toClient'[d][k].status = Success
               PROVE  toClient'[d][k].balance # Unwritten
    BY DEF BalanceWritten
  <2>1. CASE d # c
    BY <1>7, <2>1 DEF BalanceWritten
  <2>2. CASE d = c
    <3>1. toClient'[d] # <<>>
      OBVIOUS
    <3>2. Len(toClient'[d]) = 1 /\ toClient'[d][1] = m
      BY <1>7, <2>2, <3>1
    <3>3. k \in 1..1
      BY <3>2
    <3>4. k = 1
      BY <3>3
    <3> QED
      BY <1>4, <3>2, <3>4
  <2> QED
    BY <2>1, <2>2
<1>12. EffectInv'
  <2>1. UNCHANGED <<effects, acked, sent, serving, cpc, open, toServer>>
    BY <1>5
  <2>2. Known(c) /\ Owed(w, c)
    BY <1>1 DEF EffectInv
  <2>3. Known(c)'
    <3>1. effects[c] = acked[c] + 1 <=> Changed(w)
      BY <2>2 DEF Owed, TypeOK
    <3>2. toClient'[c] # <<>> =>
            (effects[c] = acked[c] + 1 <=> Confirms(Head(toClient'[c])))
      BY <1>4, <1>7, <3>1
    <3> QED
      BY <1>2, <2>1, <2>2, <3>2 DEF Known, Confirms
  <2>4. ASSUME NEW d \in Clients, d # c PROVE Known(d)'
    BY <1>7, <2>1, <2>4, KnownSame DEF EffectInv
  <2>5. ASSUME NEW v \in Workers, handling'[v] # NoPacket PROVE Owed(v, serving[v])'
    <3>1. v # w /\ handling[v] # NoPacket
      BY <1>6, <2>5
    <3> QED
      BY <2>1, <3>1 DEF EffectInv, Owed, Changed
  <2> QED
    BY <2>3, <2>4, <2>5 DEF EffectInv
<1> QED
  BY <1>5, <1>6, <1>8, <1>10, <1>11, <1>12

\* A call of a service leaves its packet and its client where they are.
LEMMA MeanwhileKeeps ==
  ASSUME IInv, Meanwhile, UNCHANGED alive
  PROVE  /\ ConnectionInv' /\ PacketInv' /\ BalanceWritten'
         /\ UNCHANGED <<backlog, serving, handling, cpc, open, toServer, toClient, sent, acked>>
<1>1. UNCHANGED <<backlog, serving, handling, cpc, open, toServer, toClient, sent, acked>>
  BY DEF Meanwhile, wires
<1> QED
  BY <1>1, ConnectionSame, PacketSame, WrittenSame DEF IInv

LEMMA MalformedKeeps ==
  ASSUME IInv, NEW w \in Workers, Malformed(w)
  PROVE  IInv'
<1>1. /\ handling[w].kind \in {"malformed", "corrupted"} /\ handling[w] # NoPacket
      /\ Answer(w, Error, 0, NoCode) /\ UNCHANGED <<services, effects>> /\ alive[w]
  BY PacketFacts DEF Malformed
<1>2. phase[w] = "idle" /\ ophase[w] = "idle"
  BY <1>1 DEF IInv, CallInv
<1>3. UNCHANGED <<phase, req, ans, ophase, oreq, alive>>
  BY <1>1, AtRest
<1>4. /\ Error \in Codes /\ Error # Success /\ 0 \in Money \cup {Unwritten}
      /\ NoCode \in Otps \cup {NoCode} /\ ~Changed(w)
  BY <1>2, ServerCodes DEF Changed
<1>5. /\ toClient' \in [Clients -> Seq(Responses)]
      /\ handling' \in [Workers -> Packets \cup {NoPacket}]
      /\ ConnectionInv' /\ PacketInv' /\ BalanceWritten' /\ EffectInv'
  BY <1>1, <1>3, <1>4, AnswerKeeps
<1>6. TypeOK'
  BY <1>1, <1>5, ServicesSame DEF IInv, TypeOK, Answer
<1>7. CallInv'
  BY <1>1, <1>2, <1>3 DEF IInv, CallInv, Answer, TypeOK
<1> QED
  BY <1>5, <1>6, <1>7 DEF IInv

LEMMA RespondKeeps ==
  ASSUME IInv, NEW w \in Workers, Respond(w)
  PROVE  IInv'
<1> DEFINE balance == IF req[w].op = "create" THEN req[w].amount ELSE ans[w].out
<1>1. /\ DB!Finish(w) /\ Answer(w, ans[w].code, balance, NoCode) /\ UNCHANGED <<otp, effects>>
  BY DEF Respond
<1>2. /\ phase[w] = "done" /\ phase' = [phase EXCEPT ![w] = "idle"]
      /\ req' = [req EXCEPT ![w] = NoRequest] /\ ans' = [ans EXCEPT ![w] = Bare(OK)]
      /\ UNCHANGED <<codes, up, ophase, oreq, oans, crashes, alive>> /\ alive[w]
  BY <1>1, SameInterface DEF DB!Finish, otp
<1>3. /\ handling[w].kind = "db" /\ handling[w] # NoPacket /\ req[w] = handling[w].r
      /\ handling[w].r \in Requests /\ ophase[w] = "idle"
  <2>1. handling[w].kind = "db" /\ req[w] = handling[w].r /\ ophase[w] = "idle"
    BY <1>2 DEF IInv, CallInv
  <2>2. handling[w] \in Packets \cup {NoPacket}
    BY DEF IInv, TypeOK
  <2> QED
    BY <2>1, <2>2, PacketFacts
<1>4. ans[w] \in Answers
  BY SameInterface DEF IInv, TypeOK, DB!TypeOK
<1>5. ans[w].code \in Codes /\ ans[w].out \in Money \cup {Unwritten}
  BY <1>4 DEF Answers
<1>6. /\ req[w].op \in {"create", "deposit", "withdraw", "balance"}
      /\ req[w].op = "create" => req[w].amount \in Money
  BY <1>3, RequestFacts
<1>7. balance \in Money \cup {Unwritten}
  BY <1>5, <1>6
<1>8. ans[w].code = Success => balance # Unwritten
  <2>1. ans[w].code = Success /\ req[w].op # "create" => ans[w].out \in Money
    BY <1>2, ServerCodes DEF IInv, CallInv
  <2> QED
    BY <1>6, <2>1
<1>9. Changed(w) <=> /\ handling[w].r.op \in {"create", "deposit", "withdraw"}
                     /\ ans[w].code = Success
  BY <1>2, <1>3, <1>6, ServerCodes DEF Changed
<1>10. \A v \in Workers : v # w => UNCHANGED <<phase[v], ans[v], req[v]>>
  BY <1>2 DEF IInv, TypeOK, DB!TypeOK
<1> HIDE DEF balance
<1>11. /\ toClient' \in [Clients -> Seq(Responses)]
       /\ handling' \in [Workers -> Packets \cup {NoPacket}]
       /\ ConnectionInv' /\ PacketInv' /\ BalanceWritten' /\ EffectInv'
  BY <1>1, <1>2, <1>3, <1>5, <1>7, <1>8, <1>9, <1>10, AnswerKeeps
<1>12. TypeOK'
  BY <1>1, <1>2, <1>11, DatabaseTyped, OtpSame DEF IInv, TypeOK, Answer
<1>13. CallInv'
  <2>1. phase'[w] = "idle" /\ ophase'[w] = "idle"
    BY <1>2, <1>3 DEF IInv, TypeOK, DB!TypeOK
  <2>2. \A v \in Workers : v # w => handling'[v] = handling[v]
    BY <1>1 DEF Answer, IInv, TypeOK
  <2> QED
    BY <1>2, <1>10, <2>1, <2>2 DEF IInv, CallInv
<1> QED
  BY <1>11, <1>12, <1>13 DEF IInv

LEMMA CallDatabaseKeeps ==
  ASSUME IInv, NEW w \in Workers, CallDatabase(w)
  PROVE  IInv'
<1>1. /\ handling[w].kind = "db" /\ DB!Start(w, handling[w].r) /\ Meanwhile
      /\ UNCHANGED <<otp, effects>>
  BY DEF CallDatabase
<1>2. handling[w].r \in Requests /\ handling[w] # NoPacket
  BY <1>1, PacketFacts DEF IInv, TypeOK
<1>3. /\ phase[w] = "idle" /\ phase' = [phase EXCEPT ![w] = "called"]
      /\ req' = [req EXCEPT ![w] = handling[w].r] /\ ans' = ans
      /\ UNCHANGED <<codes, up, ophase, oreq, oans, crashes, alive>>
  BY <1>1 DEF DB!Start, otp
<1>4. /\ ConnectionInv' /\ PacketInv' /\ BalanceWritten'
      /\ UNCHANGED <<backlog, serving, handling, cpc, open, toServer, toClient, sent, acked>>
  BY <1>1, <1>3, MeanwhileKeeps
<1>5. TypeOK'
  <2>1. DB!TypeOK'
    BY <1>1, <1>2, DatabaseTyped DEF IInv, TypeOK
  <2> QED
    BY <1>1, <1>3, <1>4, <2>1, OtpSame DEF IInv, TypeOK
<1>6. /\ phase'[w] = "called" /\ req'[w] = handling[w].r
      /\ \A v \in Workers : v # w => phase'[v] = phase[v] /\ req'[v] = req[v]
  BY <1>3 DEF IInv, TypeOK, DB!TypeOK
<1>7. CallInv'
  BY <1>1, <1>3, <1>4, <1>6 DEF IInv, CallInv
<1>8. EffectInv'
  <2>1. ASSUME NEW c \in Clients PROVE Known(c)'
    BY <1>1, <1>4, KnownSame DEF IInv, EffectInv
  <2>2. ASSUME NEW v \in Workers, handling'[v] # NoPacket PROVE Owed(v, serving[v])'
    BY <1>1, <1>3, <1>4, <1>6, <2>2 DEF IInv, EffectInv, Owed, Changed
  <2> QED
    BY <2>1, <2>2 DEF EffectInv
<1> QED
  BY <1>4, <1>5, <1>7, <1>8 DEF IInv

\* What the database does for w, and what it answers.
LEMMA Performed ==
  ASSUME DB!TypeOK, NEW w \in Workers, DB!Perform(w)
  PROVE  /\ alive[w] /\ phase[w] = "called" /\ phase' = [phase EXCEPT ![w] = "done"]
         /\ UNCHANGED <<req, alive>> /\ \A v \in Workers : v # w => ans'[v] = ans[v]
         /\ ans'[w].code = OK /\ req[w].op # "create" => ans'[w].out \in Money
<1> USE SameInterface DEF DB!TypeOK
<1>1. ASSUME NEW a \in Answers, DB!Effect(w, a)
      PROVE  /\ phase' = [phase EXCEPT ![w] = "done"] /\ UNCHANGED <<req, alive>>
             /\ ans'[w] = a /\ \A v \in Workers : v # w => ans'[v] = ans[v]
  BY <1>1 DEF DB!Effect
<1>2. alive[w] /\ phase[w] = "called"
  BY DEF DB!Perform
<1>3. \A code \in Codes : Bare(code) \in Answers /\ Bare(code).code = code
  BY DEF Bare, Answers
<1>4. OK \in Codes
  BY DEF Codes
<1>5. CASE DB!Refusal(w, req[w])
  <2>1. PICK code \in Codes : code # OK /\ DB!Effect(w, Bare(code))
    BY <1>5, FailuresAreCodes DEF DB!Refusal
  <2> QED
    BY <1>1, <1>2, <1>3, <2>1
<1>6. CASE DB!Opening(w, req[w])
  <2>1. DB!Effect(w, Bare(OK)) /\ req[w].op = "create"
    BY <1>6 DEF DB!Opening
  <2> QED
    BY <1>1, <1>2, <1>3, <1>4, <2>1
<1>7. CASE DB!Movement(w, req[w])
  <2>1. req[w] \in Requests /\ req[w].amount \in Money /\ req[w].id \in Ids
    BY <1>7 DEF DB!Movement, Requests, NoRequest
  <2>2. bal[req[w].id] \in Money
    BY <1>7, <2>1 DEF DB!Movement, DB!Fails, DB!Has
  <2>3. /\ Add(bal[req[w].id], req[w].amount) \in Money
        /\ Sub(bal[req[w].id], req[w].amount) \in Money
    BY <2>1, <2>2, AmountsClosed
  <2>4. bal'[req[w].id] \in Money
    BY <1>7, <2>1, <2>3 DEF DB!Movement
  <2>5. DB!Effect(w, [code |-> OK, out |-> bal'[req[w].id]])
    BY <1>7 DEF DB!Movement
  <2>6. [code |-> OK, out |-> bal'[req[w].id]] \in Answers
    BY <1>4, <2>4 DEF Answers
  <2> QED
    BY <1>1, <1>2, <2>4, <2>5, <2>6
<1>8. CASE DB!Inquiry(w, req[w])
  <2>1. req[w] \in Requests /\ req[w].id \in Ids
    BY <1>8 DEF DB!Inquiry, Requests, NoRequest
  <2>2. bal[req[w].id] \in Money
    BY <1>8, <2>1 DEF DB!Inquiry, DB!Fails, DB!Has
  <2>3. DB!Effect(w, [code |-> OK, out |-> bal[req[w].id]])
    BY <1>8 DEF DB!Inquiry
  <2>4. [code |-> OK, out |-> bal[req[w].id]] \in Answers
    BY <1>4, <2>2 DEF Answers
  <2> QED
    BY <1>1, <1>2, <2>2, <2>3, <2>4
<1> QED
  BY <1>5, <1>6, <1>7, <1>8 DEF DB!Perform

LEMMA DatabasePerformsKeeps ==
  ASSUME IInv, NEW w \in Workers, DatabasePerforms(w)
  PROVE  IInv'
<1>1. /\ DB!Perform(w) /\ Meanwhile /\ UNCHANGED otp
      /\ effects' = IF ans'[w].code = OK /\ req[w].op # "balance"
                    THEN [effects EXCEPT ![serving[w]] = @ + 1] ELSE effects
  BY DEF DatabasePerforms
<1>2. /\ alive[w] /\ phase[w] = "called" /\ phase' = [phase EXCEPT ![w] = "done"]
      /\ UNCHANGED <<req, alive>> /\ \A v \in Workers : v # w => ans'[v] = ans[v]
      /\ ans'[w].code = OK /\ req[w].op # "create" => ans'[w].out \in Money
  BY <1>1, Performed DEF IInv, TypeOK
<1>3. UNCHANGED <<codes, up, ophase, oreq, oans, crashes>>
  BY <1>1 DEF otp
<1>4. /\ ConnectionInv' /\ PacketInv' /\ BalanceWritten'
      /\ UNCHANGED <<backlog, serving, handling, cpc, open, toServer, toClient, sent, acked>>
  BY <1>1, <1>2, MeanwhileKeeps
<1>5. handling[w].kind = "db" /\ handling[w] # NoPacket
  <2>1. handling[w].kind = "db"
    BY <1>2 DEF IInv, CallInv
  <2> QED
    BY <2>1, PacketFacts
<1>6. PICK c \in Clients : c = serving[w]
  BY <1>5, AtWork DEF IInv
<1>7. /\ effects[c] = acked[c] /\ effects[c] < sent[c]
      /\ toServer[c] = <<>> /\ toClient[c] = <<>> /\ cpc[c] \in {"pending", "gone"}
      /\ effects \in [Clients -> 0..MaxSends] /\ effects[c] \in 0..MaxSends
      /\ sent[c] \in 0..MaxSends /\ acked[c] \in 0..MaxSends
  BY <1>2, <1>5, <1>6, AtWork DEF IInv, TypeOK, EffectInv, Owed, Changed
<1>8. /\ phase'[w] = "done" /\ \A v \in Workers : v # w => phase'[v] = phase[v]
  BY <1>2 DEF IInv, TypeOK, DB!TypeOK
<1>9. \A v \in Workers : v # w => serving[v] # c
  BY <1>6 DEF IInv, ConnectionInv, ServerAssumption
<1>10. /\ effects'[c] = IF Changed(w)' THEN acked[c] + 1 ELSE acked[c]
       /\ effects'[c] <= sent[c] /\ (Changed(w)' \/ effects'[c] < sent[c])
       /\ effects' \in [Clients -> 0..MaxSends]
       /\ \A d \in Clients : d # c => effects'[d] = effects[d]
  <2>1. Changed(w)' <=> ans'[w].code = OK /\ req[w].op # "balance"
    BY <1>2, <1>8 DEF Changed
  <2>2. CASE Changed(w)'
    <3>1. effects' = [effects EXCEPT ![c] = effects[c] + 1]
      BY <1>1, <1>6, <2>1, <2>2
    <3>2. effects[c] + 1 \in 0..MaxSends /\ effects[c] + 1 <= sent[c]
      BY <1>7
    <3> QED
      BY <1>7, <2>2, <3>1, <3>2
  <2>3. CASE ~Changed(w)'
    <3>1. effects' = effects
      BY <1>1, <2>1, <2>3
    <3> QED
      BY <1>7, <2>3, <3>1
  <2> QED
    BY <2>2, <2>3
<1>11. TypeOK'
  <2>1. DB!TypeOK'
    BY <1>1, DatabaseTyped DEF IInv, TypeOK
  <2> QED
    BY <1>2, <1>3, <1>4, <1>10, <2>1, OtpSame DEF IInv, TypeOK
<1>12. CallInv'
  BY <1>2, <1>3, <1>4, <1>8 DEF IInv, CallInv
<1>13. EffectInv'
  <2>1. Known(c)'
    <3>1. effects'[c] - acked[c] \in {0, 1}
      BY <1>7, <1>10
    <3> QED
      BY <1>4, <1>7, <1>10, <3>1 DEF Known
  <2>2. ASSUME NEW d \in Clients, d # c PROVE Known(d)'
    BY <1>4, <1>10, <2>2, KnownSame DEF IInv, EffectInv
  <2>3. ASSUME NEW v \in Workers, handling'[v] # NoPacket PROVE Owed(v, serving[v])'
    <3>1. CASE v = w
      BY <1>4, <1>6, <1>10, <3>1 DEF Owed
    <3>2. CASE v # w
      <4>1. serving[v] \in Clients /\ serving[v] # c /\ Owed(v, serving[v])
        BY <1>4, <1>9, <2>3, <3>2 DEF IInv, PacketInv, AtHand, EffectInv
      <4> QED
        BY <1>2, <1>4, <1>8, <1>10, <3>2, <4>1 DEF Owed, Changed
    <3> QED
      BY <3>1, <3>2
  <2> QED
    BY <2>1, <2>2, <2>3 DEF EffectInv
<1> QED
  BY <1>4, <1>11, <1>12, <1>13 DEF IInv

\* Calls of the OTP service concern the database and the clients not at all.
LEMMA OtpStepKeeps ==
  ASSUME IInv, Meanwhile, UNCHANGED <<ledger, effects>>, OTP!TypeOK',
         crashes' \in 0..MaxCrashes,
         \A v \in Workers : ophase'[v] # "idle" =>
           \/ ophase[v] # "idle" /\ oreq'[v] = oreq[v]
           \/ handling[v].kind = "otp" /\ oreq'[v] = handling[v].r
  PROVE  IInv'
<1>1. /\ ConnectionInv' /\ PacketInv' /\ BalanceWritten'
      /\ UNCHANGED <<backlog, serving, handling, cpc, open, toServer, toClient, sent, acked>>
  BY MeanwhileKeeps DEF ledger
<1>2. UNCHANGED <<phase, req, ans>>
  BY DEF ledger
<1>3. TypeOK'
  BY <1>1, LedgerSame DEF IInv, TypeOK
<1>4. CallInv'
  BY <1>1, <1>2 DEF IInv, CallInv
<1>5. EffectInv'
  BY <1>1, <1>2, EffectSame DEF IInv
<1> QED
  BY <1>1, <1>3, <1>4, <1>5 DEF IInv

LEMMA CallOtpKeeps ==
  ASSUME IInv, NEW w \in Workers, CallOtp(w)
  PROVE  IInv'
<1>1. /\ handling[w].kind = "otp" /\ OTP!Start(w, handling[w].r) /\ Meanwhile
      /\ UNCHANGED <<ledger, crashes, effects>>
  BY DEF CallOtp
<1>2. handling[w].r \in OTP!Requests
  BY <1>1, PacketFacts DEF IInv, TypeOK
<1>3. OTP!TypeOK'
  BY <1>1, <1>2, OtpTyped DEF IInv, TypeOK
<1>4. \A v \in Workers : ophase'[v] # "idle" =>
        \/ ophase[v] # "idle" /\ oreq'[v] = oreq[v]
        \/ handling[v].kind = "otp" /\ oreq'[v] = handling[v].r
  BY <1>1 DEF OTP!Start, IInv, TypeOK, OTP!TypeOK
<1> QED
  BY <1>1, <1>3, <1>4, OtpStepKeeps DEF IInv, TypeOK

LEMMA OtpPerformsKeeps ==
  ASSUME IInv, NEW w \in Workers, OtpPerforms(w)
  PROVE  IInv'
<1>1. OTP!Perform(w) /\ Meanwhile /\ UNCHANGED <<ledger, crashes, effects>>
  BY DEF OtpPerforms
<1>2. OTP!TypeOK'
  BY <1>1, OtpTyped DEF IInv, TypeOK
<1>3. UNCHANGED oreq /\ ophase[w] = "called" /\ ophase' = [ophase EXCEPT ![w] = "done"]
  BY <1>1 DEF OTP!Perform, OTP!Issue, OTP!Deny, OTP!Spend, OTP!Refuse, OTP!Effect
<1>4. \A v \in Workers : ophase'[v] # "idle" => ophase[v] # "idle" /\ oreq'[v] = oreq[v]
  BY <1>3 DEF IInv, TypeOK, OTP!TypeOK
<1> QED
  BY <1>1, <1>2, <1>4, OtpStepKeeps DEF IInv, TypeOK

LEMMA OtpFailsKeeps ==
  ASSUME IInv, OtpFails
  PROVE  IInv'
<1>1. Meanwhile /\ UNCHANGED <<ledger, effects>>
  BY DEF OtpFails
<1>2. crashes' \in 0..MaxCrashes
  BY DEF OtpFails, IInv, TypeOK
<1>3. OTP!TypeOK'
  BY CrashTyped DEF OtpFails, IInv, TypeOK
<1>4. \A v \in Workers : ophase'[v] # "idle" => ophase[v] # "idle" /\ oreq'[v] = oreq[v]
  <2>1. CASE OTP!Crash
    <3>1. PICK cut \in SUBSET {v \in Workers : ophase[v] # "idle"} :
            ophase' = [v \in Workers |-> IF v \in cut THEN "done" ELSE ophase[v]]
      BY <2>1 DEF OTP!Crash
    <3>2. UNCHANGED oreq
      BY <2>1 DEF OTP!Crash
    <3> QED
      BY <3>1, <3>2
  <2>2. CASE OTP!Restart
    BY <2>2 DEF OTP!Restart
  <2> QED
    BY <2>1, <2>2 DEF OtpFails
<1> QED
  BY <1>1, <1>2, <1>3, <1>4, OtpStepKeeps

LEMMA RespondOtpKeeps ==
  ASSUME IInv, NEW w \in Workers, RespondOtp(w)
  PROVE  IInv'
<1>1. /\ OTP!Over(w) /\ ophase[w] # "idle" /\ alive[w]
      /\ OTP!Return(w) \/ OTP!GiveUp(w)
      /\ UNCHANGED <<ledger, crashes, effects>>
  BY DEF RespondOtp, OTP!Return, OTP!GiveUp, OTP!Over
<1>2. oans[w].otp \in Otps \cup {NoCode}
  BY DEF IInv, TypeOK, OTP!TypeOK, OTP!Answers
<1>3. PICK status \in Codes, code \in Otps \cup {NoCode} : Answer(w, status, 0, code)
  BY <1>2, ServerCodes DEF RespondOtp
<1>4. handling[w].kind = "otp" /\ handling[w] # NoPacket /\ phase[w] = "idle"
  <2>1. handling[w].kind = "otp" /\ phase[w] = "idle"
    BY <1>1 DEF IInv, CallInv
  <2> QED
    BY <2>1, PacketFacts
<1>5. handling[w].r.op \in {"generate", "verify"}
  BY <1>4, PacketFacts, RequestFacts DEF IInv, TypeOK
<1>6. UNCHANGED <<phase, req, ans, alive>>
  BY <1>1 DEF ledger
<1>7. ~Changed(w) /\ 0 \in Money \cup {Unwritten} /\ 0 # Unwritten
  BY <1>4, ServerCodes DEF Changed
<1>8. /\ toClient' \in [Clients -> Seq(Responses)]
      /\ handling' \in [Workers -> Packets \cup {NoPacket}]
      /\ ConnectionInv' /\ PacketInv' /\ BalanceWritten' /\ EffectInv'
  BY <1>1, <1>3, <1>4, <1>5, <1>6, <1>7, AnswerKeeps
<1>9. OTP!TypeOK'
  BY <1>1, OtpTyped DEF IInv, TypeOK
<1>10. TypeOK'
  BY <1>1, <1>3, <1>8, <1>9, LedgerSame DEF IInv, TypeOK, Answer
<1>11. CallInv'
  <2>1. /\ ophase'[w] = "idle"
        /\ \A v \in Workers : v # w => ophase'[v] = ophase[v] /\ oreq'[v] = oreq[v]
    BY <1>1 DEF OTP!Over, IInv, TypeOK, OTP!TypeOK
  <2>2. \A v \in Workers : v # w => handling'[v] = handling[v]
    BY <1>3 DEF Answer, IInv, TypeOK
  <2> QED
    BY <1>4, <1>6, <2>1, <2>2 DEF IInv, CallInv
<1> QED
  BY <1>8, <1>10, <1>11 DEF IInv

LEMMA DieKeeps ==
  ASSUME IInv, NEW w \in Workers, Die(w)
  PROVE  IInv'
<1> USE DEF IInv
<1>1. /\ DB!Kill(w) /\ OTP!Kill(w)
      /\ UNCHANGED <<crashes, backlog, serving, handling, cpc, toClient, sent, effects, acked>>
  BY DEF Die
<1>2. UNCHANGED <<phase, req, ans, ophase, oreq>>
  BY <1>1 DEF DB!Kill, OTP!Kill
<1>b. /\ alive[w] /\ ~alive'[w] /\ \A v \in Workers : v # w => alive'[v] = alive[v]
  BY <1>1 DEF DB!Kill, TypeOK, DB!TypeOK
<1>3. /\ toServer' \in [Clients -> Seq(Packets)]
      /\ \A c \in Clients : IF serving[w] = c THEN toServer'[c] = <<>> /\ ~open'[c]
                            ELSE toServer'[c] = toServer[c] /\ open'[c] = open[c]
  <2>1. /\ toServer' = [c \in Clients |-> IF serving[w] = c THEN <<>> ELSE toServer[c]]
        /\ open' = [c \in Clients |-> open[c] /\ serving[w] # c]
    BY DEF Die
  <2>2. toServer' \in [Clients -> Seq(Packets)]
    BY <2>1 DEF TypeOK
  <2>3. \A c \in Clients : IF serving[w] = c THEN toServer'[c] = <<>> /\ ~open'[c]
                           ELSE toServer'[c] = toServer[c] /\ (open'[c] <=> open[c])
    BY <2>1, Zenon
  <2>4. open \in [Clients -> BOOLEAN] /\ open' \in [Clients -> BOOLEAN]
    BY <2>1 DEF TypeOK
  <2>5. \A c \in Clients : (open'[c] <=> open[c]) => open'[c] = open[c]
    BY <2>4
  <2> QED
    BY <2>2, <2>3, <2>5
<1>4. TypeOK'
  <2>1. DB!TypeOK' /\ OTP!TypeOK'
    BY <1>1, DatabaseTyped, OtpTyped DEF TypeOK
  <2>2. open' \in [Clients -> BOOLEAN]
    BY DEF Die
  <2> QED
    BY <1>1, <1>3, <2>1, <2>2 DEF TypeOK
<1>5. ConnectionInv'
  <2>1. ASSUME NEW v \in Workers, serving'[v] # Nobody
        PROVE  /\ cpc'[serving'[v]] \in {"ready", "pending", "gone"}
               /\ open'[serving'[v]] <=> alive'[v]
    <3>1. serving[v] \in Clients /\ serving'[v] = serving[v] /\ cpc' = cpc
      BY <1>1, <2>1 DEF TypeOK
    <3>2. CASE v = w
      BY <1>3, <1>b, <2>1, <3>1, <3>2 DEF ConnectionInv
    <3>3. CASE v # w
      <4>1. serving[v] # serving[w]
        BY <2>1, <3>1, <3>3 DEF ConnectionInv
      <4> QED
        BY <1>3, <1>b, <2>1, <3>1, <3>3, <4>1 DEF ConnectionInv
    <3> QED
      BY <3>2, <3>3
  <2>2. \A c \in Clients : cpc'[c] \in {"off", "waiting"} => ~open'[c]
    BY <1>1, <1>3 DEF ConnectionInv
  <2> QED
    BY <1>1, <2>1, <2>2 DEF ConnectionInv
<1>6. PacketInv'
  <2>1. ASSUME NEW c \in Clients PROVE OnePlace(c)'
    <3>1. \A v \in Workers : Working(v, c)' => Working(v, c)
      BY <1>1 DEF Working
    <3>2. CASE serving[w] # c
      BY <1>1, <1>3, <3>1, <3>2, OnePlaceSame DEF PacketInv
    <3>3. CASE serving[w] = c
      <4>1. toServer'[c] = <<>> /\ Len(toServer'[c]) \in {0, 1} /\ Len(toClient'[c]) \in {0, 1}
        BY <1>1, <1>3, <3>3 DEF PacketInv, OnePlace
      <4> QED
        BY <1>1, <3>1, <3>3, <4>1 DEF PacketInv, OnePlace
    <3> QED
      BY <3>2, <3>3
  <2>2. ASSUME NEW v \in Workers PROVE AtHand(v)'
    BY <1>1, <1>b DEF PacketInv, AtHand
  <2> QED
    BY <2>1, <2>2 DEF PacketInv
<1>7. CallInv' /\ BalanceWritten'
  BY <1>1, <1>2, CallSame, WrittenSame
<1>8. EffectInv'
  <2>1. ASSUME NEW c \in Clients PROVE Known(c)'
    BY <1>1, <1>3 DEF EffectInv, Known, Confirms
  <2>2. ASSUME NEW v \in Workers, handling'[v] # NoPacket PROVE Owed(v, serving[v])'
    BY <1>1, <1>2, <2>2 DEF EffectInv, Owed, Changed
  <2> QED
    BY <2>1, <2>2 DEF EffectInv
<1> QED
  BY <1>4, <1>5, <1>6, <1>7, <1>8

-----------------------------------------------------------------------------
(***************************************************************************)
(* The invariant, and what follows from it.                                *)
(***************************************************************************)
LEMMA InitHolds == Init => IInv
<1> SUFFICES ASSUME Init PROVE IInv
  OBVIOUS
<1>1. DB!TypeOK
  BY SameInterface DEF Init, DB!Init, DB!TypeOK, Bare, Answers, Codes, OK
<1>2. OTP!TypeOK
  BY DEF Init, OTP!Init, OTP!TypeOK, OTP!Failure, OTP!Answers
<1>3. TypeOK
  BY <1>1, <1>2 DEF Init, TypeOK
<1>4. /\ \A w \in Workers : handling[w] = NoPacket /\ serving[w] = Nobody
      /\ \A w \in Workers : phase[w] = "idle" /\ ophase[w] = "idle"
      /\ \A c \in Clients : /\ toServer[c] = <<>> /\ toClient[c] = <<>>
                            /\ cpc[c] = "off" /\ ~open[c]
                            /\ effects[c] = 0 /\ acked[c] = 0 /\ sent[c] = 0
      /\ Len(backlog) = 0
  BY DEF Init, DB!Init, OTP!Init
<1>5. ConnectionInv
  BY <1>4 DEF ConnectionInv
<1>6. PacketInv
  <2>1. \A c \in Clients : Len(toServer[c]) \in {0, 1} /\ Len(toClient[c]) \in {0, 1}
    BY <1>4
  <2> QED
    BY <1>4, <2>1 DEF PacketInv, OnePlace, AtHand
<1>7. CallInv
  BY <1>4 DEF CallInv
<1>8. EffectInv
  BY <1>4 DEF EffectInv, Known
<1>9. BalanceWritten
  BY <1>4 DEF BalanceWritten
<1> QED
  BY <1>3, <1>5, <1>6, <1>7, <1>8, <1>9 DEF IInv

LEMMA WorkerKeeps ==
  ASSUME IInv, NEW w \in Workers, WorkerStep(w)
  PROVE  IInv'
<1>1. CASE Accept(w) \/ HandshakeFails(w)
  BY <1>1, AcceptKeeps, HandshakeFailsKeeps
<1>2. CASE \E c \in Clients : EndOfConnection(w, c) \/ WrongSize(w, c)
  BY <1>2, CloseKeeps DEF EndOfConnection, WrongSize
<1>3. CASE \E c \in Clients : BadChecksum(w, c) \/ TakePacket(w, c)
  BY <1>3, BadChecksumKeeps, TakePacketKeeps
<1>4. CASE Malformed(w) \/ CallDatabase(w) \/ DatabasePerforms(w) \/ Respond(w)
  BY <1>4, MalformedKeeps, CallDatabaseKeeps, DatabasePerformsKeeps, RespondKeeps
<1>5. CASE CallOtp(w) \/ OtpPerforms(w) \/ RespondOtp(w)
  BY <1>5, CallOtpKeeps, OtpPerformsKeeps, RespondOtpKeeps
<1> QED
  BY <1>1, <1>2, <1>3, <1>4, <1>5 DEF WorkerStep

LEMMA StepKeeps == IInv /\ [Next]_vars => IInv'
<1> SUFFICES ASSUME IInv, [Next]_vars PROVE IInv'
  OBVIOUS
<1>1. CASE UNCHANGED vars
  <2>1. /\ UNCHANGED services
        /\ UNCHANGED <<backlog, serving, handling, cpc, open, toServer, toClient, sent,
                       effects, acked>>
    BY <1>1 DEF vars, wires
  <2>2. TypeOK'
    BY <2>1, ServicesSame DEF IInv, TypeOK
  <2> QED
    BY <2>1, <2>2, AtRest, ConnectionSame, PacketSame, CallSame, EffectSame, WrittenSame DEF IInv
<1>2. ASSUME NEW c \in Clients,
             Connect(c) \/ (\E p \in Packets : Send(c, p)) \/ Receive(c) \/ RequestFails(c)
      PROVE  IInv'
  BY <1>2, ConnectKeeps, SendKeeps, ReceiveKeeps, RequestFailsKeeps
<1>5. ASSUME NEW cs \in SUBSET Clients, EndProcess(cs) PROVE IInv'
  BY <1>5, EndProcessKeeps
<1>3. ASSUME NEW w \in Workers, WorkerStep(w) \/ Die(w) PROVE IInv'
  BY <1>3, WorkerKeeps, DieKeeps
<1>4. CASE OtpFails
  BY <1>4, OtpFailsKeeps
<1> QED
  BY <1>1, <1>2, <1>3, <1>4, <1>5 DEF Next

\* For any number of clients, workers, accounts, codes and packets, a packet is
\* in one place, and what its worker has changed and not said is known.
THEOREM InvariantHolds == Spec => []IInv
BY InitHolds, StepKeeps, PTL DEF Spec

\* The response a client reads next answers the packet it sent last
\* (send_request: tls_write, then tls_read).
THEOREM AnswersArePaired == Spec => []AnswersPaired
<1>1. IInv => AnswersPaired
  BY DEF IInv, PacketInv, OnePlace, AnswersPaired
<1> QED
  BY <1>1, InvariantHolds, PTL

\* A client that waits for nothing knows what its requests have done, and one
\* that waits is in doubt of one (process_request answers after the call).
THEOREM EffectsAreKnown == Spec => []EffectsKnown
<1>1. IInv => EffectsKnown
  BY DEF IInv, EffectInv, Known, EffectsKnown
<1> QED
  BY <1>1, InvariantHolds, PTL

\* The uninitialized new_balance of process_request never reaches a client in a
\* response that reports success.
THEOREM BalancesAreWritten == Spec => []BalanceWritten
<1>1. IInv => BalanceWritten
  BY DEF IInv
<1> QED
  BY <1>1, InvariantHolds, PTL
-----------------------------------------------------------------------------
(***************************************************************************)
(* The server with its clients is one of the environments the two promises *)
(* are made to.                                                            *)
(***************************************************************************)

\* What the database and the OTP service see of a step.
LEMMA ServicesSee ==
  ASSUME TypeOK, [Next]_vars
  PROVE  [DB!Next]_(DB!vars) /\ [OTP!Next]_(OTP!vars)
<1> USE DEF DB!vars, OTP!vars, ledger, otp, services, Meanwhile
<1> DEFINE Both == [DB!Next]_(DB!vars) /\ [OTP!Next]_(OTP!vars)
<1>1. ASSUME UNCHANGED services PROVE Both
  BY <1>1
<1>2. ASSUME NEW w \in Workers, CallDatabase(w) PROVE Both
  <2>1. handling[w].r \in DB!Requests
    <3>1. handling[w] \in Packets \cup {NoPacket} /\ handling[w].kind = "db"
      BY <1>2 DEF TypeOK, CallDatabase
    <3>2. \A k \in OtherKinds : k # "db"
      BY ServerAssumption
    <3> QED
      BY <3>1, <3>2, SameInterface DEF Packets, NoPacket
  <2>2. DB!Start(w, handling[w].r) /\ UNCHANGED otp /\ UNCHANGED alive
    BY <1>2 DEF CallDatabase, DB!Start
  <2>3. DB!Next
    BY <2>1, <2>2 DEF DB!Next
  <2> QED
    BY <2>2, <2>3
<1>3. ASSUME NEW w \in Workers, DatabasePerforms(w) \/ Respond(w) PROVE Both
  <2>1. DB!Perform(w) \/ DB!Finish(w)
    BY <1>3 DEF DatabasePerforms, Respond
  <2>2. UNCHANGED otp /\ UNCHANGED alive
    BY <1>3, <2>1 DEF DatabasePerforms, Respond, DB!Perform, DB!Refusal, DB!Opening,
      DB!Movement, DB!Inquiry, DB!Effect, DB!Finish
  <2>3. DB!Next
    BY <2>1 DEF DB!Next
  <2> QED
    BY <2>2, <2>3
<1>4. ASSUME NEW w \in Workers, CallOtp(w) PROVE Both
  <2>1. handling[w].r \in OTP!Requests
    <3>1. handling[w] \in Packets \cup {NoPacket} /\ handling[w].kind = "otp"
      BY <1>4 DEF TypeOK, CallOtp
    <3>2. \A k \in OtherKinds : k # "otp"
      BY ServerAssumption
    <3> QED
      BY <3>1, <3>2 DEF Packets, NoPacket
  <2>2. OTP!Start(w, handling[w].r) /\ UNCHANGED ledger
    BY <1>4 DEF CallOtp
  <2>3. OTP!Next
    BY <2>1, <2>2 DEF OTP!Next
  <2> QED
    BY <2>2, <2>3
<1>5. ASSUME NEW w \in Workers, OtpPerforms(w) \/ RespondOtp(w) PROVE Both
  <2>1. /\ OTP!Perform(w) \/ OTP!Return(w) \/ OTP!GiveUp(w)
        /\ UNCHANGED ledger
    BY <1>5 DEF OtpPerforms, RespondOtp
  <2>2. OTP!Next
    BY <2>1 DEF OTP!Next
  <2> QED
    BY <2>1, <2>2
<1>6. ASSUME NEW w \in Workers, Die(w) PROVE Both
  BY <1>6 DEF Die, DB!Next, OTP!Next
<1>7. ASSUME OtpFails PROVE Both
  BY <1>7 DEF OtpFails, OTP!Next
<1>8. ASSUME NEW w \in Workers, WorkerStep(w) PROVE Both
  <2>1. CASE UNCHANGED services
    BY <1>1, <2>1
  <2>2. CASE ~UNCHANGED services
    <3>1. \/ CallDatabase(w) \/ DatabasePerforms(w) \/ Respond(w)
          \/ CallOtp(w) \/ OtpPerforms(w) \/ RespondOtp(w)
      BY <1>8, <2>2 DEF WorkerStep, Accept, HandshakeFails, Malformed, EndOfConnection,
        WrongSize, CloseConnection, BadChecksum, TakePacket
    <3> QED
      BY <1>2, <1>3, <1>4, <1>5, <3>1
  <2> QED
    BY <2>1, <2>2
<1>9. ASSUME NEW c \in Clients, \/ Connect(c) \/ Receive(c) \/ RequestFails(c)
                                \/ \E p \in Packets : Send(c, p)
      PROVE  Both
  BY <1>1, <1>9 DEF Connect, Receive, RequestFails, Send
<1>10. ASSUME NEW cs \in SUBSET Clients, EndProcess(cs) PROVE Both
  BY <1>1, <1>10 DEF EndProcess
<1>11. CASE UNCHANGED vars
  BY <1>1, <1>11 DEF vars
<1>12. ASSUME Next PROVE Both
  <2> HIDE DEF Both
  <2>1. ASSUME NEW c \in Clients,
               Connect(c) \/ (\E p \in Packets : Send(c, p)) \/ Receive(c) \/ RequestFails(c)
        PROVE  Both
    BY <1>9, <2>1
  <2>2. ASSUME NEW w \in Workers, WorkerStep(w) \/ Die(w) PROVE Both
    BY <1>6, <1>8, <2>2
  <2> QED
    BY <1>7, <1>10, <1>12, <2>1, <2>2 DEF Next
<1> QED
  BY <1>11, <1>12

\* process_request, with any clients and whatever dies meanwhile, calls the
\* database and the OTP service as their promises have it: a worker has one call
\* of each at a time, with arguments they are defined for, and takes its answer.
THEOREM PromisesAreUsed == Spec => DB!Spec /\ OTP!Spec
<1>1. Init => DB!Init /\ OTP!Init
  BY DEF Init
<1>2. IInv /\ [Next]_vars => [DB!Next]_(DB!vars) /\ [OTP!Next]_(OTP!vars)
  BY ServicesSee DEF IInv
<1> QED
  BY <1>1, <1>2, InvariantHolds, PTL DEF Spec, DB!Spec, OTP!Spec
=============================================================================

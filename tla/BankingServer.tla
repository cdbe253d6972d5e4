---------------------------- MODULE BankingServer ---------------------------
(***************************************************************************)
(* The requests and responses of server/banking_server.c: clients that     *)
(* connect, wait in the listen backlog, and exchange packets in lockstep;  *)
(* workers that take one connection at a time (worker_main) and answer     *)
(* every packet of it (process_request) until it ends.                     *)
(*                                                                         *)
(* The account database and the one-time-password service appear as what   *)
(* they promise, Ledger.tla and OtpPromise.tla.  A packet is what the      *)
(* checks of the server tell apart, a response its status, its balance and *)
(* the code in its message; TLS is a reliable channel.                     *)
(***************************************************************************)
EXTENDS AccountCalls, Sequences

CONSTANTS
  Clients,      \* connections, each of a client of its own
  MaxSends,     \* bound of the model: the packets a client may send
  Sends,        \* Sends[c]: bound of the model: the packets client c sends
  OtherKinds,   \* the kinds of refused packets that clients send
  Otps,         \* the one-time passwords
  MaxOtps,      \* MAX_OTPS
  MaxCrashes,   \* bound of the model: crashes of the OTP service
  NoCode,       \* no one-time password
  Nobody        \* no client

ASSUME ServerAssumption ==
  /\ MaxSends \in Nat /\ Sends \in [Clients -> 0..MaxSends]
  /\ MaxOtps \in Nat \ {0} /\ MaxCrashes \in Nat
  /\ OtherKinds \subseteq {"malformed", "corrupted", "partial"}
  /\ Nobody \notin Clients /\ NoCode \notin Otps

VARIABLES
  bal, opened, phase, req, ans, alive,          \* the account database
  codes, up, ophase, oreq, oans, crashes,       \* the OTP service
  backlog,    \* connections no worker has accepted
  serving,    \* serving[w]: the client whose connection worker w holds
  handling,   \* handling[w]: the packet process_request works on
  cpc,        \* cpc[c]: where client c stands
  open,       \* open[c]: the server's end of c's connection is open
  toServer,   \* toServer[c]: packets on their way
  toClient,   \* toClient[c]: responses on their way
  sent,       \* sent[c]: how many packets c has sent
  effects,    \* history: how many requests of c have changed the database
  acked       \* history: how many of those it has been told the success of

DB  == INSTANCE Ledger
OTP == INSTANCE OtpPromise WITH Accounts <- Ids, Codes <- Otps, NoOne <- NoAccount,
                               phase <- ophase, req <- oreq, ans <- oans

ledger == <<bal, opened, phase, req, ans, alive>>
otp    == <<codes, up, ophase, oreq, oans, crashes>>
services == <<ledger, otp>>
wires  == <<toServer, toClient>>
vars == <<services, backlog, serving, handling, cpc, open, wires, sent, effects, acked>>

\* The codes of protocol.h (STATUS_...) that responses carry.
Success == 0
Error   == -1

\* A whole packet with an account operation or one of the OTP service, and the
\* other kinds: a payload longer than its operation's, a wrong checksum, and a
\* record that is not one packet long.  n numbers the packets of a client.
Packets ==
       [kind : {"db"}, r : Requests, n : 1..MaxSends]
  \cup [kind : {"otp"}, r : OTP!Requests, n : 1..MaxSends]
  \cup [kind : OtherKinds, r : {NoRequest}, n : 1..MaxSends]
NoPacket == [kind |-> "none", r |-> NoRequest, n |-> 0]

\* n is the packet a response answers, r its request; the wire carries neither.
Responses == [n : 1..MaxSends, r : Requests \cup OTP!Requests \cup {NoRequest},
              status : Codes, balance : Money \cup {Unwritten}, otp : Otps \cup {NoCode}]

Response(p, status, balance, code) ==
  [n |-> p.n, r |-> p.r, status |-> status, balance |-> balance, otp |-> code]

TypeOK ==
  /\ DB!TypeOK /\ OTP!TypeOK /\ crashes \in 0..MaxCrashes
  /\ backlog \in Seq(Clients)
  /\ serving \in [Workers -> Clients \cup {Nobody}]
  /\ handling \in [Workers -> Packets \cup {NoPacket}]
  /\ cpc \in [Clients -> {"off", "waiting", "ready", "pending", "gone"}]
  /\ open \in [Clients -> BOOLEAN]
  /\ toServer \in [Clients -> Seq(Packets)]
  /\ toClient \in [Clients -> Seq(Responses)]
  /\ sent \in [Clients -> 0..MaxSends]
  /\ effects \in [Clients -> 0..MaxSends]
  /\ acked \in [Clients -> 0..MaxSends]

Init ==
  /\ DB!Init /\ OTP!Init /\ crashes = 0
  /\ backlog = <<>>
  /\ serving = [w \in Workers |-> Nobody]
  /\ handling = [w \in Workers |-> NoPacket]
  /\ cpc = [c \in Clients |-> "off"]
  /\ open = [c \in Clients |-> FALSE]
  /\ toServer = [c \in Clients |-> <<>>]
  /\ toClient = [c \in Clients |-> <<>>]
  /\ sent = [c \in Clients |-> 0]
  /\ effects = [c \in Clients |-> 0]
  /\ acked = [c \in Clients |-> 0]
-----------------------------------------------------------------------------
(***************************************************************************)
(* A client: connect, then send_request again and again, then close.       *)
(***************************************************************************)
Connect(c) ==
  /\ cpc[c] = "off"
  /\ cpc' = [cpc EXCEPT ![c] = "waiting"]
  /\ backlog' = Append(backlog, c)
  /\ UNCHANGED <<services, serving, handling, open, wires, sent, effects, acked>>

Send(c, p) ==
  /\ cpc[c] = "ready" /\ sent[c] < Sends[c] /\ p.n = sent[c] + 1
  /\ cpc' = [cpc EXCEPT ![c] = "pending"]
  /\ sent' = [sent EXCEPT ![c] = @ + 1]
  /\ toServer' = [toServer EXCEPT ![c] = IF open[c] THEN Append(@, p) ELSE @]
  /\ UNCHANGED <<services, backlog, serving, handling, open, toClient, effects, acked>>

\* What tells a client that its request has changed the database.
Confirms(m) == m.r.op \in {"create", "deposit", "withdraw"} /\ m.status = Success

Receive(c) ==
  /\ cpc[c] = "pending" /\ toClient[c] # <<>>
  /\ cpc' = [cpc EXCEPT ![c] = "ready"]
  /\ acked' = [acked EXCEPT ![c] = IF Confirms(Head(toClient[c])) THEN @ + 1 ELSE @]
  /\ toClient' = [toClient EXCEPT ![c] = Tail(@)]
  /\ UNCHANGED <<services, backlog, serving, handling, open, toServer, sent, effects>>

\* The server has closed the connection, and c has read all it sent.
Lost(c) == cpc[c] \in {"ready", "pending"} /\ ~open[c] /\ toClient[c] = <<>>

\* tls_write or tls_read fails, and send_request with it.  The client goes back
\* to its menu, with the connection it has.
RequestFails(c) ==
  /\ Lost(c)
  /\ cpc' = [cpc EXCEPT ![c] = "ready"]
  /\ UNCHANGED <<services, backlog, serving, handling, open, wires, sent, effects, acked>>

\* The process of the clients cs ends, by itself or by a signal, whatever they
\* wait for; those that are not connected never will be.
EndProcess(cs) ==
  /\ cpc' = [c \in Clients |-> IF c \in cs THEN "gone" ELSE cpc[c]]
  /\ toClient' = [c \in Clients |-> IF c \in cs THEN <<>> ELSE toClient[c]]
  /\ UNCHANGED <<services, backlog, serving, handling, open, toServer, sent, effects, acked>>

\* A client closes its connection.
Leave(c) == cpc[c] \in {"waiting", "ready", "pending"} /\ EndProcess({c})
-----------------------------------------------------------------------------
(***************************************************************************)
(* A worker: worker_main.                                                  *)
(***************************************************************************)

\* accept and a TLS handshake that succeeds.
Accept(w) ==
  /\ alive[w] /\ serving[w] = Nobody /\ backlog # <<>>
  /\ cpc[Head(backlog)] = "waiting"
  /\ serving' = [serving EXCEPT ![w] = Head(backlog)]
  /\ cpc' = [cpc EXCEPT ![Head(backlog)] = "ready"]
  /\ open' = [open EXCEPT ![Head(backlog)] = TRUE]
  /\ backlog' = Tail(backlog)
  /\ UNCHANGED <<services, handling, wires, sent, effects, acked>>

\* accept and a handshake that fails; a client that waits is cut off.
HandshakeFails(w) ==
  /\ alive[w] /\ serving[w] = Nobody /\ backlog # <<>>
  /\ cpc' = [cpc EXCEPT ![Head(backlog)] = "gone"]
  /\ backlog' = Tail(backlog)
  /\ UNCHANGED <<services, serving, handling, open, wires, sent, effects, acked>>

\* w is in tls_read on the connection of c.
ReadsFrom(w, c) ==
  /\ alive[w] /\ serving[w] = c /\ c # Nobody
  /\ handling[w] = NoPacket /\ phase[w] = "idle"

\* The connection is closed and the worker accepts again.
CloseConnection(w, c) ==
  /\ serving' = [serving EXCEPT ![w] = Nobody]
  /\ open' = [open EXCEPT ![c] = FALSE]
  /\ toServer' = [toServer EXCEPT ![c] = <<>>]
  /\ UNCHANGED <<services, backlog, handling, cpc, toClient, sent, effects, acked>>

\* Mutant: the loop is continued, not left, when tls_read fails.
EndOfConnectionSpins(w, c) ==
  /\ ReadsFrom(w, c) /\ toServer[c] = <<>> /\ cpc[c] = "gone"
  /\ UNCHANGED vars

\* tls_read returns 0 or an error: the client has left.
EndOfConnection(w, c) ==
  /\ ReadsFrom(w, c) /\ toServer[c] = <<>> /\ cpc[c] = "gone"
  /\ CloseConnection(w, c)

\* tls_read returns something that is not one packet: "Invalid packet size".
WrongSize(w, c) ==
  /\ ReadsFrom(w, c) /\ toServer[c] # <<>> /\ Head(toServer[c]).kind = "partial"
  /\ CloseConnection(w, c)

\* tls_write of a response; to a client that has left, it fails unnoticed.
Deliver(c, response) ==
  toClient' = IF cpc[c] = "pending"
              THEN [toClient EXCEPT ![c] = Append(@, response)] ELSE toClient

\* Mutant: after "Checksum verification failed" the loop is not continued, and
\* the packet is processed as well.
BadChecksumProcessed(w, c) ==
  /\ ReadsFrom(w, c) /\ toServer[c] # <<>> /\ Head(toServer[c]).kind = "corrupted"
  /\ Deliver(c, Response(Head(toServer[c]), Error, 0, NoCode))
  /\ handling' = [handling EXCEPT ![w] = Head(toServer[c])]
  /\ toServer' = [toServer EXCEPT ![c] = Tail(@)]
  /\ UNCHANGED <<services, backlog, serving, cpc, open, sent, effects, acked>>

\* Mutant: no response is sent for a wrong checksum.
BadChecksumUnanswered(w, c) ==
  /\ ReadsFrom(w, c) /\ toServer[c] # <<>> /\ Head(toServer[c]).kind = "corrupted"
  /\ toServer' = [toServer EXCEPT ![c] = Tail(@)]
  /\ UNCHANGED <<services, backlog, serving, handling, cpc, open, toClient, sent,
                 effects, acked>>

\* "Checksum verification failed": the connection goes on.
BadChecksum(w, c) ==
  /\ ReadsFrom(w, c) /\ toServer[c] # <<>> /\ Head(toServer[c]).kind = "corrupted"
  /\ Deliver(c, Response(Head(toServer[c]), Error, 0, NoCode))
  /\ toServer' = [toServer EXCEPT ![c] = Tail(@)]
  /\ UNCHANGED <<services, backlog, serving, handling, cpc, open, sent, effects, acked>>

\* process_request takes the packet.
TakePacket(w, c) ==
  /\ ReadsFrom(w, c) /\ toServer[c] # <<>>
  /\ Head(toServer[c]).kind \in {"db", "otp", "malformed"}
  /\ handling' = [handling EXCEPT ![w] = Head(toServer[c])]
  /\ toServer' = [toServer EXCEPT ![c] = Tail(@)]
  /\ UNCHANGED <<services, backlog, serving, cpc, open, toClient, sent, effects, acked>>
-----------------------------------------------------------------------------
(***************************************************************************)
(* process_request.                                                        *)
(***************************************************************************)

\* The packet is answered.
Answer(w, status, balance, code) ==
  /\ Deliver(serving[w], Response(handling[w], status, balance, code))
  /\ handling' = [handling EXCEPT ![w] = NoPacket]
  /\ UNCHANGED <<backlog, serving, cpc, open, toServer, sent, acked>>

\* unpack_request, which checks length and checksum once more, or the switch
\* refuses the packet.
Malformed(w) ==
  /\ alive[w] /\ handling[w].kind \in {"malformed", "corrupted"}
  /\ Answer(w, Error, 0, NoCode)
  /\ UNCHANGED <<services, effects>>

\* What stays while the database or the OTP service works for w.
Meanwhile == UNCHANGED <<backlog, serving, handling, cpc, open, wires, sent, acked>>

CallDatabase(w) ==
  /\ handling[w].kind = "db"
  /\ DB!Start(w, handling[w].r)
  /\ Meanwhile /\ UNCHANGED <<otp, effects>>

DatabasePerforms(w) ==
  /\ DB!Perform(w)
  /\ effects' = IF ans'[w].code = OK /\ req[w].op # "balance"
                THEN [effects EXCEPT ![serving[w]] = @ + 1] ELSE effects
  /\ Meanwhile /\ UNCHANGED otp

\* Mutant: the response says success whatever the result.
RespondSuccess(w) ==
  /\ DB!Finish(w)
  /\ Answer(w, Success, IF req[w].op = "create" THEN req[w].amount ELSE ans[w].out, NoCode)
  /\ UNCHANGED <<otp, effects>>

\* response.status = result, and response.balance: for a create the amount of
\* the request, else what the call wrote or the variable happened to hold.
Respond(w) ==
  /\ DB!Finish(w)
  /\ Answer(w, ans[w].code, IF req[w].op = "create" THEN req[w].amount ELSE ans[w].out, NoCode)
  /\ UNCHANGED <<otp, effects>>

\* OP_REQ_OTP and OP_LOGIN: call_otp_service.
CallOtp(w) ==
  /\ handling[w].kind = "otp" /\ OTP!Start(w, handling[w].r)
  /\ Meanwhile /\ UNCHANGED <<ledger, crashes, effects>>

OtpPerforms(w) ==
  /\ OTP!Perform(w)
  /\ Meanwhile /\ UNCHANGED <<ledger, crashes, effects>>

\* "OTP Generated: <code>", "Login Successful", or an error.
RespondOtp(w) ==
  /\ \/ /\ OTP!Return(w)
        /\ Answer(w, IF oans[w].status = 1 THEN Success ELSE Error, 0, oans[w].otp)
     \/ /\ OTP!GiveUp(w)
        /\ Answer(w, Error, 0, NoCode)
  /\ UNCHANGED <<ledger, crashes, effects>>

\* The worker dies; the kernel closes its connection.
Die(w) ==
  /\ DB!Kill(w) /\ OTP!Kill(w)
  /\ open' = [c \in Clients |-> open[c] /\ serving[w] # c]
  /\ toServer' = [c \in Clients |-> IF serving[w] = c THEN <<>> ELSE toServer[c]]
  /\ UNCHANGED <<crashes, backlog, serving, handling, cpc, toClient, sent, effects, acked>>

\* The OTP service dies and may be started again.
OtpFails ==
  /\ \/ crashes < MaxCrashes /\ crashes' = crashes + 1 /\ OTP!Crash
     \/ OTP!Restart /\ UNCHANGED crashes
  /\ Meanwhile /\ UNCHANGED <<ledger, effects>>

WorkerStep(w) ==
  \/ Accept(w) \/ HandshakeFails(w)
  \/ Malformed(w)
  \/ CallDatabase(w) \/ DatabasePerforms(w) \/ Respond(w)
  \/ CallOtp(w) \/ OtpPerforms(w) \/ RespondOtp(w)
  \/ \E c \in Clients :
       EndOfConnection(w, c) \/ WrongSize(w, c) \/ BadChecksum(w, c) \/ TakePacket(w, c)

Next ==
  \/ \E c \in Clients :
       Connect(c) \/ (\E p \in Packets : Send(c, p)) \/ Receive(c) \/ RequestFails(c)
  \/ \E cs \in (SUBSET Clients) \ {{}} : EndProcess(cs)
  \/ \E w \in Workers : WorkerStep(w) \/ Die(w)
  \/ OtpFails

Spec == Init /\ [][Next]_vars

\* A client that has no response to wait for any more.
Done(c) == cpc[c] = "ready" \/ Lost(c)

\* Live workers are scheduled, and so are the clients: one reads its response, and
\* leaves when it has nothing to wait for.  No client has to give up waiting.
FairSpec ==
  /\ Spec
  /\ \A w \in Workers : WF_vars(WorkerStep(w))
  /\ \A c \in Clients : WF_vars(Receive(c) \/ (Done(c) /\ Leave(c)))
-----------------------------------------------------------------------------
(***************************************************************************)
(* Properties.                                                             *)
(***************************************************************************)

\* Nothing on the wire says which request a response answers, so a client pairs
\* them by order: the response it will read next answers the packet it sent
\* last, whatever packets were refused before.
AnswersPaired ==
  \A c \in Clients : toClient[c] # <<>> =>
    cpc[c] = "pending" /\ Head(toClient[c]).n = sent[c]

\* A client knows what its requests have done: all that was done has been
\* confirmed and all that was confirmed has been done, but for the one request
\* it is waiting for or had open when its connection ended, however many it has
\* sent in vain since.
EffectsKnown ==
  \A c \in Clients :
    /\ effects[c] - acked[c] \in {0, 1}
    /\ cpc[c] = "ready" /\ open[c] => effects[c] = acked[c]

\* A response that reports success carries a balance the database has written,
\* never the uninitialized variable of process_request.
BalanceWritten ==
  \A c \in Clients : \A k \in 1..Len(toClient[c]) :
    LET m == toClient[c][k] IN
      m.r \in Requests /\ m.status = Success => m.balance # Unwritten

\* A client in the backlog is accepted once the clients before it have left.
WaitersServed == \A c \in Clients : cpc[c] = "waiting" ~> cpc[c] # "waiting"

\* Every request is answered, or its connection closed.
RequestsAnswered == \A c \in Clients : cpc[c] = "pending" ~> cpc[c] # "pending"
-----------------------------------------------------------------------------
(***************************************************************************)
(* Why the invariants hold: an inductive invariant.                        *)
(***************************************************************************)

\* A connection waits in the backlog or is held by one worker, never both.
ConnectionInv ==
  /\ \A v, w \in Workers : serving[v] = serving[w] /\ serving[v] # Nobody => v = w
  /\ \A j, k \in 1..Len(backlog) : backlog[j] = backlog[k] => j = k
  /\ \A k \in 1..Len(backlog) :
       /\ cpc[backlog[k]] \in {"waiting", "gone"}
       /\ \A w \in Workers : serving[w] # backlog[k]
  /\ \A w \in Workers : serving[w] # Nobody =>
       /\ cpc[serving[w]] \in {"ready", "pending", "gone"}
       /\ open[serving[w]] <=> alive[w]
  /\ \A c \in Clients : cpc[c] \in {"off", "waiting"} => ~open[c]

\* w has taken a packet of c and not answered it.
Working(w, c) == serving[w] = c /\ handling[w] # NoPacket

\* The packet c sent last is in one place at most: on its way, in the hands of
\* a worker, or answered and on its way back.
OnePlace(c) ==
  /\ Len(toServer[c]) \in {0, 1} /\ Len(toClient[c]) \in {0, 1}
  /\ toServer[c] # <<>> =>
       /\ open[c] /\ cpc[c] \in {"pending", "gone"} /\ Head(toServer[c]).n = sent[c]
       /\ toClient[c] = <<>> /\ \A w \in Workers : ~Working(w, c)
  /\ toClient[c] # <<>> =>
       /\ cpc[c] = "pending" /\ Head(toClient[c]).n = sent[c]
       /\ \A w \in Workers : ~Working(w, c)

\* The packet w works on is the last of the client it serves, which has stopped
\* waiting only if w has died.
AtHand(w) ==
  handling[w] # NoPacket =>
    /\ serving[w] \in Clients
    /\ alive[w] => /\ cpc[serving[w]] \in {"pending", "gone"}
                   /\ handling[w].n = sent[serving[w]]

PacketInv == (\A c \in Clients : OnePlace(c)) /\ (\A w \in Workers : AtHand(w))

\* Database and OTP service work on what the packet asks for, and a call that
\* succeeds has written the balance.
CallInv ==
  \A w \in Workers :
    /\ phase[w] # "idle" => handling[w].kind = "db" /\ req[w] = handling[w].r
    /\ ophase[w] # "idle" => handling[w].kind = "otp" /\ oreq[w] = handling[w].r
    /\ phase[w] = "done" /\ ans[w].code = OK /\ req[w].op # "create" =>
         ans[w].out \in Money

\* w has changed the database and not said so.
Changed(w) == phase[w] = "done" /\ ans[w].code = OK /\ req[w].op # "balance"

\* What has been done for c and what it has been told of differ by the request
\* that is in the hands of a worker or on its way back.
Known(c) ==
  /\ effects[c] - acked[c] \in {0, 1} /\ effects[c] <= sent[c]
  /\ cpc[c] \in {"off", "waiting"} \/ (cpc[c] = "ready" /\ open[c]) => effects[c] = acked[c]
  /\ toServer[c] # <<>> => effects[c] = acked[c] /\ effects[c] < sent[c]
  /\ toClient[c] # <<>> =>
       (effects[c] = acked[c] + 1 <=> Confirms(Head(toClient[c])))

Owed(w, c) ==
  IF Changed(w) THEN effects[c] = acked[c] + 1
                ELSE effects[c] = acked[c] /\ effects[c] < sent[c]

EffectInv ==
  /\ \A c \in Clients : Known(c)
  /\ \A w \in Workers : handling[w] # NoPacket => Owed(w, serving[w])

IInv == TypeOK /\ ConnectionInv /\ PacketInv /\ CallInv /\ EffectInv /\ BalanceWritten
=============================================================================

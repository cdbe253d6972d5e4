----------------------------- MODULE OtpServer ------------------------------
(***************************************************************************)
(* The one-time-password service: otp_server/otp_server.c, a single        *)
(* process that serves one short connection after the other, and its       *)
(* callers, the workers of server/banking_server.c in call_otp_service.    *)
(*                                                                         *)
(* The service keeps its codes in memory only: a crash loses all of them   *)
(* and cuts the connections.  A worker may be killed while it waits; the   *)
(* kernel then closes its end of the connection.  A worker has at most one *)
(* connection at a time, so a connection is named by its worker.           *)
(***************************************************************************)
EXTENDS Integers, Sequences, FiniteSets

CONSTANTS
  Workers,     \* the worker processes that log users in
  Accounts,    \* the account ids they may name
  Codes,       \* the codes rand() may produce; it may repeat one
  MaxOtps,     \* MAX_OTPS, the size of the table
  Backlog,     \* the connections listen() lets wait
  MaxCalls,    \* bound of the model: calls of all workers together
  MaxCrashes,  \* bound of the model: crashes of the service
  Mortal,      \* the workers that may be killed
  NoOne,       \* no account, no worker
  NoCode       \* no code

ASSUME OtpAssumption ==
  /\ MaxOtps \in Nat \ {0} /\ Backlog \in Nat \ {0}
  /\ MaxCalls \in Nat /\ MaxCrashes \in Nat
  /\ IsFiniteSet(Workers) /\ Mortal \subseteq Workers
  /\ NoOne \notin Accounts \cup Workers /\ NoCode \notin Codes

VARIABLES
  otp_db,    \* the table of codes
  up,        \* the service runs
  serving,   \* the worker whose connection handle_client holds
  answer,    \* the response handle_client is about to write
  backlog,   \* connections not accepted yet
  pc,        \* pc[w]: where worker w stands in call_otp_service
  req,       \* req[w]: its request
  inbox,     \* inbox[w]: what its read will return
  alive,     \* alive[w]: w has not been killed
  calls,     \* calls made so far
  crashes,   \* crashes so far
  credit,    \* history: how often each code was issued for each account, less
             \*   how often verify_otp_remote said yes to it
  latest     \* history: the last code issued for an account, while unspent

server  == <<otp_db, up, serving, answer>>
callers == <<pc, req, inbox, alive, calls>>
history == <<credit, latest>>
vars == <<server, backlog, callers, crashes, history>>

Slots == 1..MaxOtps

\* A slot as memset leaves it.
Blank == [account |-> NoOne, otp |-> NoCode, used |-> FALSE]

Entries == [account : Accounts \cup {NoOne}, otp : Codes \cup {NoCode},
            used : BOOLEAN]

Requests ==
       [op : {"generate"}, account : Accounts, otp : {NoCode}]
  \cup [op : {"verify"}, account : Accounts, otp : Codes]

NoRequest == [op |-> "none", account |-> NoOne, otp |-> NoCode]

\* status 1 or 0, and the code of a generation.  EndOfFile is a connection
\* that closed without a response, Nothing one on which nothing has come yet.
Responses == [status : {0, 1}, otp : Codes \cup {NoCode}]
Failure   == [status |-> 0, otp |-> NoCode]
EndOfFile == [status |-> -1, otp |-> NoCode]
Nothing   == [status |-> -2, otp |-> NoCode]

TypeOK ==
  /\ otp_db \in [Slots -> Entries]
  /\ up \in BOOLEAN
  /\ serving \in Workers \cup {NoOne}
  /\ answer \in Responses \cup {Nothing}
  /\ backlog \in Seq(Workers) /\ Len(backlog) <= Backlog
  /\ pc \in [Workers -> {"idle", "connect", "write", "read"}]
  /\ req \in [Workers -> Requests \cup {NoRequest}]
  /\ inbox \in [Workers -> Responses \cup {EndOfFile, Nothing}]
  /\ alive \in [Workers -> BOOLEAN]
  /\ calls \in 0..MaxCalls /\ crashes \in 0..MaxCrashes
  /\ credit \in [Accounts -> [Codes -> Int]]
  /\ latest \in [Accounts -> Codes \cup {NoCode}]

Init ==
  /\ otp_db = [s \in Slots |-> Blank]
  /\ up = TRUE /\ serving = NoOne /\ answer = Nothing /\ backlog = <<>>
  /\ pc = [w \in Workers |-> "idle"]
  /\ req = [w \in Workers |-> NoRequest]
  /\ inbox = [w \in Workers |-> Nothing]
  /\ alive = [w \in Workers |-> TRUE]
  /\ calls = 0 /\ crashes = 0
  /\ credit = [a \in Accounts |-> [c \in Codes |-> 0]]
  /\ latest = [a \in Accounts |-> NoCode]
-----------------------------------------------------------------------------
(***************************************************************************)
(* The caller: call_otp_service in a worker.                               *)
(***************************************************************************)
At(w, p) == alive[w] /\ pc[w] = p

\* An OP_REQ_OTP or an OP_LOGIN request of a client.
Call(w, r) ==
  /\ At(w, "idle") /\ calls < MaxCalls
  /\ pc' = [pc EXCEPT ![w] = "connect"]
  /\ req' = [req EXCEPT ![w] = r]
  /\ calls' = calls + 1
  /\ UNCHANGED <<server, backlog, inbox, alive, crashes, history>>

\* The call is over; its socket is closed.
Hangup(w) ==
  /\ pc' = [pc EXCEPT ![w] = "idle"]
  /\ req' = [req EXCEPT ![w] = NoRequest]
  /\ inbox' = [inbox EXCEPT ![w] = Nothing]
  /\ UNCHANGED <<server, backlog, alive, calls, crashes>>

\* socket or connect fails, because nobody listens or for a reason of its own:
\* the call returns 0.
ConnectFails(w) ==
  /\ At(w, "connect")
  /\ Hangup(w)
  /\ UNCHANGED history

Connect(w) ==
  /\ At(w, "connect") /\ up /\ Len(backlog) < Backlog
  /\ backlog' = Append(backlog, w)
  /\ pc' = [pc EXCEPT ![w] = "write"]
  /\ UNCHANGED <<server, req, inbox, alive, calls, crashes, history>>

\* A write on a connection cut by a crash fails, and nobody looks.
Write(w) ==
  /\ At(w, "write")
  /\ pc' = [pc EXCEPT ![w] = "read"]
  /\ UNCHANGED <<server, backlog, req, inbox, alive, calls, crashes, history>>

\* read returns a response or the end of the connection.  The call says yes
\* only for a response with status 1.
Read(w) ==
  /\ At(w, "read") /\ inbox[w] # Nothing
  /\ credit' = IF req[w].op = "verify" /\ inbox[w].status = 1
               THEN [credit EXCEPT ![req[w].account][req[w].otp] = @ - 1]
               ELSE credit
  /\ Hangup(w)
  /\ UNCHANGED latest

\* The worker is killed; its connection stays where it is, half closed.
Die(w) ==
  /\ w \in Mortal /\ alive[w]
  /\ alive' = [alive EXCEPT ![w] = FALSE]
  /\ UNCHANGED <<server, backlog, pc, req, inbox, calls, crashes, history>>
-----------------------------------------------------------------------------
(***************************************************************************)
(* The service: accept, handle_client, close.                              *)
(***************************************************************************)
Accept ==
  /\ up /\ serving = NoOne /\ backlog # <<>>
  /\ serving' = Head(backlog)
  /\ backlog' = Tail(backlog)
  /\ UNCHANGED <<otp_db, up, answer, callers, crashes, history>>

\* handle_client has read the request r of worker w.
Reading(w, op) ==
  /\ up /\ serving = w /\ answer = Nothing
  /\ pc[w] = "read" /\ req[w].op = op

\* The caller was killed before it wrote: read returns 0, handle_client returns.
ReadEnd(w) ==
  /\ up /\ serving = w /\ answer = Nothing
  /\ ~alive[w] /\ pc[w] = "write"
  /\ serving' = NoOne
  /\ UNCHANGED <<otp_db, up, answer, backlog, callers, crashes, history>>

Of(a) == {s \in Slots : otp_db[s].used /\ otp_db[s].account = a}
First(S, s) == s \in S /\ \A t \in S : s <= t

\* Where GENERATE may put a code for a: the first slot that is free or a's own.
Places(a) == {s \in Slots : ~otp_db[s].used \/ otp_db[s].account = a}

\* Mutant: GENERATE takes any slot that fits, not the first.
GenerateAnywhere(w, c) ==
  /\ Reading(w, "generate")
  /\ \E s \in Places(req[w].account) :
       otp_db' = [otp_db EXCEPT ![s] = [account |-> req[w].account, otp |-> c,
                                       used |-> TRUE]]
  /\ answer' = [status |-> 1, otp |-> c]
  /\ credit' = [credit EXCEPT ![req[w].account][c] = @ + 1]
  /\ latest' = [latest EXCEPT ![req[w].account] = c]
  /\ UNCHANGED <<up, serving, backlog, callers, crashes>>

\* OTP_OP_GENERATE with room: a new code, drawn at random.
Generate(w, c) ==
  /\ Reading(w, "generate")
  /\ \E s \in Slots :
       /\ First(Places(req[w].account), s)
       /\ otp_db' = [otp_db EXCEPT ![s] = [account |-> req[w].account, otp |-> c,
                                       used |-> TRUE]]
  /\ answer' = [status |-> 1, otp |-> c]
  /\ credit' = [credit EXCEPT ![req[w].account][c] = @ + 1]
  /\ latest' = [latest EXCEPT ![req[w].account] = c]
  /\ UNCHANGED <<up, serving, backlog, callers, crashes>>

\* OTP_OP_GENERATE without room: "Server Busy".
Busy(w) ==
  /\ Reading(w, "generate") /\ Places(req[w].account) = {}
  /\ answer' = Failure
  /\ UNCHANGED <<otp_db, up, serving, backlog, callers, crashes, history>>

\* The entry VERIFY compares, the first of the account, has this code.
Matches(a, c, s) == First(Of(a), s) /\ otp_db[s].otp = c

\* Mutant: a verified code stays in the table.
VerifyAgain(w) ==
  /\ Reading(w, "verify")
  /\ \E s \in Slots : Matches(req[w].account, req[w].otp, s)
  /\ answer' = [status |-> 1, otp |-> NoCode]
  /\ latest' = [latest EXCEPT ![req[w].account] = NoCode]
  /\ UNCHANGED <<otp_db, up, serving, backlog, callers, crashes, credit>>

\* OTP_OP_VERIFY with the code of that entry, which is spent by it.  Whether the
\* code has expired is not looked at.
Verify(w) ==
  /\ Reading(w, "verify")
  /\ \E s \in Slots :
       /\ Matches(req[w].account, req[w].otp, s)
       /\ otp_db' = [otp_db EXCEPT ![s].used = FALSE]
  /\ answer' = [status |-> 1, otp |-> NoCode]
  /\ latest' = [latest EXCEPT ![req[w].account] = NoCode]
  /\ UNCHANGED <<up, serving, backlog, callers, crashes, credit>>

\* OTP_OP_VERIFY without an entry, or with another code.
Invalid(w) ==
  /\ Reading(w, "verify")
  /\ ~\E s \in Slots : Matches(req[w].account, req[w].otp, s)
  /\ answer' = Failure
  /\ UNCHANGED <<otp_db, up, serving, backlog, callers, crashes, history>>

\* Mutant: the response is dropped when it reports a failure.
RespondIfGood(w) ==
  /\ up /\ serving = w /\ answer # Nothing
  /\ inbox' = IF answer.status = 1 THEN [inbox EXCEPT ![w] = answer] ELSE inbox
  /\ answer' = Nothing /\ serving' = NoOne
  /\ UNCHANGED <<otp_db, up, backlog, pc, req, alive, calls, crashes, history>>

\* The response is written and the connection closed.
Respond(w) ==
  /\ up /\ serving = w /\ answer # Nothing
  /\ inbox' = [inbox EXCEPT ![w] = answer]
  /\ answer' = Nothing /\ serving' = NoOne
  /\ UNCHANGED <<otp_db, up, backlog, pc, req, alive, calls, crashes, history>>

\* The service dies: its memory is gone and every connection is cut.
Crash ==
  /\ up /\ crashes < MaxCrashes
  /\ crashes' = crashes + 1
  /\ up' = FALSE /\ serving' = NoOne /\ answer' = Nothing /\ backlog' = <<>>
  /\ otp_db' = [s \in Slots |-> Blank]
  /\ latest' = [a \in Accounts |-> NoCode]
  /\ inbox' = [w \in Workers |->
       IF pc[w] \in {"write", "read"} /\ inbox[w] = Nothing THEN EndOfFile ELSE inbox[w]]
  /\ UNCHANGED <<pc, req, alive, calls, credit>>

\* main is started again, with memset(otp_db, 0, sizeof(otp_db)).
Restart ==
  /\ ~up
  /\ up' = TRUE
  /\ UNCHANGED <<otp_db, serving, answer, backlog, callers, crashes, history>>

\* A step of the caller within its call, and a step of the service.
CallerStep(w) == ConnectFails(w) \/ Connect(w) \/ Write(w) \/ Read(w)

ServerStep ==
  \/ Accept
  \/ \E w \in Workers :
       \/ ReadEnd(w) \/ Busy(w) \/ Verify(w) \/ Invalid(w) \/ Respond(w)
       \/ \E c \in Codes : Generate(w, c)

Next ==
  \/ \E w \in Workers :
       (\E r \in Requests : Call(w, r)) \/ CallerStep(w) \/ Die(w)
  \/ ServerStep \/ Crash \/ Restart

Spec == Init /\ [][Next]_vars

\* The live workers and the running service are scheduled.  A crashed service
\* need not come back.
FairSpec ==
  Spec /\ WF_vars(ServerStep) /\ \A w \in Workers : WF_vars(CallerStep(w))
-----------------------------------------------------------------------------
(***************************************************************************)
(* The promise of OtpPromise, kept.  The pile of an account is its entries *)
(* in the order of the table.                                              *)
(***************************************************************************)
Pile(a) ==
  LET S == Of(a)
      Nth(k) == CHOOSE s \in S : Cardinality({t \in S : t < s}) = k - 1
  IN  [k \in 1..Cardinality(S) |-> otp_db[Nth(k)].otp]

\* The answer to w's call, as far as there is one.
AnswerOf(w) ==
  CASE pc[w] \in {"write", "read"} /\ inbox[w] # Nothing ->
         IF inbox[w] = EndOfFile THEN Failure ELSE inbox[w]
    [] serving = w /\ answer # Nothing -> answer
    [] OTHER -> Nothing

PhaseOf(w) ==
  IF pc[w] = "idle" THEN "idle" ELSE IF AnswerOf(w) = Nothing THEN "called" ELSE "done"

Piles    == [a \in Accounts |-> Pile(a)]
Phases   == [w \in Workers |-> PhaseOf(w)]
Outcomes == [w \in Workers |-> IF AnswerOf(w) = Nothing THEN Failure ELSE AnswerOf(w)]

P == INSTANCE OtpPromise WITH codes <- Piles, phase <- Phases, ans <- Outcomes
-----------------------------------------------------------------------------
(***************************************************************************)
(* Properties.                                                             *)
(***************************************************************************)

\* The code of an account that was issued last, and is neither spent nor lost,
\* is the one the next VERIFY compares, whatever other entries the account has:
\* GENERATE and VERIFY both take the first fitting slot of the table.
LatestCodeCompared ==
  \A a \in Accounts : latest[a] # NoCode =>
    \E s \in Slots : Matches(a, latest[a], s)

\* One-time: over all workers, calls, crashes and restarts, a code is accepted
\* for an account no more often than it was issued for it.
OneTime == \A a \in Accounts, c \in Codes : credit[a][c] >= 0

\* A worker that waits for an answer has a connection that is still in the
\* service's hands, or something to read: it cannot wait in vain.
NobodyForgotten ==
  \A w \in Workers : alive[w] /\ pc[w] \in {"write", "read"} =>
    \/ inbox[w] # Nothing
    \/ serving = w
    \/ \E k \in 1..Len(backlog) : backlog[k] = w

\* Every call of a live worker returns, though the service takes one connection
\* at a time, never times out, and may crash.
CallsReturn ==
  \A w \in Workers : pc[w] # "idle" ~> (pc[w] = "idle" \/ ~alive[w])

\* The table searched from its beginning is a pile of codes per account, and
\* every call is indivisible: it has taken effect wholly or not at all when its
\* caller is killed, when the service crashes between effect and answer, and
\* whatever calls of other workers fall in between.
PromiseKept == P!Spec

\* "Find a free slot or update the old one": an account has at most one code
\* that VERIFY can accept.
OneCodePerAccount == \A a \in Accounts : \A s, t \in Of(a) : s = t
-----------------------------------------------------------------------------
(***************************************************************************)
(* Why the invariants hold: an inductive invariant.                        *)
(***************************************************************************)
Queued(w) == \E k \in 1..Len(backlog) : backlog[k] = w

\* A connection the service holds, or will accept, is that of a call under way
\* whose caller has read nothing yet; none is held twice.
ConnectionInv ==
  /\ \A w \in Workers : serving = w \/ Queued(w) =>
       pc[w] \in {"write", "read"} /\ inbox[w] = Nothing
  /\ \A j, k \in 1..Len(backlog) : backlog[j] = backlog[k] => j = k
  /\ ~Queued(serving)
  /\ \A w \in Workers : pc[w] \in {"idle", "connect"} => inbox[w] = Nothing
  /\ answer # Nothing => serving \in Workers /\ pc[serving] = "read"

\* The entries that a verification of c could spend, and the workers on their
\* way to hear that one has been spent.
Unspent(a, c) == {s \in Of(a) : otp_db[s].otp = c}
Told(a, c) ==
  {w \in Workers :
     /\ req[w].op = "verify" /\ req[w].account = a /\ req[w].otp = c
     /\ inbox[w].status = 1 \/ (serving = w /\ answer.status = 1)}

\* Every code issued is in the table, about to be reported as spent, reported,
\* replaced or lost.
CreditInv ==
  \A a \in Accounts, c \in Codes :
    credit[a][c] >= Cardinality(Unspent(a, c)) + Cardinality(Told(a, c))

IInv == TypeOK /\ ConnectionInv /\ LatestCodeCompared /\ NobodyForgotten /\ CreditInv
=============================================================================

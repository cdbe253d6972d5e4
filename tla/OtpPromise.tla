----------------------------- MODULE OtpPromise -----------------------------
(***************************************************************************)
(* What the one-time-password service promises the workers that call it.   *)
(* Each account has a pile of codes.  A generation puts a new code on top, *)
(* or in the place of the top one; a verification looks at the top code    *)
(* only, and takes it away when it is the one it was asked about.  A call  *)
(* does this in one step, between its start and its return; a crash loses  *)
(* all piles, and the answers on their way.                                *)
(*                                                                         *)
(* OtpServer.tla is the code that has to keep this promise with a table    *)
(* searched from its beginning, one connection at a time.                  *)
(***************************************************************************)
EXTENDS Integers, Sequences, FiniteSets

CONSTANTS
  Workers,   \* the worker processes that log users in
  Accounts,  \* the account ids they may name
  Codes,     \* the codes rand() may produce; it may repeat one
  MaxOtps,   \* MAX_OTPS, the codes the service has room for
  Mortal,    \* the workers that may be killed
  NoOne,     \* no account
  NoCode     \* no code

VARIABLES
  codes,  \* codes[a]: the pile of codes of account a, the top one first
  up,     \* the service runs
  phase,  \* phase[w]: "idle", "called" (not yet performed), "done"
  req,    \* req[w]: the request of worker w's current call
  ans,    \* ans[w]: the answer, once the call is performed
  alive   \* alive[w]: w has not been killed

vars == <<codes, up, phase, req, ans, alive>>

Requests ==
       [op : {"generate"}, account : Accounts, otp : {NoCode}]
  \cup [op : {"verify"}, account : Accounts, otp : Codes]

NoRequest == [op |-> "none", account |-> NoOne, otp |-> NoCode]

\* status 1 or 0, and the code of a generation.
Answers == [status : {0, 1}, otp : Codes \cup {NoCode}]
Failure == [status |-> 0, otp |-> NoCode]

TypeOK ==
  /\ codes \in [Accounts -> Seq(Codes)]
  /\ up \in BOOLEAN
  /\ phase \in [Workers -> {"idle", "called", "done"}]
  /\ req \in [Workers -> Requests \cup {NoRequest}]
  /\ ans \in [Workers -> Answers]
  /\ alive \in [Workers -> BOOLEAN]

Init ==
  /\ codes = [a \in Accounts |-> <<>>]
  /\ up = TRUE
  /\ phase = [w \in Workers |-> "idle"]
  /\ req = [w \in Workers |-> NoRequest]
  /\ ans = [w \in Workers |-> Failure]
  /\ alive = [w \in Workers |-> TRUE]

Start(w, r) ==
  /\ alive[w] /\ phase[w] = "idle"
  /\ phase' = [phase EXCEPT ![w] = "called"]
  /\ req' = [req EXCEPT ![w] = r]
  /\ UNCHANGED <<codes, up, ans, alive>>

\* The call of w has had its effect, and a is its answer.  A worker that is
\* killed meanwhile does not stop it.
Effect(w, op, a) ==
  /\ up /\ phase[w] = "called" /\ req[w].op = op
  /\ phase' = [phase EXCEPT ![w] = "done"]
  /\ ans' = [ans EXCEPT ![w] = a]
  /\ UNCHANGED <<up, req, alive>>

Outstanding ==
  Cardinality({place \in Accounts \X (1..MaxOtps) : place[2] <= Len(codes[place[1]])})

\* A new code c, on the pile or in the place of its top.
Issue(w, c) ==
  /\ Effect(w, "generate", [status |-> 1, otp |-> c])
  /\ LET pile == codes[req[w].account] IN
       \/ /\ Outstanding < MaxOtps
          /\ codes' = [codes EXCEPT ![req[w].account] = <<c>> \o pile]
       \/ /\ pile # <<>>
          /\ codes' = [codes EXCEPT ![req[w].account] = <<c>> \o Tail(pile)]

\* No room, and no code of the account to replace.
Deny(w) ==
  /\ Effect(w, "generate", Failure)
  /\ Outstanding = MaxOtps /\ codes[req[w].account] = <<>>
  /\ UNCHANGED codes

OnTop(r) == codes[r.account] # <<>> /\ Head(codes[r.account]) = r.otp

Spend(w) ==
  /\ Effect(w, "verify", [status |-> 1, otp |-> NoCode])
  /\ OnTop(req[w])
  /\ codes' = [codes EXCEPT ![req[w].account] = Tail(@)]

Refuse(w) ==
  /\ Effect(w, "verify", Failure)
  /\ ~OnTop(req[w])
  /\ UNCHANGED codes

Perform(w) == (\E c \in Codes : Issue(w, c)) \/ Deny(w) \/ Spend(w) \/ Refuse(w)

\* The call of w ends.
Over(w) ==
  /\ alive[w]
  /\ phase' = [phase EXCEPT ![w] = "idle"]
  /\ req' = [req EXCEPT ![w] = NoRequest]
  /\ ans' = [ans EXCEPT ![w] = Failure]
  /\ UNCHANGED <<codes, up, alive>>

Return(w) == phase[w] = "done" /\ Over(w)

\* The call does not get through, whether the service runs or not.
GiveUp(w) == phase[w] = "called" /\ Over(w)

Kill(w) ==
  /\ w \in Mortal /\ alive[w]
  /\ alive' = [alive EXCEPT ![w] = FALSE]
  /\ UNCHANGED <<codes, up, phase, req, ans>>

\* The service dies.  Some of the calls under way fail, though their effect may
\* have taken place; others, not yet connected or already answered, do not.
Crash ==
  /\ up /\ up' = FALSE
  /\ codes' = [a \in Accounts |-> <<>>]
  /\ \E cut \in SUBSET {w \in Workers : phase[w] # "idle"} :
       /\ phase' = [w \in Workers |-> IF w \in cut THEN "done" ELSE phase[w]]
       /\ ans' = [w \in Workers |-> IF w \in cut THEN Failure ELSE ans[w]]
  /\ UNCHANGED <<req, alive>>

Restart ==
  /\ ~up /\ up' = TRUE
  /\ UNCHANGED <<codes, phase, req, ans, alive>>

Next ==
  \/ \E w \in Workers :
       \/ \E r \in Requests : Start(w, r)
       \/ Perform(w) \/ Return(w) \/ GiveUp(w) \/ Kill(w)
  \/ Crash \/ Restart

Spec == Init /\ [][Next]_vars
=============================================================================

------------------------------- MODULE Ledger -------------------------------
(***************************************************************************)
(* What the account database promises its callers: a ledger on which every *)
(* call takes effect in one indivisible step, at some moment between its   *)
(* start and its return, and answers with the outcome of that step.        *)
(* AccountDB.tla is the code that has to keep this promise with two kinds  *)
(* of mutexes, plain loads and stores, and workers that may be killed.     *)
(***************************************************************************)
EXTENDS AccountCalls

VARIABLES
  bal,      \* bal[i]: the balance of account i, or NoAccount
  opened,   \* how many accounts have been created
  phase,    \* phase[w]: "idle", "called" (not yet performed), "done"
  req,      \* req[w]: the request of worker w's current call
  ans,      \* ans[w]: the answer, once the call is performed
  alive     \* alive[w]: w has not been killed

vars == <<bal, opened, phase, req, ans, alive>>

TypeOK ==
  /\ bal \in [Ids -> Money \cup {NoAccount}]
  /\ opened \in 0..MaxAccounts
  /\ phase \in [Workers -> {"idle", "called", "done"}]
  /\ req \in [Workers -> Requests \cup {NoRequest}]
  /\ ans \in [Workers -> Answers]
  /\ alive \in [Workers -> BOOLEAN]

Init ==
  /\ bal = [i \in Ids |-> NoAccount]
  /\ opened = 0
  /\ phase = [w \in Workers |-> "idle"]
  /\ req = [w \in Workers |-> NoRequest]
  /\ ans = [w \in Workers |-> Bare(OK)]
  /\ alive = [w \in Workers |-> TRUE]

Start(w, r) ==
  /\ alive[w] /\ phase[w] = "idle"
  /\ req' = [req EXCEPT ![w] = r]
  /\ phase' = [phase EXCEPT ![w] = "called"]
  /\ UNCHANGED <<bal, opened, ans, alive>>

\* The call of w takes effect, and a is its answer.
Effect(w, a) ==
  /\ phase' = [phase EXCEPT ![w] = "done"]
  /\ ans' = [ans EXCEPT ![w] = a]
  /\ UNCHANGED <<req, alive>>

Has(i) == bal[i] # NoAccount

\* Why a call fails.
Failure(r) ==
  IF Rejected(r) THEN BadArgument
  ELSE CASE r.op = "create" /\ Has(r.id)  -> Exists
         [] r.op = "create" /\ ~Has(r.id) -> Full
         [] r.op # "create" /\ ~Has(r.id) -> NotFound
         [] OTHER -> Insufficient

Fails(r) ==
  \/ Rejected(r)
  \/ r.op = "create" /\ (Has(r.id) \/ opened >= MaxAccounts)
  \/ r.op # "create" /\ ~Has(r.id)
  \/ r.op = "withdraw" /\ Has(r.id) /\ Lt(bal[r.id], r.amount)

\* The call fails: nothing changes but the answer.
Refusal(w, r) ==
  /\ Fails(r)
  /\ Effect(w, Bare(Failure(r)))
  /\ UNCHANGED <<bal, opened>>

Opening(w, r) ==
  /\ r.op = "create" /\ ~Fails(r)
  /\ bal' = [bal EXCEPT ![r.id] = r.amount]
  /\ opened' = opened + 1
  /\ Effect(w, Bare(OK))

\* A deposit, or a withdrawal the balance covers.
Movement(w, r) ==
  /\ r.op \in {"deposit", "withdraw"} /\ ~Fails(r)
  /\ bal' = [bal EXCEPT ![r.id] =
       IF r.op = "deposit" THEN Add(@, r.amount) ELSE Sub(@, r.amount)]
  /\ Effect(w, [code |-> OK, out |-> bal'[r.id]])
  /\ UNCHANGED opened

Inquiry(w, r) ==
  /\ r.op = "balance" /\ ~Fails(r)
  /\ Effect(w, [code |-> OK, out |-> bal[r.id]])
  /\ UNCHANGED <<bal, opened>>

Perform(w) ==
  /\ alive[w] /\ phase[w] = "called"
  /\ \/ Refusal(w, req[w]) \/ Opening(w, req[w])
     \/ Movement(w, req[w]) \/ Inquiry(w, req[w])

Finish(w) ==
  /\ alive[w] /\ phase[w] = "done"
  /\ phase' = [phase EXCEPT ![w] = "idle"]
  /\ req' = [req EXCEPT ![w] = NoRequest]
  /\ ans' = [ans EXCEPT ![w] = Bare(OK)]
  /\ UNCHANGED <<bal, opened, alive>>

\* A killed worker answers nobody; its call may or may not have taken effect.
Kill(w) ==
  /\ w \in Mortal /\ alive[w]
  /\ alive' = [alive EXCEPT ![w] = FALSE]
  /\ UNCHANGED <<bal, opened, phase, req, ans>>

Next ==
  \E w \in Workers :
    (\E r \in Requests : Start(w, r)) \/ Perform(w) \/ Finish(w) \/ Kill(w)

Spec == Init /\ [][Next]_vars
=============================================================================

----------------------------- MODULE AccountDB ------------------------------
(***************************************************************************)
(* The account database of common/src/account.c, as the worker processes   *)
(* of server/banking_server.c run it: a table in shared memory, one mutex  *)
(* for the table (db_lock) and one for each account (acc->lock), and calls *)
(* that are sequences of loads, stores and lock operations which the calls *)
(* of other workers interleave with.                                       *)
(*                                                                         *)
(* One action is one access to shared memory that another worker may       *)
(* separate from the next.  A search of the table is one action: it reads  *)
(* only what is written under db_lock, which the searcher holds.           *)
(*                                                                         *)
(* A worker may be killed between any two actions.  The mutexes are not    *)
(* robust (account_init sets PTHREAD_PROCESS_SHARED and nothing else), so  *)
(* the ones a killed worker holds stay locked.                             *)
(***************************************************************************)
EXTENDS AccountCalls

CONSTANTS
  NoOne,    \* owner of a free mutex, id of a slot never written
  MaxCalls  \* bound of the model: the calls each worker makes

ASSUME NoOneAssumption == NoOne \notin Workers \cup Ids
ASSUME BoundAssumption == MaxCalls \in Nat

VARIABLES
  accounts,       \* the table: id, balance and active flag of every slot
  account_count,  \* how many slots are published
  db_lock,        \* owner of the table's mutex
  acc_lock,       \* acc_lock[s]: owner of the mutex of slot s
  pc,             \* pc[w]: where worker w stands in its call
  req,            \* req[w]: the arguments of w's call
  acc,            \* acc[w]: the slot w's pointer acc points to, 0 for none
  reg,            \* reg[w]: the balance w has loaded and not yet stored
  ret,            \* ret[w]: return code and *new_balance, as far as written
  alive,          \* alive[w]: w has not been killed
  calls           \* calls[w]: how many calls w has started

vars == <<accounts, account_count, db_lock, acc_lock,
          pc, req, acc, reg, ret, alive, calls>>

Slots == 1..MaxAccounts

\* Where a worker holds db_lock, and where it holds the lock of its account.
DbHeldAt  == {"find", "fill", "publish", "leave_db", "lock_acc", "unlock_db"}
AccHeldAt == {"unlock_db", "check", "load", "store", "read_back", "unlock_acc"}
Points    == {"idle", "args", "lock_db", "return"} \cup DbHeldAt \cup AccHeldAt

\* Where acc points into the published part of the table.
AccSetAt == AccHeldAt \cup {"lock_acc"}

TypeOK ==
  /\ accounts \in [Slots -> [id : Ids \cup {NoOne}, balance : Money, active : BOOLEAN]]
  /\ account_count \in 0..MaxAccounts
  /\ db_lock \in Workers \cup {NoOne}
  /\ acc_lock \in [Slots -> Workers \cup {NoOne}]
  /\ pc \in [Workers -> Points]
  /\ req \in [Workers -> Requests \cup {NoRequest}]
  /\ acc \in [Workers -> Slots \cup {0}]
  /\ reg \in [Workers -> Money]
  /\ ret \in [Workers -> Answers]
  /\ alive \in [Workers -> BOOLEAN]
  /\ calls \in [Workers -> 0..MaxCalls]

\* account_init: memset, and every mutex free.
Init ==
  /\ accounts = [s \in Slots |-> [id |-> NoOne, balance |-> 0, active |-> FALSE]]
  /\ account_count = 0
  /\ db_lock = NoOne
  /\ acc_lock = [s \in Slots |-> NoOne]
  /\ pc = [w \in Workers |-> "idle"]
  /\ req = [w \in Workers |-> NoRequest]
  /\ acc = [w \in Workers |-> 0]
  /\ reg = [w \in Workers |-> 0]
  /\ ret = [w \in Workers |-> Bare(OK)]
  /\ alive = [w \in Workers |-> TRUE]
  /\ calls = [w \in Workers |-> 0]

table == <<accounts, account_count>>
locks == <<db_lock, acc_lock>>
frame == <<req, acc, reg, ret>>

\* w moves from one point of its call to the next.
Goto(w, from, to) ==
  /\ alive[w] /\ pc[w] = from
  /\ pc' = [pc EXCEPT ![w] = to]
  /\ UNCHANGED <<alive, calls>>

\* The call's return value is c; *new_balance has not been written before.
Code(w, c) == ret' = [ret EXCEPT ![w] = Bare(c)]
-----------------------------------------------------------------------------
(***************************************************************************)
(* Entering and leaving a call.                                            *)
(***************************************************************************)

\* process_request calls the database for one unpacked request.
Call(w, r) ==
  /\ alive[w] /\ pc[w] = "idle" /\ calls[w] < MaxCalls
  /\ pc' = [pc EXCEPT ![w] = "args"]
  /\ calls' = [calls EXCEPT ![w] = @ + 1]
  /\ req' = [req EXCEPT ![w] = r]
  /\ UNCHANGED <<table, locks, acc, reg, ret, alive>>

BadArgs(w) ==
  /\ Rejected(req[w])
  /\ Goto(w, "args", "return") /\ Code(w, BadArgument)
  /\ UNCHANGED <<table, locks, req, acc, reg>>

GoodArgs(w) ==
  /\ ~Rejected(req[w])
  /\ Goto(w, "args", "lock_db")
  /\ UNCHANGED <<table, locks, frame>>

\* The call returns and its frame is gone.
Return(w) ==
  /\ Goto(w, "return", "idle")
  /\ req' = [req EXCEPT ![w] = NoRequest]
  /\ acc' = [acc EXCEPT ![w] = 0]
  /\ reg' = [reg EXCEPT ![w] = 0]
  /\ ret' = [ret EXCEPT ![w] = Bare(OK)]
  /\ UNCHANGED <<table, locks>>
-----------------------------------------------------------------------------
(***************************************************************************)
(* Under db_lock: the search, and the creation of an account.              *)
(***************************************************************************)

\* Mutant: the call proceeds without waiting for the table's mutex.
LockDbBarging(w) ==
  /\ Goto(w, "lock_db", "find")
  /\ db_lock' = w
  /\ UNCHANGED <<table, acc_lock, frame>>

LockDb(w) ==
  /\ db_lock = NoOne
  /\ Goto(w, "lock_db", "find")
  /\ db_lock' = w
  /\ UNCHANGED <<table, acc_lock, frame>>

\* account_find: s is the first published, active slot with this id.
Matches(i) == {s \in 1..account_count : accounts[s].active /\ accounts[s].id = i}
FoundAt(i, s) == s \in Matches(i) /\ \A t \in Matches(i) : s <= t

\* The create finds the id taken, or any other call finds no such account.
FindRefuses(w) ==
  /\ (req[w].op = "create") = (Matches(req[w].id) # {})
  /\ Goto(w, "find", "leave_db")
  /\ Code(w, IF req[w].op = "create" THEN Exists ELSE NotFound)
  /\ UNCHANGED <<table, locks, req, acc, reg>>

\* acc points to the account; db_lock is kept while its own lock is awaited.
FindAccount(w) ==
  /\ req[w].op # "create"
  /\ Goto(w, "find", "lock_acc")
  /\ \E s \in Slots : FoundAt(req[w].id, s) /\ acc' = [acc EXCEPT ![w] = s]
  /\ UNCHANGED <<table, locks, req, reg, ret>>

TableFull(w) ==
  /\ req[w].op = "create" /\ Matches(req[w].id) = {}
  /\ account_count >= MaxAccounts
  /\ Goto(w, "find", "leave_db") /\ Code(w, Full)
  /\ UNCHANGED <<table, locks, req, acc, reg>>

\* Mutant: the test for a full table is off by one.
TakeSlotBeyond(w) ==
  /\ req[w].op = "create" /\ Matches(req[w].id) = {}
  /\ account_count <= MaxAccounts
  /\ Goto(w, "find", "fill")
  /\ acc' = [acc EXCEPT ![w] = account_count + 1]
  /\ UNCHANGED <<table, locks, req, reg, ret>>

\* acc = &db->accounts[db->account_count], the first slot not published
TakeSlot(w) ==
  /\ req[w].op = "create" /\ Matches(req[w].id) = {}
  /\ account_count < MaxAccounts
  /\ Goto(w, "find", "fill")
  /\ acc' = [acc EXCEPT ![w] = account_count + 1]
  /\ UNCHANGED <<table, locks, req, reg, ret>>

FillSlot(w) ==
  /\ Goto(w, "fill", "publish")
  /\ accounts' = [accounts EXCEPT ![acc[w]] =
       [id |-> req[w].id, balance |-> req[w].amount, active |-> TRUE]]
  /\ UNCHANGED <<account_count, locks, frame>>

\* account_count++: from here account_find sees the account.
Publish(w) ==
  /\ Goto(w, "publish", "leave_db")
  /\ account_count' = account_count + 1
  /\ UNCHANGED <<accounts, locks, frame>>

\* Mutant: an exit path of the call forgets pthread_mutex_unlock(&db->db_lock).
LeaveDbLocked(w) ==
  /\ Goto(w, "leave_db", "return")
  /\ db_lock' = IF ret[w].code = OK THEN NoOne ELSE db_lock
  /\ UNCHANGED <<table, acc_lock, frame>>

LeaveDb(w) ==
  /\ Goto(w, "leave_db", "return")
  /\ db_lock' = NoOne
  /\ UNCHANGED <<table, acc_lock, frame>>
-----------------------------------------------------------------------------
(***************************************************************************)
(* Under the account's lock: deposit, withdrawal and query.                *)
(***************************************************************************)

\* Mutant: the call proceeds without waiting for the account's mutex.
LockAccountBarging(w) ==
  /\ Goto(w, "lock_acc", "unlock_db")
  /\ acc_lock' = [acc_lock EXCEPT ![acc[w]] = w]
  /\ UNCHANGED <<table, db_lock, frame>>

LockAccount(w) ==
  /\ Goto(w, "lock_acc", "unlock_db")
  /\ acc_lock[acc[w]] = NoOne
  /\ acc_lock' = [acc_lock EXCEPT ![acc[w]] = w]
  /\ UNCHANGED <<table, db_lock, frame>>

\* The table's mutex is released once the account's is held.
UnlockDb(w) ==
  /\ Goto(w, "unlock_db", IF req[w].op = "withdraw" THEN "check" ELSE "load")
  /\ db_lock' = NoOne
  /\ UNCHANGED <<table, acc_lock, frame>>

Balance(w) == accounts[acc[w]].balance

\* `if (acc->balance < amount) return -3`
Refuse(w) ==
  /\ Goto(w, "check", "unlock_acc") /\ Code(w, Insufficient)
  /\ Lt(Balance(w), req[w].amount)
  /\ UNCHANGED <<table, locks, req, acc, reg>>

\* Mutant: the test of the balance is dropped.
CoverUnchecked(w) ==
  /\ Goto(w, "check", "load")
  /\ UNCHANGED <<table, locks, frame>>

Cover(w) ==
  /\ Goto(w, "check", "load")
  /\ ~Lt(Balance(w), req[w].amount)
  /\ UNCHANGED <<table, locks, frame>>

\* The load of `acc->balance += amount` and of `acc->balance -= amount`.
Load(w) ==
  /\ req[w].op # "balance"
  /\ Goto(w, "load", "store")
  /\ reg' = [reg EXCEPT ![w] = Balance(w)]
  /\ UNCHANGED <<table, locks, req, acc, ret>>

\* acc->balance + amount, or acc->balance - amount, of the value loaded
Result(w) == IF req[w].op = "deposit" THEN Add(reg[w], req[w].amount)
                                      ELSE Sub(reg[w], req[w].amount)

\* The store of the same statement.
Store(w) ==
  /\ Goto(w, "store", "read_back")
  /\ accounts' = [accounts EXCEPT ![acc[w]] =
       [id |-> @.id, balance |-> Result(w), active |-> @.active]]
  /\ UNCHANGED <<account_count, locks, frame>>

Answer(w, from) ==
  /\ Goto(w, from, "unlock_acc")
  /\ ret' = [ret EXCEPT ![w] = [code |-> OK, out |-> Balance(w)]]
  /\ UNCHANGED <<table, locks, req, acc, reg>>

\* `*new_balance = acc->balance`, and the return code 0
ReadBack(w) == Answer(w, "read_back")

\* `*balance = acc->balance` of account_get_balance
Query(w) == req[w].op = "balance" /\ Answer(w, "load")

\* Mutant: a refused withdrawal returns without pthread_mutex_unlock(&acc->lock).
UnlockAccountOnSuccess(w) ==
  /\ Goto(w, "unlock_acc", "return")
  /\ acc_lock' = [acc_lock EXCEPT ![acc[w]] = IF ret[w].code = OK THEN NoOne ELSE @]
  /\ UNCHANGED <<table, db_lock, frame>>

UnlockAccount(w) ==
  /\ Goto(w, "unlock_acc", "return")
  /\ acc_lock' = [acc_lock EXCEPT ![acc[w]] = NoOne]
  /\ UNCHANGED <<table, db_lock, frame>>
-----------------------------------------------------------------------------
\* The worker is killed, at whatever point it stands; its mutexes stay locked.
Die(w) ==
  /\ w \in Mortal /\ alive[w]
  /\ alive' = [alive EXCEPT ![w] = FALSE]
  /\ UNCHANGED <<table, locks, frame, pc, calls>>

\* A step of w within its call.
Step(w) ==
  \/ BadArgs(w) \/ GoodArgs(w) \/ Return(w)
  \/ LockDb(w) \/ FindRefuses(w) \/ FindAccount(w) \/ TableFull(w)
  \/ TakeSlot(w) \/ FillSlot(w) \/ Publish(w) \/ LeaveDb(w)
  \/ LockAccount(w) \/ UnlockDb(w) \/ Refuse(w) \/ Cover(w)
  \/ Load(w) \/ Store(w) \/ ReadBack(w) \/ Query(w) \/ UnlockAccount(w)

Next ==
  \E w \in Workers :
    \/ \E r \in Requests : Call(w, r)
    \/ Step(w)
    \/ Die(w)

Spec == Init /\ [][Next]_vars

\* The scheduler runs every live worker again and again.  Nothing is assumed
\* of the order in which a mutex is handed to its waiters, and no worker has
\* to make a call.
FairSpec == Spec /\ \A w \in Workers : WF_vars(Step(w))
-----------------------------------------------------------------------------
(***************************************************************************)
(* Safety.                                                                 *)
(***************************************************************************)

\* No two published slots carry the same id, whatever creates overlap: the
\* search of account_create and the slot it publishes are one critical section.
UniqueAccounts ==
  \A s, t \in 1..account_count : accounts[s].id = accounts[t].id => s = t

\* No balance is ever below zero, in particular not after two withdrawals each
\* of which the balance would have covered alone.
NoOverdraft == \A s \in Slots : Le(0, accounts[s].balance)

\* A worker about to store has loaded the balance that is still there: no
\* update of another worker falls between the load and the store.
NoLostUpdate == \A w \in Workers : pc[w] = "store" => reg[w] = Balance(w)

\* A withdrawal about to be stored is still covered by the balance, although
\* the test was made earlier and is not repeated.
WithdrawalsCovered ==
  \A w \in Workers : pc[w] = "store" /\ req[w].op = "withdraw" =>
    Le(req[w].amount, Balance(w))

\* A published account keeps its slot and its id for ever, and its balance
\* moves only in a step of the one worker that holds its mutex at a store.
AccountsPersist ==
  [][\A s \in 1..account_count :
       /\ s \in 1..account_count'
       /\ accounts'[s].id = accounts[s].id /\ accounts'[s].active
       /\ accounts'[s].balance # accounts[s].balance =>
            /\ acc_lock[s] \in Workers
            /\ pc[acc_lock[s]] = "store"
            /\ pc'[acc_lock[s]] = "read_back"]_vars

(***************************************************************************)
(* The inductive invariant: which points of the code hold which mutex, and *)
(* what each point may rely on about the table while it does.              *)
(***************************************************************************)
LockInv ==
  /\ \A w \in Workers : db_lock = w <=> pc[w] \in DbHeldAt
  /\ \A w \in Workers : pc[w] \in AccHeldAt => acc_lock[acc[w]] = w
  /\ \A s \in Slots : acc_lock[s] # NoOne =>
       pc[acc_lock[s]] \in AccHeldAt /\ acc[acc_lock[s]] = s

\* Every call under way has arguments that were let through.
RequestInv ==
  \A w \in Workers :
    /\ pc[w] # "idle" => req[w] \in Requests
    /\ pc[w] \notin {"idle", "args", "return"} => ~Rejected(req[w])
    /\ pc[w] \in {"fill", "publish"} => req[w].op = "create"
    /\ pc[w] \in AccSetAt => req[w].op # "create"
    /\ pc[w] \in {"store", "read_back"} => req[w].op # "balance"
    /\ pc[w] = "check" => req[w].op = "withdraw"

\* acc points to the account the request names, or to the slot being filled.
PointerInv ==
  \A w \in Workers :
    /\ pc[w] \in AccSetAt =>
         acc[w] \in 1..account_count /\ accounts[acc[w]].id = req[w].id
    /\ pc[w] \in {"fill", "publish"} =>
         /\ account_count < MaxAccounts /\ acc[w] = account_count + 1
         /\ \A s \in 1..account_count : accounts[s].id # req[w].id
    /\ pc[w] = "publish" => accounts[acc[w]] =
         [id |-> req[w].id, balance |-> req[w].amount, active |-> TRUE]

TableInv ==
  /\ \A s \in 1..account_count : accounts[s].active /\ accounts[s].id \in Ids
  /\ UniqueAccounts

\* What the load saw is still there, and so is the cover of a withdrawal.
LoadInv ==
  /\ NoLostUpdate
  /\ \A w \in Workers :
       pc[w] \in {"load", "store"} /\ req[w].op = "withdraw" =>
         ~Lt(Balance(w), req[w].amount)

IInv == TypeOK /\ LockInv /\ RequestInv /\ PointerInv /\ TableInv /\ LoadInv

(***************************************************************************)
(* The database keeps the promise of Ledger.tla.  A call takes effect when *)
(* it is refused, when its account is published, at its store, or at the   *)
(* load of a query.                                                        *)
(***************************************************************************)
BalanceOf(i) ==
  IF Matches(i) = {} THEN NoAccount
  ELSE accounts[CHOOSE s \in Slots : FoundAt(i, s)].balance

PhaseOf(w) ==
  CASE pc[w] = "idle" -> "idle"
    [] pc[w] \in {"leave_db", "read_back", "unlock_acc", "return"} -> "done"
    [] OTHER -> "called"

AnswerOf(w) ==
  IF pc[w] = "read_back" THEN [code |-> OK, out |-> Balance(w)] ELSE ret[w]

Bal   == [i \in Ids |-> BalanceOf(i)]
Phase == [w \in Workers |-> PhaseOf(w)]
Ans   == [w \in Workers |-> AnswerOf(w)]

L == INSTANCE Ledger WITH bal <- Bal, opened <- account_count, phase <- Phase, ans <- Ans

\* Every call is indivisible: the interleaved steps of the workers have the
\* outcome of the calls made one after the other.
LedgerSpec == L!Spec
-----------------------------------------------------------------------------
(***************************************************************************)
(* Liveness.                                                               *)
(***************************************************************************)
InCall(w) == pc[w] # "idle"

\* A worker killed while it holds a mutex.
Orphaned == \E w \in Workers : ~alive[w] /\ pc[w] \in DbHeldAt \cup AccHeldAt

\* Every call returns: no lock is left behind on any exit path and no two
\* workers wait for each other.  A worker killed between two critical sections
\* harms nobody; only one that dies holding a mutex does.
SurvivorsReturnUnlessOrphaned ==
  []~Orphaned => \A w \in Workers : InCall(w) ~> (~InCall(w) \/ ~alive[w])
=============================================================================

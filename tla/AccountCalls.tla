---------------------------- MODULE AccountCalls ----------------------------
(***************************************************************************)
(* The interface of the account database (common/include/account.h): the   *)
(* four calls a worker makes, their arguments, the check each makes of its *)
(* arguments before it takes a lock, and the codes they return.            *)
(*                                                                         *)
(* An account id is a value of Ids: it stands for an id of at most 19      *)
(* bytes, which strncpy and strcmp store and compare whole.                *)
(***************************************************************************)
EXTENDS Money

CONSTANTS
  Workers,      \* the worker processes (banking_server.c forks MAX_WORKERS)
  Ids,          \* the account ids requests may name
  Openings,     \* the initial balances a create request may carry
  Amounts,      \* the amounts a deposit or a withdrawal may carry
  MaxAccounts,  \* MAX_ACCOUNTS, the size of the table
  Mortal,       \* the workers that may be killed
  NoAccount,    \* no balance: the account does not exist
  Unwritten     \* content of an out-parameter the call did not write

ASSUME CallsAssumption ==
  /\ MaxAccounts \in Nat \ {0}
  /\ Openings \subseteq Money
  /\ Amounts \subseteq Money
  /\ Mortal \subseteq Workers
  /\ NoAccount \notin Money
  /\ Unwritten \notin Money

\* Return codes of account_create, account_deposit, account_withdraw and
\* account_get_balance.  The same number means different things in different
\* calls: -2 is "exists" for a create and "not found" for the others, -3 is
\* "full" for a create and "insufficient funds" for a withdrawal.
OK             == 0
BadArgument    == -1
Exists         == -2
NotFound       == -2
Full           == -3
Insufficient   == -3
Codes          == {OK, BadArgument, NotFound, Insufficient}

Requests ==
       [op : {"create"}, id : Ids, amount : Openings]
  \cup [op : {"deposit", "withdraw"}, id : Ids, amount : Amounts]
  \cup [op : {"balance"}, id : Ids, amount : {0}]

\* A worker between two calls.
NoRequest == [op |-> "none", id |-> NoAccount, amount |-> 0]

\* What a call returns: its code, and what it left in *new_balance.
Answers == [code : Codes, out : Money \cup {Unwritten}]

\* The answer of a call that does not write *new_balance.
Bare(code) == [code |-> code, out |-> Unwritten]

\* Mutant: the test `amount <= 0` is dropped from deposits and withdrawals.
RejectedUnlessSigned(r) == r.op = "create" /\ Lt(r.amount, 0)

\* The early returns `if (initial_balance < 0) return -1` and
\* `if (... || amount <= 0) return -1`; a query has no amount to check.
Rejected(r) ==
  \/ r.op = "create" /\ Lt(r.amount, 0)
  \/ r.op \in {"deposit", "withdraw"} /\ Le(r.amount, 0)
=============================================================================

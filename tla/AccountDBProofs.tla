-------------------------- MODULE AccountDBProofs ---------------------------
(***************************************************************************)
(* Theorems about AccountDB, for any set of workers and ids, any table     *)
(* size, any amounts and any number of calls.                              *)
(***************************************************************************)
EXTENDS AccountDB, TLAPS

USE MoneyAssumption, CallsAssumption, NoOneAssumption, BoundAssumption

\* Sums and differences of amounts are amounts.
LEMMA MoneyClosed ==
  ASSUME NEW a \in Money, NEW b \in Money
  PROVE  Add(a, b) \in Money /\ Sub(a, b) \in Money
BY DEF Money, Special, Add, Sub, Negate

\* The start of the program satisfies the invariant.
LEMMA InitIInv == Init => IInv
BY DEF Init, IInv, TypeOK, LockInv, RequestInv, PointerInv, TableInv, LoadInv,
       UniqueAccounts, NoLostUpdate, Slots, Points, DbHeldAt, AccHeldAt, AccSetAt,
       Money, Answers, Bare, Codes, OK, BadArgument, NotFound, Insufficient

\* A pointer to an account is a slot, whose balance is an amount.
LEMMA PointerTyped ==
  ASSUME TypeOK, PointerInv, NEW w \in Workers, pc[w] \in AccSetAt
  PROVE  acc[w] \in Slots /\ Balance(w) \in Money
<1>1. acc[w] \in 1..account_count
  BY DEF PointerInv
<1>2. account_count \in 0..MaxAccounts /\ MaxAccounts \in Nat
  BY DEF TypeOK
<1>3. acc[w] \in Slots
  BY <1>1, <1>2 DEF Slots
<1>4. QED
  BY <1>3 DEF TypeOK, Balance

\* The slot being filled lies beyond the published ones, to which all other
\* pointers point.
LEMMA FillerPointer ==
  ASSUME TypeOK, PointerInv, NEW w \in Workers, pc[w] \in {"fill", "publish"}
  PROVE  /\ acc[w] = account_count + 1 /\ acc[w] \in Slots
         /\ acc[w] \notin 1..account_count
         /\ \A v \in Workers : pc[v] \in AccSetAt => acc[v] \in Slots /\ acc[v] # acc[w]
<1>1. acc[w] = account_count + 1 /\ account_count < MaxAccounts
  BY DEF PointerInv
<1>2. account_count \in 0..MaxAccounts /\ MaxAccounts \in Nat
  BY DEF TypeOK
<1>3. \A v \in Workers : pc[v] \in AccSetAt => acc[v] \in 1..account_count
  BY DEF PointerInv
<1>4. QED
  BY <1>1, <1>2, <1>3 DEF Slots

\* No step leaves the types.
LEMMA StepTypeOK ==
  ASSUME IInv, [Next]_vars PROVE TypeOK'
<1> USE DEF IInv, TypeOK, Goto, Code, Points, DbHeldAt, AccHeldAt, AccSetAt, Slots,
            Answers, Bare, Codes, OK, BadArgument, NotFound, Insufficient, Exists, Full,
            table, locks, frame
<1>1. ASSUME NEW w \in Workers, NEW r \in Requests, Call(w, r) PROVE TypeOK'
  BY <1>1 DEF Call
<1>2. ASSUME NEW w \in Workers, Die(w) PROVE TypeOK'
  BY <1>2 DEF Die
<1>3. ASSUME NEW w \in Workers, BadArgs(w) PROVE TypeOK'
  BY <1>3 DEF BadArgs
<1>4. ASSUME NEW w \in Workers, GoodArgs(w) PROVE TypeOK'
  BY <1>4 DEF GoodArgs
<1>5. ASSUME NEW w \in Workers, Return(w) PROVE TypeOK'
  BY <1>5 DEF Return, Money
<1>6. ASSUME NEW w \in Workers, LockDb(w) PROVE TypeOK'
  BY <1>6 DEF LockDb
<1>7. ASSUME NEW w \in Workers, FindRefuses(w) PROVE TypeOK'
  BY <1>7 DEF FindRefuses
<1>8. ASSUME NEW w \in Workers, FindAccount(w) PROVE TypeOK'
  BY <1>8 DEF FindAccount
<1>9. ASSUME NEW w \in Workers, TableFull(w) PROVE TypeOK'
  BY <1>9 DEF TableFull
<1>10. ASSUME NEW w \in Workers, TakeSlot(w) PROVE TypeOK'
  BY <1>10 DEF TakeSlot
<1>11. ASSUME NEW w \in Workers, FillSlot(w) PROVE TypeOK'
  BY <1>11 DEF FillSlot, RequestInv, Requests, PointerInv
<1>12. ASSUME NEW w \in Workers, Publish(w) PROVE TypeOK'
  <2>1. account_count < MaxAccounts
    BY <1>12 DEF Publish, PointerInv
  <2>2. account_count' \in 0..MaxAccounts
    BY <1>12, <2>1 DEF Publish
  <2>3. QED
    BY <1>12, <2>2 DEF Publish
<1>13. ASSUME NEW w \in Workers, LeaveDb(w) PROVE TypeOK'
  BY <1>13 DEF LeaveDb
<1>14. ASSUME NEW w \in Workers, LockAccount(w) PROVE TypeOK'
  BY <1>14 DEF LockAccount
<1>15. ASSUME NEW w \in Workers, UnlockDb(w) PROVE TypeOK'
  BY <1>15 DEF UnlockDb
<1>16. ASSUME NEW w \in Workers, Refuse(w) PROVE TypeOK'
  BY <1>16 DEF Refuse
<1>17. ASSUME NEW w \in Workers, Cover(w) PROVE TypeOK'
  BY <1>17 DEF Cover
<1>18. ASSUME NEW w \in Workers, Load(w) PROVE TypeOK'
  <2>1. Balance(w) \in Money
    BY <1>18, PointerTyped DEF Load
  <2>2. QED
    BY <1>18, <2>1 DEF Load
<1>19. ASSUME NEW w \in Workers, Store(w) PROVE TypeOK'
  BY <1>19, MoneyClosed DEF Store, Result, PointerInv, RequestInv, Requests
<1>20. ASSUME NEW w \in Workers, ReadBack(w) PROVE TypeOK'
  <2>1. Balance(w) \in Money
    BY <1>20, PointerTyped DEF ReadBack, Answer
  <2>2. QED
    BY <1>20, <2>1 DEF ReadBack, Answer
<1>21. ASSUME NEW w \in Workers, Query(w) PROVE TypeOK'
  <2>1. Balance(w) \in Money
    BY <1>21, PointerTyped DEF Query, Answer
  <2>2. QED
    BY <1>21, <2>1 DEF Query, Answer
<1>22. ASSUME NEW w \in Workers, UnlockAccount(w) PROVE TypeOK'
  BY <1>22 DEF UnlockAccount
<1>23. CASE UNCHANGED vars
  BY <1>23 DEF vars
<1>24. QED
  BY <1>1, <1>2, <1>3, <1>4, <1>5, <1>6, <1>7, <1>8, <1>9, <1>10, <1>11, <1>12,
     <1>13, <1>14, <1>15, <1>16, <1>17, <1>18, <1>19, <1>20, <1>21, <1>22, <1>23
  DEF Next, Step
-----------------------------------------------------------------------------
\* A mutex is held exactly where the code between its lock and unlock stands.
LEMMA StepLockInv ==
  ASSUME IInv, [Next]_vars PROVE LockInv'
<1> USE DEF IInv, TypeOK, Goto, Code, Points, DbHeldAt, AccHeldAt, AccSetAt,
            table, locks, frame, LockInv, Slots
<1>1. ASSUME NEW w \in Workers, NEW r \in Requests, Call(w, r) PROVE LockInv'
  BY <1>1 DEF Call
<1>2. ASSUME NEW w \in Workers, Die(w) PROVE LockInv'
  BY <1>2 DEF Die
<1>3. ASSUME NEW w \in Workers, BadArgs(w) PROVE LockInv'
  BY <1>3 DEF BadArgs
<1>4. ASSUME NEW w \in Workers, GoodArgs(w) PROVE LockInv'
  BY <1>4 DEF GoodArgs
<1>5. ASSUME NEW w \in Workers, Return(w) PROVE LockInv'
  BY <1>5 DEF Return
<1>6. ASSUME NEW w \in Workers, LockDb(w) PROVE LockInv'
  BY <1>6 DEF LockDb
<1>7. ASSUME NEW w \in Workers, FindRefuses(w) PROVE LockInv'
  BY <1>7 DEF FindRefuses
<1>8. ASSUME NEW w \in Workers, FindAccount(w) PROVE LockInv'
  BY <1>8 DEF FindAccount
<1>9. ASSUME NEW w \in Workers, TableFull(w) PROVE LockInv'
  BY <1>9 DEF TableFull
<1>10. ASSUME NEW w \in Workers, TakeSlot(w) PROVE LockInv'
  BY <1>10 DEF TakeSlot
<1>11. ASSUME NEW w \in Workers, FillSlot(w) PROVE LockInv'
  BY <1>11 DEF FillSlot
<1>12. ASSUME NEW w \in Workers, Publish(w) PROVE LockInv'
  BY <1>12 DEF Publish
<1>13. ASSUME NEW w \in Workers, LeaveDb(w) PROVE LockInv'
  BY <1>13 DEF LeaveDb
<1>14. ASSUME NEW w \in Workers, LockAccount(w) PROVE LockInv'
  <2>1. acc[w] \in Slots /\ acc_lock[acc[w]] = NoOne
    BY <1>14, PointerTyped DEF LockAccount
  <2>2. ASSUME NEW v \in Workers, pc'[v] \in AccHeldAt PROVE acc_lock'[acc'[v]] = v
    BY <1>14, <2>1, <2>2 DEF LockAccount
  <2>3. ASSUME NEW s \in Slots, acc_lock'[s] # NoOne
        PROVE  pc'[acc_lock'[s]] \in AccHeldAt /\ acc'[acc_lock'[s]] = s
    BY <1>14, <2>1, <2>3 DEF LockAccount
  <2>4. \A v \in Workers : db_lock' = v <=> pc'[v] \in DbHeldAt
    BY <1>14 DEF LockAccount
  <2>5. QED
    BY <2>2, <2>3, <2>4
<1>15. ASSUME NEW w \in Workers, UnlockDb(w) PROVE LockInv'
  BY <1>15 DEF UnlockDb
<1>16. ASSUME NEW w \in Workers, Refuse(w) PROVE LockInv'
  BY <1>16 DEF Refuse
<1>17. ASSUME NEW w \in Workers, Cover(w) PROVE LockInv'
  BY <1>17 DEF Cover
<1>18. ASSUME NEW w \in Workers, Load(w) PROVE LockInv'
  BY <1>18 DEF Load
<1>19. ASSUME NEW w \in Workers, Store(w) PROVE LockInv'
  BY <1>19 DEF Store
<1>20. ASSUME NEW w \in Workers, ReadBack(w) PROVE LockInv'
  BY <1>20 DEF ReadBack, Answer
<1>21. ASSUME NEW w \in Workers, Query(w) PROVE LockInv'
  BY <1>21 DEF Query, Answer
<1>22. ASSUME NEW w \in Workers, UnlockAccount(w) PROVE LockInv'
  BY <1>22 DEF UnlockAccount
<1>23. CASE UNCHANGED vars
  BY <1>23 DEF vars
<1>24. QED
  BY <1>1, <1>2, <1>3, <1>4, <1>5, <1>6, <1>7, <1>8, <1>9, <1>10, <1>11, <1>12,
     <1>13, <1>14, <1>15, <1>16, <1>17, <1>18, <1>19, <1>20, <1>21, <1>22, <1>23
  DEF Next, Step

\* Every branch is taken by the requests it is meant for.
LEMMA StepRequestInv ==
  ASSUME IInv, [Next]_vars PROVE RequestInv'
<1> USE DEF IInv, TypeOK, Goto, Code, Points, DbHeldAt, AccHeldAt, AccSetAt,
            table, locks, frame, RequestInv, NoRequest
<1>1. ASSUME NEW w \in Workers, NEW r \in Requests, Call(w, r) PROVE RequestInv'
  BY <1>1 DEF Call
<1>2. ASSUME NEW w \in Workers, Die(w) PROVE RequestInv'
  BY <1>2 DEF Die
<1>3. ASSUME NEW w \in Workers, BadArgs(w) PROVE RequestInv'
  BY <1>3 DEF BadArgs
<1>4. ASSUME NEW w \in Workers, GoodArgs(w) PROVE RequestInv'
  BY <1>4 DEF GoodArgs
<1>5. ASSUME NEW w \in Workers, Return(w) PROVE RequestInv'
  BY <1>5 DEF Return
<1>6. ASSUME NEW w \in Workers, LockDb(w) PROVE RequestInv'
  BY <1>6 DEF LockDb
<1>7. ASSUME NEW w \in Workers, FindRefuses(w) PROVE RequestInv'
  BY <1>7 DEF FindRefuses
<1>8. ASSUME NEW w \in Workers, FindAccount(w) PROVE RequestInv'
  BY <1>8 DEF FindAccount
<1>9. ASSUME NEW w \in Workers, TableFull(w) PROVE RequestInv'
  BY <1>9 DEF TableFull
<1>10. ASSUME NEW w \in Workers, TakeSlot(w) PROVE RequestInv'
  BY <1>10 DEF TakeSlot
<1>11. ASSUME NEW w \in Workers, FillSlot(w) PROVE RequestInv'
  BY <1>11 DEF FillSlot
<1>12. ASSUME NEW w \in Workers, Publish(w) PROVE RequestInv'
  BY <1>12 DEF Publish
<1>13. ASSUME NEW w \in Workers, LeaveDb(w) PROVE RequestInv'
  BY <1>13 DEF LeaveDb
<1>14. ASSUME NEW w \in Workers, LockAccount(w) PROVE RequestInv'
  BY <1>14 DEF LockAccount
<1>15. ASSUME NEW w \in Workers, UnlockDb(w) PROVE RequestInv'
  BY <1>15 DEF UnlockDb
<1>16. ASSUME NEW w \in Workers, Refuse(w) PROVE RequestInv'
  BY <1>16 DEF Refuse
<1>17. ASSUME NEW w \in Workers, Cover(w) PROVE RequestInv'
  BY <1>17 DEF Cover
<1>18. ASSUME NEW w \in Workers, Load(w) PROVE RequestInv'
  BY <1>18 DEF Load
<1>19. ASSUME NEW w \in Workers, Store(w) PROVE RequestInv'
  BY <1>19 DEF Store
<1>20. ASSUME NEW w \in Workers, ReadBack(w) PROVE RequestInv'
  BY <1>20 DEF ReadBack, Answer
<1>21. ASSUME NEW w \in Workers, Query(w) PROVE RequestInv'
  BY <1>21 DEF Query, Answer
<1>22. ASSUME NEW w \in Workers, UnlockAccount(w) PROVE RequestInv'
  BY <1>22 DEF UnlockAccount
<1>23. CASE UNCHANGED vars
  BY <1>23 DEF vars
<1>24. QED
  BY <1>1, <1>2, <1>3, <1>4, <1>5, <1>6, <1>7, <1>8, <1>9, <1>10, <1>11, <1>12,
     <1>13, <1>14, <1>15, <1>16, <1>17, <1>18, <1>19, <1>20, <1>21, <1>22, <1>23
  DEF Next, Step

\* Filling a slot disturbs no pointer: the slot lies beyond all of them.
LEMMA FillSlotPointer ==
  ASSUME IInv, NEW w \in Workers, FillSlot(w) PROVE PointerInv'
<1>1. /\ TypeOK /\ PointerInv /\ pc[w] = "fill"
      /\ UNCHANGED <<req, acc, account_count>>
      /\ pc' = [pc EXCEPT ![w] = "publish"]
      /\ accounts' = [accounts EXCEPT ![acc[w]] =
           [id |-> req[w].id, balance |-> req[w].amount, active |-> TRUE]]
  BY DEF IInv, FillSlot, Goto, locks, frame
<1>2. /\ acc[w] = account_count + 1 /\ acc[w] \in Slots
      /\ acc[w] \notin 1..account_count
  BY <1>1, FillerPointer
<1>3. accounts'[acc[w]] = [id |-> req[w].id, balance |-> req[w].amount, active |-> TRUE]
  BY <1>1, <1>2 DEF TypeOK
<1>4. ASSUME NEW s \in 1..account_count PROVE accounts'[s] = accounts[s]
  <2>1. s \in Slots /\ s # acc[w]
    BY <1>1, <1>2 DEF TypeOK, Slots
  <2>2. QED
    BY <1>1, <2>1 DEF TypeOK
<1>5. pc'[w] = "publish" /\ \A v \in Workers \ {w} : pc'[v] = pc[v]
  BY <1>1 DEF TypeOK
<1>6. ASSUME NEW v \in Workers, pc'[v] \in AccSetAt
      PROVE  acc'[v] \in 1..account_count' /\ accounts'[acc'[v]].id = req'[v].id
  <2>1. pc[v] \in AccSetAt
    BY <1>5, <1>6 DEF AccSetAt, AccHeldAt
  <2>2. acc[v] \in 1..account_count /\ accounts[acc[v]].id = req[v].id
    BY <1>1, <2>1 DEF PointerInv
  <2>3. QED
    BY <1>1, <1>4, <2>2
<1>7. ASSUME NEW v \in Workers, pc'[v] \in {"fill", "publish"} PROVE v = w
  BY <1>5, <1>7 DEF IInv, LockInv, FillSlot, Goto, DbHeldAt
<1>8. account_count < MaxAccounts /\ \A s \in 1..account_count : accounts'[s].id # req[w].id
  BY <1>1, <1>4 DEF PointerInv
<1>9. QED
  BY <1>1, <1>2, <1>3, <1>6, <1>7, <1>8 DEF PointerInv

\* A pointer found under db_lock stays good after db_lock is released, because
\* slots are only appended and never lose their id.
LEMMA StepPointerInv ==
  ASSUME IInv, [Next]_vars PROVE PointerInv'
<1> USE DEF IInv, TypeOK, Goto, Code, Points, DbHeldAt, AccHeldAt, AccSetAt,
            table, locks, frame,
            PointerInv, LockInv, RequestInv, Slots
<1>1. ASSUME NEW w \in Workers, NEW r \in Requests, Call(w, r) PROVE PointerInv'
  BY <1>1 DEF Call
<1>2. ASSUME NEW w \in Workers, Die(w) PROVE PointerInv'
  BY <1>2 DEF Die
<1>3. ASSUME NEW w \in Workers, BadArgs(w) PROVE PointerInv'
  BY <1>3 DEF BadArgs
<1>4. ASSUME NEW w \in Workers, GoodArgs(w) PROVE PointerInv'
  BY <1>4 DEF GoodArgs
<1>5. ASSUME NEW w \in Workers, Return(w) PROVE PointerInv'
  BY <1>5 DEF Return
<1>6. ASSUME NEW w \in Workers, LockDb(w) PROVE PointerInv'
  BY <1>6 DEF LockDb
<1>7. ASSUME NEW w \in Workers, FindRefuses(w) PROVE PointerInv'
  BY <1>7 DEF FindRefuses
<1>8. ASSUME NEW w \in Workers, FindAccount(w) PROVE PointerInv'
  <2>1. PICK s \in Slots : FoundAt(req[w].id, s) /\ acc' = [acc EXCEPT ![w] = s]
    BY <1>8 DEF FindAccount
  <2>2. s \in 1..account_count /\ accounts[s].id = req[w].id
    BY <2>1 DEF FoundAt, Matches
  <2>3. QED
    BY <1>8, <2>1, <2>2 DEF FindAccount
<1>9. ASSUME NEW w \in Workers, TableFull(w) PROVE PointerInv'
  BY <1>9 DEF TableFull
<1>10. ASSUME NEW w \in Workers, TakeSlot(w) PROVE PointerInv'
  <2>1. \A s \in 1..account_count : accounts[s].id # req[w].id
    BY <1>10 DEF TakeSlot, Matches, TableInv
  <2>2. acc'[w] = account_count + 1
    BY <1>10 DEF TakeSlot
  <2>3. QED
    BY <1>10, <2>1, <2>2 DEF TakeSlot
<1>11. ASSUME NEW w \in Workers, FillSlot(w) PROVE PointerInv'
  BY <1>11, FillSlotPointer
<1>12. ASSUME NEW w \in Workers, Publish(w) PROVE PointerInv'
  BY <1>12 DEF Publish
<1>13. ASSUME NEW w \in Workers, LeaveDb(w) PROVE PointerInv'
  BY <1>13 DEF LeaveDb
<1>14. ASSUME NEW w \in Workers, LockAccount(w) PROVE PointerInv'
  BY <1>14 DEF LockAccount
<1>15. ASSUME NEW w \in Workers, UnlockDb(w) PROVE PointerInv'
  BY <1>15 DEF UnlockDb
<1>16. ASSUME NEW w \in Workers, Refuse(w) PROVE PointerInv'
  BY <1>16 DEF Refuse
<1>17. ASSUME NEW w \in Workers, Cover(w) PROVE PointerInv'
  BY <1>17 DEF Cover
<1>18. ASSUME NEW w \in Workers, Load(w) PROVE PointerInv'
  BY <1>18 DEF Load
<1>19. ASSUME NEW w \in Workers, Store(w) PROVE PointerInv'
  <2>1. acc[w] \in Slots
    BY <1>19, PointerTyped DEF Store
  <2>2. \A s \in Slots : accounts'[s].id = accounts[s].id
    BY <1>19, <2>1 DEF Store
  <2>3. \A v \in Workers : pc'[v] = "publish" => accounts'[acc[v]] = accounts[acc[v]]
    BY <1>19, FillerPointer DEF Store
  <2>4. QED
    BY <1>19, <2>2, <2>3 DEF Store
<1>20. ASSUME NEW w \in Workers, ReadBack(w) PROVE PointerInv'
  BY <1>20 DEF ReadBack, Answer
<1>21. ASSUME NEW w \in Workers, Query(w) PROVE PointerInv'
  BY <1>21 DEF Query, Answer
<1>22. ASSUME NEW w \in Workers, UnlockAccount(w) PROVE PointerInv'
  BY <1>22 DEF UnlockAccount
<1>23. CASE UNCHANGED vars
  BY <1>23 DEF vars
<1>24. QED
  BY <1>1, <1>2, <1>3, <1>4, <1>5, <1>6, <1>7, <1>8, <1>9, <1>10, <1>11, <1>12,
     <1>13, <1>14, <1>15, <1>16, <1>17, <1>18, <1>19, <1>20, <1>21, <1>22, <1>23
  DEF Next, Step

\* The published part of the table has every id at most once.
LEMMA StepTableInv ==
  ASSUME IInv, [Next]_vars PROVE TableInv'
<1> USE DEF IInv, TypeOK, Goto, Code, Points, DbHeldAt, AccHeldAt, AccSetAt,
            table, locks, frame,
            TableInv, UniqueAccounts, PointerInv, Slots
<1>1. ASSUME NEW w \in Workers, NEW r \in Requests, Call(w, r) PROVE TableInv'
  BY <1>1 DEF Call
<1>2. ASSUME NEW w \in Workers, Die(w) PROVE TableInv'
  BY <1>2 DEF Die
<1>3. ASSUME NEW w \in Workers, BadArgs(w) PROVE TableInv'
  BY <1>3 DEF BadArgs
<1>4. ASSUME NEW w \in Workers, GoodArgs(w) PROVE TableInv'
  BY <1>4 DEF GoodArgs
<1>5. ASSUME NEW w \in Workers, Return(w) PROVE TableInv'
  BY <1>5 DEF Return
<1>6. ASSUME NEW w \in Workers, LockDb(w) PROVE TableInv'
  BY <1>6 DEF LockDb
<1>7. ASSUME NEW w \in Workers, FindRefuses(w) PROVE TableInv'
  BY <1>7 DEF FindRefuses
<1>8. ASSUME NEW w \in Workers, FindAccount(w) PROVE TableInv'
  BY <1>8 DEF FindAccount
<1>9. ASSUME NEW w \in Workers, TableFull(w) PROVE TableInv'
  BY <1>9 DEF TableFull
<1>10. ASSUME NEW w \in Workers, TakeSlot(w) PROVE TableInv'
  BY <1>10 DEF TakeSlot
<1>11. ASSUME NEW w \in Workers, FillSlot(w) PROVE TableInv'
  BY <1>11 DEF FillSlot
<1>12. ASSUME NEW w \in Workers, Publish(w) PROVE TableInv'
  <2>1. acc[w] = account_count + 1 /\ account_count' = account_count + 1
    BY <1>12 DEF Publish
  <2>2. req[w].id \in Ids
    BY <1>12 DEF Publish, RequestInv, Requests
  <2>3. accounts[acc[w]] = [id |-> req[w].id, balance |-> req[w].amount, active |-> TRUE]
    BY <1>12 DEF Publish
  <2>4. accounts[acc[w]].active /\ accounts[acc[w]].id \in Ids
    BY <2>2, <2>3
  <2>5. accounts[acc[w]].id = req[w].id
    BY <2>3
  <2>6. \A s \in 1..account_count : accounts[s].id # req[w].id
    BY <1>12 DEF Publish
  <2>7. \A s \in 1..account_count : accounts[s].id # accounts[acc[w]].id
    BY <2>5, <2>6
  <2>8. \A s \in 1..account_count' : s \in 1..account_count \/ s = acc[w]
    BY <2>1
  <2>9. QED
    BY <1>12, <2>1, <2>4, <2>7, <2>8 DEF Publish
<1>13. ASSUME NEW w \in Workers, LeaveDb(w) PROVE TableInv'
  BY <1>13 DEF LeaveDb
<1>14. ASSUME NEW w \in Workers, LockAccount(w) PROVE TableInv'
  BY <1>14 DEF LockAccount
<1>15. ASSUME NEW w \in Workers, UnlockDb(w) PROVE TableInv'
  BY <1>15 DEF UnlockDb
<1>16. ASSUME NEW w \in Workers, Refuse(w) PROVE TableInv'
  BY <1>16 DEF Refuse
<1>17. ASSUME NEW w \in Workers, Cover(w) PROVE TableInv'
  BY <1>17 DEF Cover
<1>18. ASSUME NEW w \in Workers, Load(w) PROVE TableInv'
  BY <1>18 DEF Load
<1>19. ASSUME NEW w \in Workers, Store(w) PROVE TableInv'
  BY <1>19 DEF Store
<1>20. ASSUME NEW w \in Workers, ReadBack(w) PROVE TableInv'
  BY <1>20 DEF ReadBack, Answer
<1>21. ASSUME NEW w \in Workers, Query(w) PROVE TableInv'
  BY <1>21 DEF Query, Answer
<1>22. ASSUME NEW w \in Workers, UnlockAccount(w) PROVE TableInv'
  BY <1>22 DEF UnlockAccount
<1>23. CASE UNCHANGED vars
  BY <1>23 DEF vars
<1>24. QED
  BY <1>1, <1>2, <1>3, <1>4, <1>5, <1>6, <1>7, <1>8, <1>9, <1>10, <1>11, <1>12,
     <1>13, <1>14, <1>15, <1>16, <1>17, <1>18, <1>19, <1>20, <1>21, <1>22, <1>23
  DEF Next, Step

\* What a worker has seen of a balance stays true while it holds the mutex.
LEMMA StepLoadInv ==
  ASSUME IInv, [Next]_vars PROVE LoadInv'
<1> USE DEF IInv, TypeOK, Goto, Code, Points, DbHeldAt, AccHeldAt, AccSetAt,
            table, locks, frame,
            LoadInv, NoLostUpdate, PointerInv, LockInv, RequestInv, Balance, Slots
<1>1. ASSUME NEW w \in Workers, NEW r \in Requests, Call(w, r) PROVE LoadInv'
  BY <1>1 DEF Call
<1>2. ASSUME NEW w \in Workers, Die(w) PROVE LoadInv'
  BY <1>2 DEF Die
<1>3. ASSUME NEW w \in Workers, BadArgs(w) PROVE LoadInv'
  BY <1>3 DEF BadArgs
<1>4. ASSUME NEW w \in Workers, GoodArgs(w) PROVE LoadInv'
  BY <1>4 DEF GoodArgs
<1>5. ASSUME NEW w \in Workers, Return(w) PROVE LoadInv'
  BY <1>5 DEF Return
<1>6. ASSUME NEW w \in Workers, LockDb(w) PROVE LoadInv'
  BY <1>6 DEF LockDb
<1>7. ASSUME NEW w \in Workers, FindRefuses(w) PROVE LoadInv'
  BY <1>7 DEF FindRefuses
<1>8. ASSUME NEW w \in Workers, FindAccount(w) PROVE LoadInv'
  BY <1>8 DEF FindAccount
<1>9. ASSUME NEW w \in Workers, TableFull(w) PROVE LoadInv'
  BY <1>9 DEF TableFull
<1>10. ASSUME NEW w \in Workers, TakeSlot(w) PROVE LoadInv'
  BY <1>10 DEF TakeSlot
<1>11. ASSUME NEW w \in Workers, FillSlot(w) PROVE LoadInv'
  <2>1. acc[w] = account_count + 1
    BY <1>11 DEF FillSlot
  <2>2. \A v \in Workers : pc[v] \in AccSetAt => accounts'[acc[v]] = accounts[acc[v]]
    BY <1>11, FillerPointer DEF FillSlot
  <2>3. QED
    BY <1>11, <2>2 DEF FillSlot
<1>12. ASSUME NEW w \in Workers, Publish(w) PROVE LoadInv'
  BY <1>12 DEF Publish
<1>13. ASSUME NEW w \in Workers, LeaveDb(w) PROVE LoadInv'
  BY <1>13 DEF LeaveDb
<1>14. ASSUME NEW w \in Workers, LockAccount(w) PROVE LoadInv'
  BY <1>14 DEF LockAccount
<1>15. ASSUME NEW w \in Workers, UnlockDb(w) PROVE LoadInv'
  BY <1>15 DEF UnlockDb
<1>16. ASSUME NEW w \in Workers, Refuse(w) PROVE LoadInv'
  BY <1>16 DEF Refuse
<1>17. ASSUME NEW w \in Workers, Cover(w) PROVE LoadInv'
  BY <1>17 DEF Cover
<1>18. ASSUME NEW w \in Workers, Load(w) PROVE LoadInv'
  BY <1>18 DEF Load
<1>19. ASSUME NEW w \in Workers, Store(w) PROVE LoadInv'
  BY <1>19 DEF Store
<1>20. ASSUME NEW w \in Workers, ReadBack(w) PROVE LoadInv'
  BY <1>20 DEF ReadBack, Answer
<1>21. ASSUME NEW w \in Workers, Query(w) PROVE LoadInv'
  BY <1>21 DEF Query, Answer
<1>22. ASSUME NEW w \in Workers, UnlockAccount(w) PROVE LoadInv'
  BY <1>22 DEF UnlockAccount
<1>23. CASE UNCHANGED vars
  BY <1>23 DEF vars
<1>24. QED
  BY <1>1, <1>2, <1>3, <1>4, <1>5, <1>6, <1>7, <1>8, <1>9, <1>10, <1>11, <1>12,
     <1>13, <1>14, <1>15, <1>16, <1>17, <1>18, <1>19, <1>20, <1>21, <1>22, <1>23
  DEF Next, Step
-----------------------------------------------------------------------------
\* IInv is inductive: Init establishes it and every step of Next keeps it.
THEOREM InvariantHolds == Spec => []IInv
<1>1. IInv /\ [Next]_vars => IInv'
  BY StepTypeOK, StepLockInv, StepRequestInv, StepPointerInv, StepTableInv, StepLoadInv
  DEF IInv
<1>2. QED
  BY InitIInv, <1>1, PTL DEF Spec

\* Every variable keeps its type; in particular no worker ever fills a slot
\* beyond MAX_ACCOUNTS and account_count stays within the table.
THEOREM TypesHold == Spec => []TypeOK
<1>1. IInv => TypeOK
  BY DEF IInv
<1>2. QED
  BY InvariantHolds, <1>1, PTL

\* However many creates overlap, no id is published twice: the search and the
\* append of account_create are one critical section of db_lock.
THEOREM AccountsAreUnique == Spec => []UniqueAccounts
<1>1. IInv => UniqueAccounts
  BY DEF IInv, TableInv
<1>2. QED
  BY InvariantHolds, <1>1, PTL

\* However many deposits and withdrawals overlap, none stores a balance
\* computed from one that is no longer there.
THEOREM NoUpdateIsLost == Spec => []NoLostUpdate
<1>1. IInv => NoLostUpdate
  BY DEF IInv, LoadInv
<1>2. QED
  BY InvariantHolds, <1>1, PTL

\* A published account is never renamed, unpublished or moved, and its balance
\* moves only at the store of the worker that holds its mutex.
THEOREM AccountsStay == Spec => AccountsPersist
<1> DEFINE Stays(s) ==
      /\ s \in 1..account_count'
      /\ accounts'[s].id = accounts[s].id /\ accounts'[s].active
      /\ accounts'[s].balance # accounts[s].balance =>
           /\ acc_lock[s] \in Workers
           /\ pc[acc_lock[s]] = "store"
           /\ pc'[acc_lock[s]] = "read_back"
<1>1. ASSUME IInv, [Next]_vars, NEW s \in 1..account_count PROVE Stays(s)
  <2>1. s \in Slots /\ s \in 1..(account_count + 1) /\ accounts[s].active
    BY <1>1 DEF IInv, TypeOK, TableInv, Slots
  <2>2. ASSUME UNCHANGED table PROVE Stays(s)
    BY <2>1, <2>2, <1>1 DEF table
  <2>3. ASSUME NEW w \in Workers, FillSlot(w) PROVE Stays(s)
    <3>1. acc[w] \notin 1..account_count
      BY <1>1, <2>3, FillerPointer DEF IInv, FillSlot, Goto
    <3>2. accounts'[s] = accounts[s] /\ account_count' = account_count
      BY <1>1, <2>1, <2>3, <3>1 DEF IInv, TypeOK, FillSlot
    <3>3. QED
      BY <2>1, <3>2, <1>1
  <2>4. ASSUME NEW w \in Workers, Publish(w) PROVE Stays(s)
    BY <2>1, <2>4, <1>1 DEF Publish
  <2>5. ASSUME NEW w \in Workers, Store(w) PROVE Stays(s)
    <3>1. acc[w] \in Slots /\ acc_lock[acc[w]] = w /\ pc[w] = "store" /\ pc'[w] = "read_back"
      BY <1>1, <2>5, PointerTyped
      DEF IInv, TypeOK, LockInv, Store, Goto, AccSetAt, AccHeldAt
    <3>2. accounts'[s].id = accounts[s].id /\ accounts'[s].active /\ account_count' = account_count
      BY <1>1, <2>1, <2>5 DEF IInv, TypeOK, Store
    <3>3. s # acc[w] => accounts'[s] = accounts[s]
      BY <1>1, <2>1, <2>5 DEF IInv, TypeOK, Store
    <3>4. QED
      BY <1>1, <3>1, <3>2, <3>3
  <2>6. UNCHANGED table \/ \E w \in Workers : FillSlot(w) \/ Publish(w) \/ Store(w)
    BY <1>1 DEF Next, Step, vars, table, Call, Die, BadArgs, GoodArgs, Return, LockDb,
      FindRefuses, FindAccount, TableFull, TakeSlot, LeaveDb, LockAccount, UnlockDb,
      Refuse, Cover, Load, ReadBack, Query, Answer, UnlockAccount
  <2>7. QED
    BY <2>2, <2>3, <2>4, <2>5, <2>6
<1>2. IInv /\ [Next]_vars => [\A s \in 1..account_count : Stays(s)]_vars
  BY <1>1
<1>3. QED
  BY InvariantHolds, <1>2, PTL DEF Spec, AccountsPersist

-----------------------------------------------------------------------------
(***************************************************************************)
(* The balances, when no request carries an infinity or a NaN.  The tests  *)
(* of account.c only compare, and a NaN passes all of them: without the    *)
(* assumption the theorem is false (run db_nan).                           *)
(***************************************************************************)
FiniteInputs == Openings \subseteq Int /\ Amounts \subseteq Int

\* Every slot holds a number of units, and not a negative one.
BalanceInv == \A s \in Slots : accounts[s].balance \in Nat

\* Comparisons of finite amounts are those of the integers.
LEMMA FiniteOrder ==
  ASSUME NEW a \in Int, NEW b \in Int
  PROVE  (Lt(a, b) <=> a < b) /\ (Le(a, b) <=> a <= b)
BY DEF Lt, Le, Special

\* A creation stores an amount that is not negative, a deposit adds a positive
\* one, and a withdrawal subtracts no more than the balance.
LEMMA StepBalanceInv ==
  ASSUME FiniteInputs, IInv, BalanceInv, [Next]_vars PROVE BalanceInv'
<1>1. ASSUME UNCHANGED accounts PROVE BalanceInv'
  BY <1>1 DEF BalanceInv, Slots
<1>2. ASSUME NEW w \in Workers, FillSlot(w) PROVE BalanceInv'
  <2>1. req[w] \in Requests /\ req[w].op = "create" /\ ~Rejected(req[w])
    BY <1>2 DEF IInv, RequestInv, FillSlot, Goto
  <2>2. req[w].amount \in Int
    BY <2>1 DEF Requests, FiniteInputs
  <2>3. req[w].amount \in Nat
    BY <2>1, <2>2, FiniteOrder DEF Rejected
  <2>4. QED
    BY <1>2, <2>3 DEF IInv, TypeOK, BalanceInv, FillSlot, Slots
<1>3. ASSUME NEW w \in Workers, Store(w) PROVE BalanceInv'
  <2>1. /\ acc[w] \in Slots /\ Balance(w) \in Nat /\ reg[w] = Balance(w)
        /\ req[w] \in Requests /\ req[w].op \in {"deposit", "withdraw"}
        /\ ~Rejected(req[w])
        /\ req[w].op = "withdraw" => ~Lt(Balance(w), req[w].amount)
    <3>1. pc[w] = "store" /\ TypeOK /\ PointerInv
      BY <1>3 DEF IInv, Store, Goto
    <3>2. acc[w] \in Slots
      BY <3>1, PointerTyped DEF AccSetAt, AccHeldAt
    <3>3. Balance(w) \in Nat
      BY <3>2 DEF BalanceInv, Balance
    <3>4. reg[w] = Balance(w) /\ (req[w].op = "withdraw" => ~Lt(Balance(w), req[w].amount))
      BY <3>1 DEF IInv, LoadInv, NoLostUpdate
    <3>5. /\ req[w] \in Requests /\ ~Rejected(req[w])
          /\ req[w].op # "create" /\ req[w].op # "balance"
      BY <3>1 DEF IInv, RequestInv, AccSetAt, AccHeldAt
    <3>6. QED
      BY <3>2, <3>3, <3>4, <3>5 DEF Requests
  <2>2. req[w].amount \in Int
    BY <2>1 DEF Requests, FiniteInputs
  <2>3. reg[w] \in Int /\ reg[w] = Balance(w)
    BY <2>1
  <2>4. req[w].amount > 0
    BY <2>1, <2>2, FiniteOrder DEF Rejected
  <2>5. Result(w) \in Nat
    <3>1. CASE req[w].op = "deposit"
      <4>1. Add(reg[w], req[w].amount) = Balance(w) + req[w].amount
        BY <2>3, <2>2 DEF Add, Sub, Negate
      <4>2. QED
        BY <3>1, <4>1, <2>1, <2>2, <2>4 DEF Result
    <3>2. CASE req[w].op = "withdraw"
      <4>1. Balance(w) >= req[w].amount
        BY <3>2, <2>1, <2>2, FiniteOrder
      <4>2. Sub(reg[w], req[w].amount) = Balance(w) - req[w].amount
        BY <2>3, <2>2 DEF Add, Sub, Negate
      <4>3. QED
        BY <3>2, <4>1, <4>2, <2>1, <2>2 DEF Result
    <3>3. QED
      BY <2>1, <3>1, <3>2
  <2>6. QED
    BY <1>3, <2>1, <2>5 DEF IInv, TypeOK, BalanceInv, Store, Slots
<1>4. UNCHANGED accounts \/ \E w \in Workers : FillSlot(w) \/ Store(w)
  BY DEF Next, Step, vars, table, Call, Die, BadArgs, GoodArgs, Return, LockDb,
    FindRefuses, FindAccount, TableFull, TakeSlot, Publish, LeaveDb, LockAccount,
    UnlockDb, Refuse, Cover, Load, ReadBack, Query, Answer, UnlockAccount
<1>5. QED
  BY <1>1, <1>2, <1>3, <1>4

\* With finite amounts no balance is ever below zero, and a withdrawal about to
\* be stored is covered by the balance that is there at that moment.
THEOREM BalancesAreCovered ==
  ASSUME FiniteInputs PROVE Spec => [](NoOverdraft /\ WithdrawalsCovered)
<1>1. Init => BalanceInv
  BY DEF Init, BalanceInv
<1>2. IInv /\ BalanceInv /\ [Next]_vars => BalanceInv'
  BY StepBalanceInv
<1>3. BalanceInv => NoOverdraft
  BY FiniteOrder DEF BalanceInv, NoOverdraft
<1>4. ASSUME IInv, BalanceInv PROVE WithdrawalsCovered
  <2>1. SUFFICES ASSUME NEW w \in Workers, pc[w] = "store", req[w].op = "withdraw"
                 PROVE  Le(req[w].amount, Balance(w))
    BY DEF WithdrawalsCovered
  <2>2. acc[w] \in Slots
    BY <1>4, <2>1, PointerTyped DEF IInv, AccSetAt, AccHeldAt
  <2>3. Balance(w) \in Nat
    BY <1>4, <2>2 DEF BalanceInv, Balance
  <2>4. req[w].amount \in Int /\ ~Lt(Balance(w), req[w].amount)
    BY <1>4, <2>1 DEF IInv, RequestInv, LoadInv, Requests, FiniteInputs
  <2>5. QED
    BY <2>3, <2>4, FiniteOrder
<1>5. QED
  BY InvariantHolds, <1>1, <1>2, <1>3, <1>4, PTL DEF Spec

\* With finite amounts no account is ever overdrawn.
THEOREM NothingIsOverdrawn ==
  ASSUME FiniteInputs PROVE Spec => []NoOverdraft
BY BalancesAreCovered, PTL

-----------------------------------------------------------------------------
(***************************************************************************)
(* AccountDB implements Ledger: every step of the code is a step of the    *)
(* ledger or leaves what the ledger shows as it was.                       *)
(***************************************************************************)

\* A call that has not taken effect has not set its return value.
RetInv ==
  \A w \in Workers :
    pc[w] \notin {"leave_db", "unlock_acc", "return"} => ret[w] = Bare(OK)

\* The names that both modules take from AccountCalls mean the same.
LEMMA SameInterface ==
  /\ L!Requests = Requests /\ L!NoRequest = NoRequest
  /\ L!OK = OK /\ L!BadArgument = BadArgument /\ L!Exists = Exists
  /\ L!NotFound = NotFound /\ L!Full = Full /\ L!Insufficient = Insufficient
  /\ \A c : L!Bare(c) = Bare(c)
  /\ \A r : L!Rejected(r) <=> Rejected(r)
  /\ \A a, b : L!Lt(a, b) <=> Lt(a, b)
  /\ \A a, b : L!Add(a, b) = Add(a, b) /\ L!Sub(a, b) = Sub(a, b)
BY DEF L!Requests, L!NoRequest, L!OK, L!BadArgument, L!Exists, L!NotFound, L!Full,
  L!Insufficient, L!Bare, L!Rejected, L!Lt, L!Le, L!Add, L!Sub, L!Negate,
  Requests, NoRequest, OK, BadArgument, Exists, NotFound, Full,
  Insufficient, Bare, Rejected, Lt, Le, Add, Sub, Negate

\* The start of the program sets no return value.
LEMMA InitRetInv == Init => RetInv
BY DEF Init, RetInv

\* Only the last steps of a call set its return value.
LEMMA StepRetInv ==
  ASSUME IInv, RetInv, [Next]_vars PROVE RetInv'
<1> USE DEF RetInv, IInv, TypeOK, Goto, frame, Points, DbHeldAt, AccHeldAt
<1>1. ASSUME NEW w \in Workers,
             (\E r \in Requests : Call(w, r)) \/ Die(w) \/ Return(w)
      PROVE  RetInv'
  BY <1>1 DEF Call, Die, Return
<1>2. ASSUME NEW w \in Workers,
             BadArgs(w) \/ FindRefuses(w) \/ TableFull(w) \/ Refuse(w) \/ ReadBack(w) \/ Query(w)
      PROVE  RetInv'
  BY <1>2 DEF BadArgs, FindRefuses, TableFull, Refuse, ReadBack, Query, Answer, Code
<1>3. ASSUME NEW w \in Workers,
             \/ GoodArgs(w) \/ LockDb(w) \/ FindAccount(w) \/ TakeSlot(w) \/ FillSlot(w)
             \/ Publish(w) \/ LeaveDb(w) \/ LockAccount(w) \/ UnlockDb(w) \/ Cover(w)
             \/ Load(w) \/ Store(w) \/ UnlockAccount(w)
      PROVE  RetInv'
  BY <1>3 DEF GoodArgs, LockDb, FindAccount, TakeSlot, FillSlot, Publish, LeaveDb,
    LockAccount, UnlockDb, Cover, Load, Store, UnlockAccount
<1>4. CASE UNCHANGED vars
  BY <1>4 DEF vars
<1> QED
  BY <1>1, <1>2, <1>3, <1>4 DEF Next, Step
-----------------------------------------------------------------------------
\* The balance of an account is that of the one published slot with its id.
BalancesFound ==
  \A s \in 1..account_count : \A i :
    accounts[s].id = i => Matches(i) = {s} /\ BalanceOf(i) = accounts[s].balance

LEMMA BalanceFound == TypeOK /\ TableInv => BalancesFound
<1> SUFFICES ASSUME TypeOK, TableInv, NEW s \in 1..account_count, NEW i,
                    accounts[s].id = i
             PROVE  Matches(i) = {s} /\ BalanceOf(i) = accounts[s].balance
  BY DEF BalancesFound
<1>1. Matches(i) = {s}
  BY DEF TableInv, UniqueAccounts, Matches
<1>2. s \in Slots
  BY DEF TypeOK, Slots
<1>3. FoundAt(i, s) /\ \A t \in Slots : FoundAt(i, t) => t = s
  BY <1>1, <1>2 DEF FoundAt, Slots
<1>4. (CHOOSE t \in Slots : FoundAt(i, t)) = s
  BY <1>2, <1>3
<1> QED
  BY <1>1, <1>4 DEF BalanceOf

\* An id without a published slot has no balance.
LEMMA BalanceMissing ==
  ASSUME NEW i, Matches(i) = {} PROVE BalanceOf(i) = NoAccount
BY DEF BalanceOf

\* An id has a balance if and only if it has a slot.
LEMMA BalanceHas ==
  ASSUME TypeOK, TableInv, NEW i
  PROVE  BalanceOf(i) # NoAccount <=> Matches(i) # {}
<1>1. ASSUME NEW s \in Matches(i) PROVE BalanceOf(i) # NoAccount
  <2>1. s \in 1..account_count /\ accounts[s].id = i
    BY <1>1 DEF Matches
  <2>2. s \in Slots
    BY <2>1 DEF TypeOK, Slots
  <2>3. accounts[s].balance \in Money
    BY <2>2 DEF TypeOK
  <2> QED
    BY <2>1, <2>3, BalanceFound DEF BalancesFound
<1> QED
  BY <1>1, BalanceMissing

\* What the ledger shows of an account depends on the published slots only.
LEMMA BalanceSame ==
  ASSUME TypeOK, TypeOK', TableInv, TableInv', account_count' = account_count,
         \A s \in 1..account_count : accounts'[s] = accounts[s], NEW i
  PROVE  BalanceOf(i)' = BalanceOf(i)
<1>1. Matches(i)' = Matches(i)
  BY DEF Matches
<1>2. CASE Matches(i) = {}
  <2>1. BalanceOf(i) = NoAccount
    BY <1>2, BalanceMissing
  <2>2. BalanceOf(i)' = NoAccount
    BY <1>1, <1>2 DEF BalanceOf
  <2> QED
    BY <2>1, <2>2
<1>3. ASSUME NEW s \in Matches(i) PROVE BalanceOf(i)' = BalanceOf(i)
  <2>1. s \in 1..account_count /\ accounts[s].id = i /\ accounts'[s] = accounts[s]
    BY <1>3 DEF Matches
  <2>2. BalancesFound /\ BalancesFound'
    BY BalanceFound, PTL
  <2> QED
    BY <2>1, <2>2 DEF BalancesFound
<1> QED
  BY <1>2, <1>3
-----------------------------------------------------------------------------
\* Worker w goes on to another point, and changes nothing of another worker.
Moves(w) ==
  /\ Goto(w, pc[w], pc'[w]) /\ req' = req
  /\ \A v \in Workers \ {w} : ret'[v] = ret[v] /\ acc'[v] = acc[v]

\* No published slot changes.
SlotsStay ==
  account_count' = account_count /\ \A s \in 1..account_count : accounts'[s] = accounts[s]

\* The move of w is all the ledger sees of it.
MoveSeen(w) ==
  /\ Bal' = Bal
  /\ Phase' = [Phase EXCEPT ![w] = PhaseOf(w)']
  /\ Ans' = [Ans EXCEPT ![w] = AnswerOf(w)']

\* A step of one worker shows in the ledger as a step of that worker.
LEMMA StepSeen ==
  ASSUME IInv, IInv', NEW w \in Workers, Moves(w), SlotsStay
  PROVE  MoveSeen(w)
<1>1. \A v \in Workers \ {w} : pc'[v] = pc[v]
  BY DEF Moves, Goto, IInv, TypeOK
<1>2. \A i \in Ids : BalanceOf(i)' = BalanceOf(i)
  BY BalanceSame DEF IInv, SlotsStay
<1>3. \A v \in Workers \ {w} : PhaseOf(v)' = PhaseOf(v)
  BY <1>1 DEF PhaseOf
<1>4. ASSUME NEW v \in Workers \ {w} PROVE AnswerOf(v)' = AnswerOf(v)
  <2>1. CASE pc[v] = "read_back"
    <3>1. acc[v] \in 1..account_count
      BY <2>1 DEF IInv, PointerInv, AccSetAt, AccHeldAt
    <3> QED
      BY <2>1, <3>1, <1>1 DEF AnswerOf, Balance, SlotsStay, Moves
  <2>2. CASE pc[v] # "read_back"
    BY <2>2, <1>1 DEF AnswerOf, Moves
  <2> QED
    BY <2>1, <2>2
<1> QED
  BY <1>2, <1>3, <1>4 DEF MoveSeen, Bal, Phase, Ans

\* A step that neither starts, performs nor ends a call is not seen at all.
LEMMA StepUnseen ==
  ASSUME IInv, IInv', NEW w \in Workers, Moves(w), SlotsStay,
         PhaseOf(w)' = PhaseOf(w), AnswerOf(w)' = AnswerOf(w)
  PROVE  UNCHANGED L!vars
<1>1. MoveSeen(w)
  BY StepSeen
<1>2. Bal' = Bal /\ Phase' = Phase /\ Ans' = Ans
  BY <1>1 DEF MoveSeen, Phase, Ans
<1> QED
  BY <1>2 DEF L!vars, Bal, Phase, Ans, Moves, Goto, SlotsStay

\* A step that performs the call of w with answer a and changes no account.
LEMMA StepEffect ==
  ASSUME IInv, IInv', NEW w \in Workers, Moves(w), SlotsStay, NEW a,
         PhaseOf(w) = "called", PhaseOf(w)' = "done", AnswerOf(w)' = a
  PROVE  /\ L!Effect(w, a) /\ Bal' = Bal /\ account_count' = account_count
         /\ alive[w] /\ Phase[w] = "called"
<1>1. MoveSeen(w)
  BY StepSeen
<1> QED
  BY <1>1 DEF MoveSeen, L!Effect, Bal, Phase, Ans, Moves, Goto, SlotsStay
-----------------------------------------------------------------------------
\* The steps between those at which a call starts, takes effect and ends.
Between(w) ==
  \/ GoodArgs(w) \/ LockDb(w) \/ FindAccount(w) \/ TakeSlot(w) \/ FillSlot(w)
  \/ LeaveDb(w) \/ LockAccount(w) \/ UnlockDb(w) \/ Cover(w) \/ Load(w)
  \/ ReadBack(w) \/ UnlockAccount(w)

\* The ledger does not see them.
LEMMA BetweenUnseen ==
  ASSUME IInv, IInv', NEW w \in Workers, Between(w) PROVE UNCHANGED L!vars
<1> USE DEF Goto, table, frame, PhaseOf, AnswerOf
<1>1. ASSUME GoodArgs(w) \/ LockDb(w) \/ LeaveDb(w) \/ LockAccount(w) \/ UnlockDb(w)
             \/ Cover(w) \/ UnlockAccount(w)
      PROVE  UNCHANGED L!vars
  <2>1. Moves(w) /\ SlotsStay
    BY <1>1 DEF GoodArgs, LockDb, LeaveDb, LockAccount, UnlockDb, Cover, UnlockAccount,
      Moves, SlotsStay, IInv, TypeOK
  <2>2. PhaseOf(w)' = PhaseOf(w) /\ AnswerOf(w)' = AnswerOf(w)
    BY <1>1 DEF GoodArgs, LockDb, LeaveDb, LockAccount, UnlockDb, Cover, UnlockAccount,
      IInv, TypeOK
  <2> QED
    BY <2>1, <2>2, StepUnseen
<1>2. ASSUME FindAccount(w) \/ TakeSlot(w) \/ Load(w) PROVE UNCHANGED L!vars
  <2>1. Moves(w) /\ SlotsStay
    BY <1>2 DEF FindAccount, TakeSlot, Load, Moves, SlotsStay, IInv, TypeOK
  <2>2. PhaseOf(w)' = PhaseOf(w) /\ AnswerOf(w)' = AnswerOf(w)
    BY <1>2 DEF FindAccount, TakeSlot, Load, IInv, TypeOK
  <2> QED
    BY <2>1, <2>2, StepUnseen
<1>3. ASSUME FillSlot(w) PROVE UNCHANGED L!vars
  <2>1. acc[w] \notin 1..account_count
    BY <1>3, FillerPointer DEF FillSlot, IInv
  <2>2. Moves(w) /\ SlotsStay
    BY <1>3, <2>1 DEF FillSlot, Moves, SlotsStay, IInv, TypeOK, Slots
  <2>3. PhaseOf(w)' = PhaseOf(w) /\ AnswerOf(w)' = AnswerOf(w)
    BY <1>3 DEF FillSlot, IInv, TypeOK
  <2> QED
    BY <2>2, <2>3, StepUnseen
<1>4. ASSUME ReadBack(w) PROVE UNCHANGED L!vars
  <2>1. Moves(w) /\ SlotsStay
    BY <1>4 DEF ReadBack, Answer, Moves, SlotsStay, IInv, TypeOK
  <2>2. PhaseOf(w)' = PhaseOf(w) /\ AnswerOf(w)' = AnswerOf(w)
    BY <1>4 DEF ReadBack, Answer, IInv, TypeOK
  <2> QED
    BY <2>1, <2>2, StepUnseen
<1> QED
  BY <1>1, <1>2, <1>3, <1>4 DEF Between

\* What the ledger has of the account a call names.
LEMMA LedgerHas ==
  ASSUME IInv, NEW r \in Requests PROVE L!Has(r.id) <=> Matches(r.id) # {}
<1>1. r.id \in Ids
  BY DEF Requests
<1> QED
  BY <1>1, BalanceHas DEF L!Has, Bal, IInv

\* The steps at which a call fails.
Failing(w) == BadArgs(w) \/ FindRefuses(w) \/ TableFull(w) \/ Refuse(w)

\* A call that fails is refused by the ledger, with the same code.
LEMMA FailingRefused ==
  ASSUME IInv, IInv', NEW w \in Workers, Failing(w) PROVE L!Perform(w)
<1> DEFINE r == req[w]
<1>1. Moves(w) /\ SlotsStay /\ PhaseOf(w) = "called" /\ PhaseOf(w)' = "done"
  BY DEF Failing, BadArgs, FindRefuses, TableFull, Refuse, Code, Goto, Moves, SlotsStay,
    table, IInv, TypeOK, PhaseOf
<1>2. r \in Requests
  BY DEF Failing, BadArgs, FindRefuses, TableFull, Refuse, Goto, IInv, RequestInv
<1>3. L!Fails(r) /\ AnswerOf(w)' = L!Bare(L!Failure(r))
  <2>1. CASE BadArgs(w)
    <3>1. Rejected(r) /\ AnswerOf(w)' = Bare(BadArgument)
      BY <2>1 DEF BadArgs, Code, Goto, AnswerOf, IInv, TypeOK
    <3> QED
      BY <3>1, SameInterface DEF L!Fails, L!Failure
  <2>2. CASE FindRefuses(w)
    <3>1. ~Rejected(r) /\ AnswerOf(w)' = Bare(IF r.op = "create" THEN Exists ELSE NotFound)
      BY <2>2 DEF FindRefuses, Code, Goto, AnswerOf, IInv, TypeOK, RequestInv
    <3>2. r.op = "create" <=> L!Has(r.id)
      BY <2>2, <1>2, LedgerHas DEF FindRefuses
    <3> QED
      BY <3>1, <3>2, SameInterface DEF L!Fails, L!Failure
  <2>3. CASE TableFull(w)
    <3>1. /\ ~Rejected(r) /\ r.op = "create" /\ account_count >= MaxAccounts
          /\ AnswerOf(w)' = Bare(Full)
      BY <2>3 DEF TableFull, Code, Goto, AnswerOf, IInv, TypeOK, RequestInv
    <3>2. ~L!Has(r.id)
      BY <2>3, <1>2, LedgerHas DEF TableFull
    <3> QED
      BY <3>1, <3>2, SameInterface DEF L!Fails, L!Failure
  <2>4. CASE Refuse(w)
    <3>1. /\ ~Rejected(r) /\ r.op = "withdraw" /\ AnswerOf(w)' = Bare(Insufficient)
          /\ Lt(Balance(w), r.amount)
      BY <2>4 DEF Refuse, Code, Goto, AnswerOf, IInv, TypeOK, RequestInv
    <3>2. acc[w] \in 1..account_count /\ accounts[acc[w]].id = r.id
      BY <2>4 DEF Refuse, Goto, IInv, PointerInv, AccSetAt, AccHeldAt
    <3>3. Matches(r.id) # {} /\ Bal[r.id] = Balance(w)
      BY <3>2, <1>2, BalanceFound DEF BalancesFound, IInv, Bal, Balance, Requests
    <3>4. L!Has(r.id)
      BY <3>3, <1>2, LedgerHas
    <3> QED
      BY <3>1, <3>3, <3>4, SameInterface DEF L!Fails, L!Failure
  <2> QED
    BY <2>1, <2>2, <2>3, <2>4 DEF Failing
<1>4. /\ L!Effect(w, L!Bare(L!Failure(r))) /\ Bal' = Bal /\ account_count' = account_count
      /\ alive[w] /\ Phase[w] = "called"
  BY <1>1, <1>3, StepEffect
<1> QED
  BY <1>3, <1>4 DEF L!Perform, L!Refusal

\* The store of w computes what the ledger computes of the balance it shows.
LEMMA StoreSeen ==
  ASSUME IInv, IInv', NEW w \in Workers, Store(w)
  PROVE  /\ Bal' = [Bal EXCEPT ![req[w].id] =
               IF req[w].op = "deposit" THEN L!Add(@, req[w].amount) ELSE L!Sub(@, req[w].amount)]
         /\ Phase' = [Phase EXCEPT ![w] = "done"]
         /\ Ans' = [Ans EXCEPT ![w] = [code |-> OK, out |-> Bal'[req[w].id]]]
<1> DEFINE i == req[w].id
           t == acc[w]
<1>1. /\ pc[w] = "store" /\ pc' = [pc EXCEPT ![w] = "read_back"]
      /\ t \in 1..account_count /\ account_count' = account_count
      /\ t \in Slots /\ i \in Ids /\ req' = req /\ acc' = acc /\ ret' = ret
      /\ acc_lock[t] = w
  <2>1. /\ pc[w] = "store" /\ pc' = [pc EXCEPT ![w] = "read_back"]
        /\ account_count' = account_count /\ req' = req /\ acc' = acc /\ ret' = ret
    BY DEF Store, Goto, frame
  <2>2. t \in 1..account_count /\ acc_lock[t] = w /\ req[w] \in Requests
    BY <2>1 DEF IInv, LockInv, PointerInv, RequestInv, AccSetAt, AccHeldAt
  <2>3. t \in Slots
    BY <2>2 DEF IInv, TypeOK, Slots
  <2>4. i \in Ids
    BY <2>2 DEF Requests
  <2> QED
    BY <2>1, <2>2, <2>3, <2>4
<1>2. /\ accounts[t].id = i /\ accounts'[t].id = i
      /\ accounts'[t].active = accounts[t].active
      /\ accounts'[t].balance = Result(w)
      /\ \A s \in Slots \ {t} : accounts'[s] = accounts[s]
  BY <1>1 DEF Store, IInv, TypeOK, PointerInv, AccSetAt, AccHeldAt
<1>3. reg[w] = accounts[t].balance
  BY <1>1 DEF IInv, LoadInv, NoLostUpdate, Balance
<1>4. BalancesFound /\ BalancesFound'
  BY BalanceFound, PTL DEF IInv
<1>5. Matches(i) = {t} /\ BalanceOf(i) = reg[w] /\ BalanceOf(i)' = Result(w)
  BY <1>1, <1>2, <1>3, <1>4 DEF BalancesFound
<1>6. ASSUME NEW j \in Ids \ {i} PROVE BalanceOf(j)' = BalanceOf(j)
  <2>1. Matches(j)' = Matches(j) /\ t \notin Matches(j)
    <3>1. \A s \in 1..account_count : s \in Slots
      BY DEF IInv, TypeOK, Slots
    <3>2. j # i
      OBVIOUS
    <3> DEFINE has(s) == accounts[s].active /\ accounts[s].id = j
    <3>3. ~has(t) /\ ~has(t)'
      BY <1>1, <1>2, <3>2
    <3>4. \A s \in 1..account_count : has(s)' <=> has(s)
      BY <1>2, <3>1, <3>3
    <3> QED
      BY <1>1, <3>3, <3>4 DEF Matches
  <2>2. CASE Matches(j) = {}
    <3>1. BalanceOf(j) = NoAccount
      BY <2>2, BalanceMissing
    <3>2. BalanceOf(j)' = NoAccount
      BY <2>1, <2>2 DEF BalanceOf
    <3> QED
      BY <3>1, <3>2
  <2>3. ASSUME NEW s \in Matches(j) PROVE BalanceOf(j)' = BalanceOf(j)
    <3>1. /\ s \in 1..account_count /\ s \in Slots /\ s # t
          /\ accounts[s].id = j
      BY <2>1, <2>3 DEF Matches, IInv, TypeOK, Slots
    <3>2. accounts'[s] = accounts[s]
      BY <3>1, <1>2
    <3> QED
      BY <3>1, <3>2, <1>1, <1>4 DEF BalancesFound
  <2> QED
    BY <2>2, <2>3
<1>7. Bal' = [Bal EXCEPT ![i] = IF req[w].op = "deposit" THEN L!Add(@, req[w].amount)
                                                       ELSE L!Sub(@, req[w].amount)]
  BY <1>1, <1>5, <1>6, SameInterface DEF Bal, Result
<1>8. \A v \in Workers \ {w} : PhaseOf(v)' = PhaseOf(v) /\ AnswerOf(v)' = AnswerOf(v)
  <2>1. SUFFICES ASSUME NEW v \in Workers \ {w}
                 PROVE  PhaseOf(v)' = PhaseOf(v) /\ AnswerOf(v)' = AnswerOf(v)
    OBVIOUS
  <2>2. pc'[v] = pc[v]
    BY <1>1 DEF IInv, TypeOK
  <2>3. pc[v] = "read_back" => acc[v] \in Slots \ {t}
    <3>1. SUFFICES ASSUME pc[v] = "read_back" PROVE acc[v] \in Slots \ {t}
      OBVIOUS
    <3>2. acc_lock[acc[v]] = v /\ acc[v] \in 1..account_count
      BY <3>1 DEF IInv, LockInv, PointerInv, AccSetAt, AccHeldAt
    <3>3. acc[v] \in Slots
      BY <3>2 DEF IInv, TypeOK, Slots
    <3> QED
      BY <3>2, <3>3, <1>1
  <2> QED
    BY <2>2, <2>3, <1>1, <1>2 DEF PhaseOf, AnswerOf, Balance
<1>9. PhaseOf(w)' = "done" /\ AnswerOf(w)' = [code |-> OK, out |-> Result(w)]
  BY <1>1, <1>2 DEF PhaseOf, AnswerOf, Balance, IInv, TypeOK
<1>10. Phase' = [Phase EXCEPT ![w] = "done"]
  BY <1>8, <1>9 DEF Phase
<1>11. Bal'[i] = Result(w)
  BY <1>1, <1>5 DEF Bal
<1>12. Ans' = [Ans EXCEPT ![w] = [code |-> OK, out |-> Bal'[i]]]
  BY <1>8, <1>9, <1>11 DEF Ans
<1> QED
  BY <1>7, <1>10, <1>12

\* The store is the ledger's movement of money.
LEMMA StoreMoves ==
  ASSUME IInv, IInv', NEW w \in Workers, Store(w) PROVE L!Perform(w)
<1> DEFINE r == req[w]
<1>1. /\ alive[w] /\ pc[w] = "store" /\ ~Rejected(r) /\ r \in Requests
      /\ r.op \in {"deposit", "withdraw"}
      /\ acc[w] \in 1..account_count /\ accounts[acc[w]].id = r.id
  BY DEF Store, Goto, IInv, RequestInv, PointerInv, AccSetAt, AccHeldAt, Requests
<1>2. Matches(r.id) # {} /\ Bal[r.id] = Balance(w)
  BY <1>1, BalanceFound DEF BalancesFound, IInv, Bal, Balance, Requests
<1>3. L!Has(r.id)
  BY <1>1, <1>2, LedgerHas
<1>4. r.op = "withdraw" => ~Lt(Bal[r.id], r.amount)
  BY <1>1, <1>2 DEF IInv, LoadInv
<1>5. ~L!Fails(r)
  BY <1>1, <1>3, <1>4, SameInterface DEF L!Fails
<1>6. /\ Phase[w] = "called" /\ UNCHANGED <<req, alive, account_count>>
  BY <1>1 DEF Phase, PhaseOf, Store, Goto, frame
<1>7. L!Effect(w, [code |-> L!OK, out |-> Bal'[r.id]])
  BY <1>6, StoreSeen, SameInterface DEF L!Effect
<1> QED
  BY <1>1, <1>5, <1>6, <1>7, StoreSeen DEF L!Perform, L!Movement

\* The load of a query is the ledger's inquiry.
LEMMA QueryInquires ==
  ASSUME IInv, IInv', NEW w \in Workers, Query(w) PROVE L!Perform(w)
<1> DEFINE r == req[w]
<1>1. /\ alive[w] /\ pc[w] = "load" /\ pc' = [pc EXCEPT ![w] = "unlock_acc"]
      /\ r.op = "balance" /\ ~Rejected(r) /\ r \in Requests
      /\ acc[w] \in 1..account_count /\ accounts[acc[w]].id = r.id
  BY DEF Query, Answer, Goto, IInv, RequestInv, PointerInv, AccSetAt, AccHeldAt
<1>2. Moves(w) /\ SlotsStay /\ PhaseOf(w) = "called" /\ PhaseOf(w)' = "done"
  BY <1>1 DEF Query, Answer, Goto, Moves, SlotsStay, table, IInv, TypeOK, PhaseOf
<1>3. r.id \in Ids
  BY <1>1 DEF Requests
<1>4. Matches(r.id) # {} /\ Bal[r.id] = Balance(w)
  BY <1>1, <1>3, BalanceFound DEF BalancesFound, IInv, Bal, Balance
<1>5. AnswerOf(w)' = [code |-> L!OK, out |-> Bal[r.id]]
  BY <1>1, <1>4, SameInterface DEF Query, Answer, AnswerOf, IInv, TypeOK
<1>6. L!Has(r.id)
  BY <1>1, <1>4, LedgerHas
<1>7. ~L!Fails(r)
  BY <1>1, <1>6, SameInterface DEF L!Fails
<1>8. /\ L!Effect(w, [code |-> L!OK, out |-> Bal[r.id]])
      /\ Bal' = Bal /\ account_count' = account_count
      /\ alive[w] /\ Phase[w] = "called"
  BY <1>2, <1>5, StepEffect
<1> QED
  BY <1>1, <1>7, <1>8 DEF L!Perform, L!Inquiry

\* The step that publishes a slot shows the ledger a new account.
LEMMA PublishSeen ==
  ASSUME IInv, IInv', NEW w \in Workers, Publish(w)
  PROVE  /\ Bal' = [Bal EXCEPT ![req[w].id] = req[w].amount]
         /\ Matches(req[w].id) = {}
<1> DEFINE i == req[w].id
           t == account_count + 1
<1>1. /\ pc[w] = "publish" /\ account_count' = t /\ accounts' = accounts /\ req' = req
      /\ acc[w] = t /\ account_count < MaxAccounts /\ account_count \in Nat
      /\ accounts[t] = [id |-> i, balance |-> req[w].amount, active |-> TRUE]
      /\ \A s \in 1..account_count : accounts[s].id # i
  BY DEF Publish, Goto, frame, IInv, TypeOK, PointerInv
<1>2. Matches(i) = {}
  BY <1>1 DEF Matches
<1>3. i \in Ids
  <2>1. req[w] \in Requests
    BY <1>1 DEF IInv, RequestInv
  <2> QED
    BY <2>1 DEF Requests
<1>4. BalancesFound /\ BalancesFound'
  BY BalanceFound, PTL DEF IInv
<1>5. BalanceOf(i)' = req[w].amount
  <2>1. t \in 1..account_count'
    BY <1>1
  <2>2. accounts'[t].id = i /\ accounts'[t].balance = req[w].amount
    BY <1>1
  <2>3. BalanceOf(i)' = accounts'[t].balance
    BY <2>1, <2>2, <1>1, <1>4 DEF BalancesFound
  <2> QED
    BY <2>2, <2>3
<1>6. ASSUME NEW j \in Ids \ {i} PROVE BalanceOf(j)' = BalanceOf(j)
  <2>1. Matches(j)' = Matches(j)
    BY <1>1, <1>6 DEF Matches
  <2> QED
    BY <1>1, <2>1 DEF BalanceOf, FoundAt
<1>7. Bal' = [Bal EXCEPT ![i] = req[w].amount]
  BY <1>1, <1>3, <1>5, <1>6 DEF Bal
<1> QED
  BY <1>2, <1>7

\* The step that publishes a slot is the ledger's opening of an account.
LEMMA PublishOpens ==
  ASSUME IInv, IInv', RetInv, NEW w \in Workers, Publish(w) PROVE L!Perform(w)
<1> DEFINE r == req[w]
<1>1. /\ alive[w] /\ pc[w] = "publish" /\ pc' = [pc EXCEPT ![w] = "leave_db"]
      /\ r \in Requests /\ r.op = "create" /\ ~Rejected(r)
      /\ account_count < MaxAccounts /\ account_count \in Nat
      /\ account_count' = account_count + 1 /\ accounts' = accounts
      /\ req' = req /\ ret' = ret /\ acc' = acc /\ alive' = alive
  BY DEF Publish, Goto, frame, IInv, TypeOK, RequestInv, PointerInv
<1>2. ~L!Has(r.id)
  BY <1>1, PublishSeen, LedgerHas
<1>3. ~L!Fails(r)
  BY <1>1, <1>2, SameInterface DEF L!Fails
<1>4. Phase[w] = "called" /\ Phase' = [Phase EXCEPT ![w] = "done"]
  BY <1>1 DEF Phase, PhaseOf, IInv, TypeOK
<1>5. Ans' = [Ans EXCEPT ![w] = L!Bare(L!OK)]
  <2>1. ret[w] = Bare(OK)
    BY <1>1 DEF RetInv
  <2> QED
    BY <1>1, <2>1, SameInterface DEF Ans, AnswerOf, Balance, IInv, TypeOK
<1>6. L!Effect(w, L!Bare(L!OK))
  BY <1>1, <1>4, <1>5 DEF L!Effect
<1> QED
  BY <1>1, <1>3, <1>4, <1>6, PublishSeen DEF L!Perform, L!Opening
-----------------------------------------------------------------------------
\* A call starts in the ledger when it does in the code.
LEMMA CallStarts ==
  ASSUME IInv, IInv', RetInv, NEW w \in Workers, NEW r \in Requests, Call(w, r)
  PROVE  L!Start(w, r)
<1>1. /\ alive[w] /\ pc[w] = "idle" /\ pc' = [pc EXCEPT ![w] = "args"]
      /\ req' = [req EXCEPT ![w] = r] /\ alive' = alive
      /\ accounts' = accounts /\ account_count' = account_count
      /\ ret' = ret /\ acc' = acc
  BY DEF Call, table
<1>2. Phase[w] = "idle" /\ Phase' = [Phase EXCEPT ![w] = "called"]
  BY <1>1 DEF Phase, PhaseOf, IInv, TypeOK
<1>3. Bal' = Bal
  BY <1>1 DEF Bal, BalanceOf, Matches, FoundAt
<1>4. Ans' = Ans
  BY <1>1 DEF Ans, AnswerOf, Balance, IInv, TypeOK
<1> QED
  BY <1>1, <1>2, <1>3, <1>4 DEF L!Start

\* The return of the call is the end of it in the ledger.
LEMMA ReturnFinishes ==
  ASSUME IInv, IInv', NEW w \in Workers, Return(w) PROVE L!Finish(w)
<1>1. /\ alive[w] /\ pc[w] = "return" /\ pc' = [pc EXCEPT ![w] = "idle"]
      /\ req' = [req EXCEPT ![w] = NoRequest] /\ alive' = alive
      /\ accounts' = accounts /\ account_count' = account_count
      /\ ret' = [ret EXCEPT ![w] = Bare(OK)]
      /\ \A v \in Workers \ {w} : acc'[v] = acc[v]
  BY DEF Return, Goto, table, IInv, TypeOK
<1>2. Phase[w] = "done" /\ Phase' = [Phase EXCEPT ![w] = "idle"]
  BY <1>1 DEF Phase, PhaseOf, IInv, TypeOK
<1>3. Bal' = Bal
  BY <1>1 DEF Bal, BalanceOf, Matches, FoundAt
<1>4. Ans' = [Ans EXCEPT ![w] = Bare(OK)]
  BY <1>1 DEF Ans, AnswerOf, Balance, IInv, TypeOK
<1> QED
  BY <1>1, <1>2, <1>3, <1>4, SameInterface DEF L!Finish

\* A worker that is killed is killed in the ledger too.
LEMMA DieKills ==
  ASSUME NEW w \in Workers, Die(w) PROVE L!Kill(w)
BY DEF Die, L!Kill, table, frame, Bal, BalanceOf, Matches, FoundAt, Phase, PhaseOf,
  Ans, AnswerOf, Balance

\* A step that changes nothing of the code changes nothing of the ledger.
LEMMA Stutters == UNCHANGED vars => UNCHANGED L!vars
BY DEF vars, L!vars, Bal, BalanceOf, Matches, FoundAt, Phase, PhaseOf, Ans, AnswerOf, Balance

\* The empty table is the empty ledger.
LEMMA StartsEmpty == Init => L!Init
<1> SUFFICES ASSUME Init PROVE L!Init
  OBVIOUS
<1>1. \A i : Matches(i) = {}
  BY DEF Init, Matches
<1>2. Bal = [i \in Ids |-> NoAccount]
  BY <1>1 DEF Bal, BalanceOf
<1>3. Phase = [w \in Workers |-> "idle"] /\ Ans = [w \in Workers |-> Bare(OK)]
  BY DEF Init, Phase, PhaseOf, Ans, AnswerOf
<1> QED
  BY <1>2, <1>3, SameInterface DEF Init, L!Init

\* Every step of the code is a step of the ledger, or one it does not see.
LEMMA StepImplements ==
  ASSUME IInv, IInv', RetInv, [Next]_vars PROVE [L!Next]_L!vars
<1>1. ASSUME NEW w \in Workers, NEW r \in Requests, Call(w, r) PROVE L!Next
  BY <1>1, CallStarts, SameInterface DEF L!Next
<1>2. ASSUME NEW w \in Workers, Die(w) \/ Return(w) PROVE L!Next
  BY <1>2, DieKills, ReturnFinishes DEF L!Next
<1>3. ASSUME NEW w \in Workers, Failing(w) \/ Publish(w) \/ Store(w) \/ Query(w)
      PROVE  L!Next
  BY <1>3, FailingRefused, PublishOpens, StoreMoves, QueryInquires DEF L!Next
<1>4. ASSUME NEW w \in Workers, Between(w) PROVE UNCHANGED L!vars
  BY <1>4, BetweenUnseen
<1>5. CASE UNCHANGED vars
  BY <1>5, Stutters
<1> QED
  BY <1>1, <1>2, <1>3, <1>4, <1>5 DEF Next, Step, Failing, Between

\* The database keeps the promise of Ledger.tla: the calls of account.c, whose
\* steps interleave under two kinds of mutexes, have the outcome of calls made
\* one after the other, whichever workers are killed and wherever.
THEOREM DatabaseKeepsPromise == Spec => LedgerSpec
<1>1. IInv /\ IInv' /\ RetInv /\ [Next]_vars => [L!Next]_L!vars
  BY StepImplements
<1>2. IInv /\ RetInv /\ [Next]_vars => RetInv'
  BY StepRetInv
<1> QED
  BY <1>1, <1>2, StartsEmpty, InitRetInv, InvariantHolds, PTL DEF Spec, LedgerSpec, L!Spec
=============================================================================

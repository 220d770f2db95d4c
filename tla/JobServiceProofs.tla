-------------------------- MODULE JobServiceProofs --------------------------
(***************************************************************************)
(* Proofs about JobService for any set of jobs, any assignment of keys and *)
(* any number of slots: the inductive invariant IInv, and from it that     *)
(* jobs of one instance run serially, that no more than MaxConcurrent      *)
(* bodies run, and that the reference counts of the key locks are exact.   *)
(* Then about the rows of the job list: what a final status says is true   *)
(* and final, and JobService implements JobPromise when no write fails.    *)
(***************************************************************************)
EXTENDS JobService, FiniteSetTheorems, TLAPS

USE KeysAssumption, NoLockAssumption, MaxConcurrentAssumption, BoundsAssumption

-----------------------------------------------------------------------------
(* Type correctness *)

\* A save either writes a status or uses up one of the allowed failures.
LEMMA SaveRowType ==
  ASSUME TypeOK, NEW j \in Jobs, NEW status \in Statuses, SaveRow(j, status)
  PROVE  row' \in [Jobs -> Statuses] /\ faults' \in 0..MaxFaults
BY DEF TypeOK, SaveRow, SaveLost

\* The counts that a decrement relies on: a goroutine with a reference is one
\* of the users that refs counts, one in a slot is one that sem counts.
LEMMA Counts ==
  ASSUME IInv, NEW j \in Jobs
  PROVE  /\ lockOf[j] # NoLock => lockOf[j] \in Jobs /\ refs[lockOf[j]] >= 1
         /\ pc[j] \in InSlot => sem >= 1
<1>1. ASSUME lockOf[j] # NoLock
      PROVE  lockOf[j] \in Jobs /\ refs[lockOf[j]] >= 1
  BY <1>1 DEF IInv, TypeOK, LockInv, PlaceInv
<1>2. ASSUME pc[j] \in InSlot
      PROVE  sem >= 1
  <2>1. IsFiniteSet(SlotHolders) /\ Cardinality(SlotHolders) \in Nat
    BY JobsFinite, FS_Subset, FS_CardinalityType DEF SlotHolders
  <2>2. SlotHolders # {}
    BY <1>2 DEF SlotHolders
  <2>3. Cardinality(SlotHolders) # 0
    BY <2>1, <2>2, FS_EmptySet
  <2> QED BY <2>1, <2>3 DEF IInv, SlotInv
<1> QED BY <1>1, <1>2

\* DropRef keeps the types when the count is positive.
LEMMA DropRefType ==
  ASSUME IInv, NEW j \in Jobs, lockOf[j] # NoLock, DropRef(j)
  PROVE  /\ keyLocks' \in [Keys -> Jobs \cup {NoLock}]
         /\ lockOf' \in [Jobs -> Jobs \cup {NoLock}]
         /\ refs' \in [Jobs -> Nat]
<1> DEFINE l == lockOf[j]
<1>1. l \in Jobs /\ refs[l] \in Nat /\ refs[l] >= 1
  BY Counts DEF IInv, TypeOK
<1>2. refs' = [refs EXCEPT ![l] = @ - 1] /\ refs[l] - 1 \in Nat
  BY <1>1 DEF DropRef
<1>3. refs' \in [Jobs -> Nat]
  BY <1>1, <1>2 DEF IInv, TypeOK
<1>4. keyLocks' \in [Keys -> Jobs \cup {NoLock}]
  BY DEF DropRef, IInv, TypeOK
<1>5. lockOf' \in [Jobs -> Jobs \cup {NoLock}]
  BY DEF DropRef, IInv, TypeOK
<1> QED BY <1>3, <1>4, <1>5

\* Every action preserves the types.
LEMMA TypeStep == IInv /\ [Next]_vars => TypeOK'
<1> SUFFICES ASSUME IInv, [Next]_vars PROVE TypeOK'
  OBVIOUS
<1>0. TypeOK
  BY DEF IInv
<1> USE <1>0 DEF TypeOK, Goto, Places, Owning, Asleep, Over
<1>1. ASSUME NEW j \in Jobs, Register(j) PROVE TypeOK'
  BY <1>1 DEF Register
<1>2. ASSUME NEW j \in Jobs, EnterQueue(j) PROVE TypeOK'
  BY <1>2 DEF EnterQueue, TakeRef
<1>3. ASSUME NEW j \in Jobs, AcquireKey(j) PROVE TypeOK'
  BY <1>3 DEF AcquireKey
<1>4. ASSUME NEW j \in Jobs, AbandonKey(j) PROVE TypeOK'
  <2>1. lockOf[j] # NoLock
    BY <1>4 DEF IInv, PlaceInv, AbandonKey
  <2>2. /\ keyLocks' \in [Keys -> Jobs \cup {NoLock}]
        /\ lockOf' \in [Jobs -> Jobs \cup {NoLock}]
        /\ refs' \in [Jobs -> Nat]
    BY <1>4, <2>1, DropRefType DEF AbandonKey
  <2> QED BY <1>4, <2>2 DEF AbandonKey
<1>5. ASSUME NEW j \in Jobs, AcquireSlot(j) PROVE TypeOK'
  BY <1>5 DEF AcquireSlot
<1>6. ASSUME NEW j \in Jobs, AbandonSlot(j) PROVE TypeOK'
  BY <1>6 DEF AbandonSlot, memory
<1>7. ASSUME NEW j \in Jobs, Dequeue(j) PROVE TypeOK'
  BY <1>7 DEF Dequeue
<1>8. ASSUME NEW j \in Jobs, Start(j) PROVE TypeOK'
  <2>1. row' \in [Jobs -> Statuses] /\ faults' \in 0..MaxFaults
    BY <1>8, SaveRowType DEF Start, Statuses, Unfinished
  <2> QED BY <1>8, <2>1 DEF Start, memory
<1>9. ASSUME NEW j \in Jobs, Return(j) PROVE TypeOK'
  <2>1. PICK status \in {"succeeded", "failed"} : Finish(j, status)
    BY <1>9 DEF Return
  <2>2. row' \in [Jobs -> Statuses] /\ faults' \in 0..MaxFaults
    BY <2>1, SaveRowType DEF Finish, Statuses, JobFinished
  <2> QED BY <2>1, <2>2 DEF Finish, memory
<1>10. ASSUME NEW j \in Jobs, FinishCanceled(j) PROVE TypeOK'
  <2>1. row' \in [Jobs -> Statuses] /\ faults' \in 0..MaxFaults
    BY <1>10, SaveRowType DEF FinishCanceled, Statuses, JobFinished
  <2> QED BY <1>10, <2>1 DEF FinishCanceled, memory, Exit
<1>11. ASSUME NEW j \in Jobs, ReleaseSlot(j) PROVE TypeOK'
  <2>1. sem >= 1
    BY <1>11, Counts DEF ReleaseSlot, InSlot
  <2> QED BY <1>11, <2>1 DEF ReleaseSlot, Exit
<1>12. ASSUME NEW j \in Jobs, ReleaseKey(j) PROVE TypeOK'
  BY <1>12 DEF ReleaseKey
<1>13. ASSUME NEW j \in Jobs, Unref(j) PROVE TypeOK'
  <2>1. lockOf[j] # NoLock
    BY <1>13 DEF IInv, PlaceInv, Unref
  <2>2. /\ keyLocks' \in [Keys -> Jobs \cup {NoLock}]
        /\ lockOf' \in [Jobs -> Jobs \cup {NoLock}]
        /\ refs' \in [Jobs -> Nat]
    BY <1>13, <2>1, DropRefType DEF Unref
  <2> QED BY <1>13, <2>2 DEF Unref
<1>14. ASSUME NEW j \in Jobs, Submit(j) PROVE TypeOK'
  BY <1>14 DEF Submit, memory, Statuses, Unfinished
<1>15. ASSUME NEW j \in Jobs, CancelLookup(j) PROVE TypeOK'
  BY <1>15 DEF CancelLookup, Answer, CancelUnchanged, CallerStates
<1>16. ASSUME NEW j \in Jobs, CancelFire(j) PROVE TypeOK'
  BY <1>16 DEF CancelFire, Answer, CancelUnchanged, CallerStates
<1>17. ASSUME NEW j \in Jobs, CancelReadRow(j) PROVE TypeOK'
  BY <1>17 DEF CancelReadRow, Answer, CancelUnchanged, CallerStates
<1>18. ASSUME NEW j \in Jobs, DeleteJob(j) PROVE TypeOK'
  BY <1>18 DEF DeleteJob, memory, Statuses
<1>19. ASSUME DeleteFinishedJobs PROVE TypeOK'
  BY <1>19 DEF DeleteFinishedJobs, memory, Statuses
<1>20. ASSUME Crash PROVE TypeOK'
  <2>1. pc' \in [Jobs -> Places] /\ caller' \in [Jobs -> CallerStates] /\ crashes' \in 0..MaxCrashes
    BY <1>20 DEF Crash, CallerStates
  <2>2. /\ keyLocks' \in [Keys -> Jobs \cup {NoLock}] /\ lockOf' \in [Jobs -> Jobs \cup {NoLock}]
        /\ refs' \in [Jobs -> Nat] /\ full' \in [Jobs -> BOOLEAN]
    BY <1>20 DEF Crash
  <2>3. up' \in BOOLEAN /\ sem' \in Nat /\ pending' \subseteq Jobs /\ canceled' \subseteq Jobs
    BY <1>20 DEF Crash
  <2> QED BY <1>20, <2>1, <2>2, <2>3 DEF Crash
<1>21. ASSUME Recover PROVE TypeOK'
  <2>1. \A rows \in [Jobs -> Statuses] : Pruned(rows, row') => row' \in [Jobs -> Statuses]
    BY DEF Pruned, Statuses
  <2>2. Interrupted \in [Jobs -> Statuses]
    BY DEF Interrupted, Statuses, JobFinished
  <2> QED BY <1>21, <2>1, <2>2 DEF Recover, memory
<1>22. ASSUME UNCHANGED vars PROVE TypeOK'
  BY <1>22 DEF vars, memory
<1> QED
  BY <1>1, <1>2, <1>3, <1>4, <1>5, <1>6, <1>7, <1>8, <1>9, <1>10, <1>11, <1>12, <1>13, <1>14, <1>15, <1>16, <1>17, <1>18, <1>19, <1>20, <1>21, <1>22
  DEF Next, Step, Request

-----------------------------------------------------------------------------
(* Places *)

\* A lock object in use was made by a goroutine that is past its start.
LEMMA LockAwake ==
  ASSUME IInv, NEW l \in Jobs, refs[l] > 0
  PROVE  pc[l] \notin Asleep
BY DEF IInv, PlaceInv, TypeOK

LEMMA KeyOfKey == ASSUME NEW j \in Jobs, KeyOf[j] # NoKey PROVE KeyOf[j] \in Keys
OBVIOUS

\* Every action preserves what a place says about the reference to a lock.
LEMMA PlaceStep == IInv /\ [Next]_vars => PlaceInv'
<1> SUFFICES ASSUME IInv, [Next]_vars PROVE PlaceInv'
  OBVIOUS
<1>0. TypeOK /\ PlaceInv
  BY DEF IInv
<1> USE <1>0 DEF TypeOK, PlaceInv, Goto, Owning, Asleep, Over, InSlot
<1>1. ASSUME NEW j \in Jobs, Register(j) PROVE PlaceInv'
  BY <1>1 DEF Register
<1>2. ASSUME NEW j \in Jobs, EnterQueue(j) PROVE PlaceInv'
  <2>1. CASE KeyOf[j] = NoKey
    BY <1>2, <2>1 DEF EnterQueue
  <2>2. CASE KeyOf[j] # NoKey
    <3>1. TakeRef(j) /\ pc' = [pc EXCEPT ![j] = "waitKey"] /\ full' = full
      BY <1>2, <2>2 DEF EnterQueue
    <3> DEFINE l == IF keyLocks[KeyOf[j]] = NoLock THEN j ELSE keyLocks[KeyOf[j]]
    <3>2. KeyOf[j] \in Keys /\ l \in Jobs
      BY <2>2, KeyOfKey
    <3>3. l # j => pc[l] \notin Asleep
      BY <3>2, LockAwake DEF IInv, LockInv
    <3>4. lockOf' = [lockOf EXCEPT ![j] = l] /\ refs' = [refs EXCEPT ![l] = @ + 1]
      BY <3>1 DEF TakeRef
    <3> QED BY <2>2, <3>1, <3>2, <3>3, <3>4
  <2> QED BY <2>1, <2>2
<1>3. ASSUME NEW j \in Jobs, AcquireKey(j) PROVE PlaceInv'
  <2>1. lockOf[j] \in Jobs /\ pc[lockOf[j]] \notin Asleep
    BY <1>3, Counts, LockAwake DEF AcquireKey
  <2> QED BY <1>3, <2>1 DEF AcquireKey
<1>4. ASSUME NEW j \in Jobs, AbandonKey(j) PROVE PlaceInv'
  <2>1. lockOf[j] \in Jobs /\ pc[lockOf[j]] \notin Asleep
    BY <1>4, Counts, LockAwake DEF AbandonKey
  <2> QED BY <1>4, <2>1 DEF AbandonKey, DropRef
<1>5. ASSUME NEW j \in Jobs, AcquireSlot(j) PROVE PlaceInv'
  BY <1>5 DEF AcquireSlot
<1>6. ASSUME NEW j \in Jobs, AbandonSlot(j) PROVE PlaceInv'
  BY <1>6 DEF AbandonSlot, memory
<1>7. ASSUME NEW j \in Jobs, Dequeue(j) PROVE PlaceInv'
  BY <1>7 DEF Dequeue
<1>8. ASSUME NEW j \in Jobs, Start(j) PROVE PlaceInv'
  BY <1>8 DEF Start, memory
<1>9. ASSUME NEW j \in Jobs, Return(j) PROVE PlaceInv'
  BY <1>9 DEF Return, Finish, memory
<1>10. ASSUME NEW j \in Jobs, FinishCanceled(j) PROVE PlaceInv'
  BY <1>10 DEF FinishCanceled, memory, Exit
<1>11. ASSUME NEW j \in Jobs, ReleaseSlot(j) PROVE PlaceInv'
  BY <1>11 DEF ReleaseSlot, Exit
<1>12. ASSUME NEW j \in Jobs, ReleaseKey(j) PROVE PlaceInv'
  BY <1>12 DEF ReleaseKey
<1>13. ASSUME NEW j \in Jobs, Unref(j) PROVE PlaceInv'
  <2>1. lockOf[j] \in Jobs /\ pc[lockOf[j]] \notin Asleep
    BY <1>13, Counts, LockAwake DEF Unref
  <2> QED BY <1>13, <2>1 DEF Unref, DropRef
<1>14. ASSUME NEW j \in Jobs, Submit(j) PROVE PlaceInv'
  BY <1>14 DEF Submit, memory
<1>15. ASSUME NEW j \in Jobs, CancelLookup(j) PROVE PlaceInv'
  BY <1>15 DEF CancelLookup, CancelUnchanged
<1>16. ASSUME NEW j \in Jobs, CancelFire(j) PROVE PlaceInv'
  BY <1>16 DEF CancelFire, CancelUnchanged
<1>17. ASSUME NEW j \in Jobs, CancelReadRow(j) PROVE PlaceInv'
  BY <1>17 DEF CancelReadRow, CancelUnchanged
<1>18. ASSUME NEW j \in Jobs, DeleteJob(j) PROVE PlaceInv'
  BY <1>18 DEF DeleteJob, memory
<1>19. ASSUME DeleteFinishedJobs PROVE PlaceInv'
  BY <1>19 DEF DeleteFinishedJobs, memory
<1>20. ASSUME Crash PROVE PlaceInv'
  BY <1>20 DEF Crash
<1>21. ASSUME Recover PROVE PlaceInv'
  BY <1>21 DEF Recover, memory
<1>22. ASSUME UNCHANGED vars PROVE PlaceInv'
  BY <1>22 DEF vars, memory
<1> QED
  BY <1>1, <1>2, <1>3, <1>4, <1>5, <1>6, <1>7, <1>8, <1>9, <1>10, <1>11, <1>12, <1>13, <1>14, <1>15, <1>16, <1>17, <1>18, <1>19, <1>20, <1>21, <1>22
  DEF Next, Step, Request

-----------------------------------------------------------------------------
(* Slots *)

\* The slots stay accounted for when nobody enters or leaves one.
LEMMA SlotFrame ==
  ASSUME SlotInv, sem' = sem,
         \A j \in Jobs : pc'[j] \in InSlot <=> pc[j] \in InSlot
  PROVE  SlotInv'
<1>1. SlotHolders' = SlotHolders
  BY DEF SlotHolders
<1> QED BY <1>1 DEF SlotInv

\* Every action keeps sem equal to the number of goroutines in a slot.
LEMMA SlotStep == IInv /\ [Next]_vars => SlotInv'
<1> SUFFICES ASSUME IInv, [Next]_vars PROVE SlotInv'
  OBVIOUS
<1>0. TypeOK /\ SlotInv /\ pc \in [Jobs -> Places]
  BY DEF IInv, TypeOK
<1>a. IsFiniteSet(SlotHolders) /\ Cardinality(SlotHolders) \in Nat
  BY JobsFinite, FS_Subset, FS_CardinalityType DEF SlotHolders
<1> USE <1>0 DEF Goto, InSlot
<1>1. ASSUME NEW j \in Jobs, Register(j) PROVE SlotInv'
  BY <1>1, SlotFrame DEF Register
<1>2. ASSUME NEW j \in Jobs, EnterQueue(j) PROVE SlotInv'
  BY <1>2, SlotFrame DEF EnterQueue
<1>3. ASSUME NEW j \in Jobs, AcquireKey(j) PROVE SlotInv'
  BY <1>3, SlotFrame DEF AcquireKey
<1>4. ASSUME NEW j \in Jobs, AbandonKey(j) PROVE SlotInv'
  BY <1>4, SlotFrame DEF AbandonKey
<1>5. ASSUME NEW j \in Jobs, AcquireSlot(j) PROVE SlotInv'
  <2>1. j \notin SlotHolders /\ SlotHolders' = SlotHolders \cup {j}
    BY <1>5 DEF AcquireSlot, SlotHolders
  <2>2. Cardinality(SlotHolders') = Cardinality(SlotHolders) + 1
    BY <2>1, <1>a, FS_AddElement
  <2> QED BY <1>5, <2>2, <1>a DEF AcquireSlot, SlotFree, SlotInv
<1>6. ASSUME NEW j \in Jobs, AbandonSlot(j) PROVE SlotInv'
  BY <1>6, SlotFrame DEF AbandonSlot, memory
<1>7. ASSUME NEW j \in Jobs, Dequeue(j) PROVE SlotInv'
  BY <1>7, SlotFrame DEF Dequeue
<1>8. ASSUME NEW j \in Jobs, Start(j) PROVE SlotInv'
  BY <1>8, SlotFrame DEF Start, memory
<1>9. ASSUME NEW j \in Jobs, Return(j) PROVE SlotInv'
  BY <1>9, SlotFrame DEF Return, Finish, memory
<1>10. ASSUME NEW j \in Jobs, FinishCanceled(j) PROVE SlotInv'
  BY <1>10, SlotFrame DEF FinishCanceled, memory, Exit
<1>11. ASSUME NEW j \in Jobs, ReleaseSlot(j) PROVE SlotInv'
  <2>1. j \in SlotHolders /\ SlotHolders' = SlotHolders \ {j}
    BY <1>11 DEF ReleaseSlot, SlotHolders, Exit
  <2>2. Cardinality(SlotHolders') = Cardinality(SlotHolders) - 1
    BY <2>1, <1>a, FS_RemoveElement
  <2>3. sem' = sem - 1
    BY <1>11 DEF ReleaseSlot
  <2> QED BY <2>2, <2>3, <1>a DEF SlotInv
<1>12. ASSUME NEW j \in Jobs, ReleaseKey(j) PROVE SlotInv'
  BY <1>12, SlotFrame DEF ReleaseKey
<1>13. ASSUME NEW j \in Jobs, Unref(j) PROVE SlotInv'
  BY <1>13, SlotFrame DEF Unref
<1>14. ASSUME NEW j \in Jobs, Submit(j) PROVE SlotInv'
  BY <1>14, SlotFrame DEF Submit, memory
<1>15. ASSUME NEW j \in Jobs, CancelLookup(j) PROVE SlotInv'
  BY <1>15, SlotFrame DEF CancelLookup, CancelUnchanged
<1>16. ASSUME NEW j \in Jobs, CancelFire(j) PROVE SlotInv'
  BY <1>16, SlotFrame DEF CancelFire, CancelUnchanged
<1>17. ASSUME NEW j \in Jobs, CancelReadRow(j) PROVE SlotInv'
  BY <1>17, SlotFrame DEF CancelReadRow, CancelUnchanged
<1>18. ASSUME NEW j \in Jobs, DeleteJob(j) PROVE SlotInv'
  BY <1>18, SlotFrame DEF DeleteJob, memory
<1>19. ASSUME DeleteFinishedJobs PROVE SlotInv'
  BY <1>19, SlotFrame DEF DeleteFinishedJobs, memory
<1>20. ASSUME Crash PROVE SlotInv'
  <2>1. SlotHolders' = {}
    BY <1>20 DEF Crash, SlotHolders
  <2> QED BY <1>20, <2>1, FS_EmptySet DEF Crash, SlotInv
<1>21. ASSUME Recover PROVE SlotInv'
  BY <1>21, SlotFrame DEF Recover, memory
<1>22. ASSUME UNCHANGED vars PROVE SlotInv'
  BY <1>22, SlotFrame DEF vars, memory
<1> QED
  BY <1>1, <1>2, <1>3, <1>4, <1>5, <1>6, <1>7, <1>8, <1>9, <1>10, <1>11, <1>12, <1>13, <1>14, <1>15, <1>16, <1>17, <1>18, <1>19, <1>20, <1>21, <1>22
  DEF Next, Step, Request

-----------------------------------------------------------------------------
(* Lock objects *)

\* The lock objects stay in order when nobody gains one.
LEMMA LockFrame ==
  ASSUME LockInv, keyLocks' = keyLocks, lockOf' = lockOf, refs' = refs, full' = full,
         \A j \in Jobs : Owns(j)' => Owns(j)
  PROVE  LockInv'
<1>1. \A l : Users(l)' = Users(l)
  BY DEF Users
<1> QED BY <1>1 DEF LockInv

\* Users are finite sets, so their number is a number.
LEMMA UsersFinite ==
  ASSUME NEW l
  PROVE  IsFiniteSet(Users(l)) /\ Cardinality(Users(l)) \in Nat
BY JobsFinite, FS_Subset, FS_CardinalityType DEF Users

\* Taking a reference keeps the lock objects in order, a new one included.
LEMMA LockTake ==
  ASSUME IInv, NEW j \in Jobs, EnterQueue(j), KeyOf[j] # NoKey
  PROVE  LockInv'
<1> DEFINE k == KeyOf[j]
<1>1. TypeOK /\ PlaceInv /\ LockInv
  BY DEF IInv
<1>l. PICK l \in Jobs : l = IF keyLocks[k] = NoLock THEN j ELSE keyLocks[k]
  BY <1>1, KeyOfKey DEF TypeOK
<1>2. /\ keyLocks' = [keyLocks EXCEPT ![k] = l]
      /\ lockOf' = [lockOf EXCEPT ![j] = l]
      /\ refs' = [refs EXCEPT ![l] = @ + 1]
      /\ full' = full /\ pc' = [pc EXCEPT ![j] = "waitKey"]
  BY <1>l DEF EnterQueue, TakeRef, Goto
<1>3. k \in Keys /\ l \in Jobs /\ KeyOf[l] = k
  BY <1>1, <1>l, KeyOfKey DEF LockInv, TypeOK
<1>4. pc[j] = "spawned" /\ lockOf[j] = NoLock
  BY <1>1 DEF EnterQueue, PlaceInv, Asleep
<1>5. \A i \in Jobs : lockOf[i] # NoLock => keyLocks'[KeyOf[i]] = lockOf[i]
  BY <1>1, <1>l, <1>2, <1>3 DEF LockInv, PlaceInv, TypeOK
<1>6. \A i \in Jobs : lockOf'[i] # NoLock => keyLocks'[KeyOf[i]] = lockOf'[i]
  BY <1>1, <1>2, <1>3, <1>5 DEF TypeOK
<1>7. \A q \in Keys : keyLocks'[q] # NoLock => KeyOf[keyLocks'[q]] = q /\ refs'[keyLocks'[q]] > 0
  BY <1>1, <1>l, <1>2, <1>3 DEF LockInv, TypeOK
<1>8. \A m \in Jobs : refs'[m] = Cardinality(Users(m)')
  <2>1. j \notin Users(l) /\ Users(l)' = Users(l) \cup {j}
    BY <1>1, <1>2, <1>3, <1>4 DEF Users, TypeOK
  <2>2. Cardinality(Users(l)') = Cardinality(Users(l)) + 1
    BY <2>1, UsersFinite, FS_AddElement
  <2>3. refs'[l] = Cardinality(Users(l)')
    BY <1>1, <1>2, <1>3, <2>2 DEF LockInv, TypeOK
  <2>4. \A m \in Jobs : m # l => Users(m)' = Users(m) /\ refs'[m] = refs[m]
    BY <1>1, <1>2, <1>3, <1>4 DEF Users, TypeOK
  <2> QED BY <1>1, <2>3, <2>4 DEF LockInv
<1>9. \A i \in Jobs : Owns(i)' => Owns(i) /\ lockOf'[i] = lockOf[i]
  BY <1>1, <1>2 DEF Owns, Owning, TypeOK
<1> QED BY <1>1, <1>2, <1>6, <1>7, <1>8, <1>9 DEF LockInv

\* Giving a reference back keeps them in order: the lock that leaves the map
\* has no user left.
LEMMA LockDrop ==
  ASSUME IInv, NEW j \in Jobs, DropRef(j), lockOf[j] # NoLock, full' = full,
         pc[j] \notin Owning, \A i \in Jobs \ {j} : pc'[i] = pc[i]
  PROVE  LockInv'
<1> DEFINE k == KeyOf[j]
<1>1. TypeOK /\ PlaceInv /\ LockInv
  BY DEF IInv
<1>l. PICK l \in Jobs : l = lockOf[j]
  BY <1>1 DEF TypeOK
<1>2. l \in Jobs /\ k \in Keys /\ keyLocks[k] = l /\ KeyOf[l] = k
  BY <1>1, <1>l, KeyOfKey DEF TypeOK, PlaceInv, LockInv
<1>3. /\ keyLocks' = [keyLocks EXCEPT ![k] = IF refs[l] = 1 THEN NoLock ELSE @]
      /\ lockOf' = [lockOf EXCEPT ![j] = NoLock]
      /\ refs' = [refs EXCEPT ![l] = @ - 1]
  BY <1>l DEF DropRef
<1>4. j \in Users(l) /\ Users(l)' = Users(l) \ {j}
  BY <1>1, <1>l, <1>2, <1>3 DEF Users, TypeOK
<1>5. Cardinality(Users(l)') = Cardinality(Users(l)) - 1
  BY <1>4, UsersFinite, FS_RemoveElement, ZenonT(40)
<1>6. \A m \in Jobs : refs'[m] = Cardinality(Users(m)')
  <2>1. refs'[l] = Cardinality(Users(l)')
    BY <1>1, <1>2, <1>3, <1>5 DEF LockInv, TypeOK
  <2>2. \A m \in Jobs : m # l => Users(m)' = Users(m) /\ refs'[m] = refs[m]
    BY <1>1, <1>l, <1>2, <1>3 DEF Users, TypeOK
  <2> QED BY <1>1, <2>1, <2>2 DEF LockInv
<1>7. refs[l] = 1 => Users(l) = {j}
  <2>1. refs[l] = 1 => Cardinality(Users(l)) = 1
    BY <1>1, <1>2 DEF LockInv
  <2>2. refs[l] = 1 => \E x : Users(l) = {x}
    BY <2>1, UsersFinite, FS_Singleton
  <2> QED BY <2>2, <1>4
<1>8. \A i \in Jobs : lockOf'[i] # NoLock => keyLocks'[KeyOf[i]] = lockOf'[i]
  <2> SUFFICES ASSUME NEW i \in Jobs, lockOf'[i] # NoLock
               PROVE  keyLocks'[KeyOf[i]] = lockOf'[i]
    OBVIOUS
  <2>1. i # j /\ lockOf'[i] = lockOf[i]
    BY <1>1, <1>3 DEF TypeOK
  <2>2. KeyOf[i] \in Keys /\ keyLocks[KeyOf[i]] = lockOf[i]
    BY <1>1, <2>1, KeyOfKey DEF LockInv, PlaceInv
  <2>3. CASE KeyOf[i] = k
    <3>1. i \in Users(l)
      BY <1>2, <2>2, <2>3 DEF Users
    <3> QED BY <1>1, <1>2, <1>3, <1>7, <2>1, <2>2, <2>3, <3>1 DEF TypeOK
  <2>4. CASE KeyOf[i] # k
    BY <1>1, <1>3, <2>1, <2>2, <2>4 DEF TypeOK
  <2> QED BY <2>3, <2>4
<1>9. \A q \in Keys : keyLocks'[q] # NoLock => KeyOf[keyLocks'[q]] = q /\ refs'[keyLocks'[q]] > 0
  <2> SUFFICES ASSUME NEW q \in Keys, keyLocks'[q] # NoLock
               PROVE  KeyOf[keyLocks'[q]] = q /\ refs'[keyLocks'[q]] > 0
    OBVIOUS
  <2>1. keyLocks'[q] = keyLocks[q] /\ keyLocks[q] \in Jobs
    BY <1>1, <1>3 DEF TypeOK
  <2>2. KeyOf[keyLocks[q]] = q /\ refs[keyLocks[q]] > 0
    BY <1>1, <2>1 DEF LockInv
  <2>3. CASE q = k
    <3>1. keyLocks[q] = l /\ refs[l] # 1
      BY <1>1, <1>2, <1>3, <2>3 DEF TypeOK
    <3>2. refs[l] \in Nat /\ refs'[l] = refs[l] - 1
      BY <1>1, <1>2, <1>3 DEF TypeOK
    <3> QED BY <2>1, <2>2, <3>1, <3>2
  <2>4. CASE q # k
    <3>1. keyLocks[q] # l
      BY <1>2, <2>2, <2>4
    <3> QED BY <1>1, <1>3, <2>1, <2>2, <3>1 DEF TypeOK
  <2> QED BY <2>3, <2>4
<1>10. \A i \in Jobs : Owns(i)' => Owns(i) /\ lockOf'[i] = lockOf[i]
  BY <1>1, <1>3 DEF Owns, TypeOK
<1> QED BY <1>1, <1>6, <1>8, <1>9, <1>10 DEF LockInv

\* Every action keeps the lock objects in order.
LEMMA LockStep == IInv /\ [Next]_vars => LockInv'
<1> SUFFICES ASSUME IInv, [Next]_vars PROVE LockInv'
  OBVIOUS
<1>0. TypeOK /\ PlaceInv /\ LockInv
  BY DEF IInv
<1> USE <1>0 DEF Goto
<1>1. ASSUME NEW j \in Jobs, Register(j) PROVE LockInv'
  BY <1>1, LockFrame DEF Register, Owns, Owning, TypeOK
<1>2. ASSUME NEW j \in Jobs, EnterQueue(j) PROVE LockInv'
  <2>1. CASE KeyOf[j] = NoKey
    <3>1. lockOf[j] = NoLock
      BY <2>1 DEF PlaceInv
    <3> QED BY <1>2, <2>1, <3>1, LockFrame DEF EnterQueue, Owns, TypeOK
  <2>2. CASE KeyOf[j] # NoKey
    BY <1>2, <2>2, LockTake
  <2> QED BY <2>1, <2>2
<1>3. ASSUME NEW j \in Jobs, AcquireKey(j) PROVE LockInv'
  <2>1. lockOf[j] \in Jobs /\ ~full[lockOf[j]]
    BY <1>3 DEF AcquireKey, PlaceInv, TypeOK
  <2>2. /\ keyLocks' = keyLocks /\ lockOf' = lockOf /\ refs' = refs
        /\ full' = [full EXCEPT ![lockOf[j]] = TRUE]
        /\ pc' = [pc EXCEPT ![j] = "waitSlot"]
    BY <1>3 DEF AcquireKey
  <2>3. \A i \in Jobs : Owns(i)' => i = j \/ (Owns(i) /\ lockOf[i] # lockOf[j])
    BY <2>1, <2>2 DEF Owns, LockInv, TypeOK
  <2>4. \A l : Users(l)' = Users(l)
    BY <2>2 DEF Users
  <2>5. \A i \in Jobs : Owns(i)' => full'[lockOf'[i]]
    BY <2>1, <2>2, <2>3 DEF LockInv, TypeOK
  <2>6. \A h, i \in Jobs : Owns(h)' /\ Owns(i)' /\ lockOf'[h] = lockOf'[i] => h = i
    BY <2>2, <2>3 DEF LockInv
  <2> QED BY <2>2, <2>4, <2>5, <2>6 DEF LockInv
<1>4. ASSUME NEW j \in Jobs, AbandonKey(j) PROVE LockInv'
  <2>1. pc[j] \notin Owning /\ lockOf[j] # NoLock
    BY <1>4 DEF AbandonKey, Owning, PlaceInv
  <2> QED BY <1>4, <2>1, LockDrop DEF AbandonKey, TypeOK
<1>5. ASSUME NEW j \in Jobs, AcquireSlot(j) PROVE LockInv'
  BY <1>5, LockFrame DEF AcquireSlot, Owns, Owning, TypeOK
<1>6. ASSUME NEW j \in Jobs, AbandonSlot(j) PROVE LockInv'
  BY <1>6, LockFrame DEF AbandonSlot, memory, Owns, Owning, TypeOK
<1>7. ASSUME NEW j \in Jobs, Dequeue(j) PROVE LockInv'
  BY <1>7, LockFrame DEF Dequeue, Owns, Owning, TypeOK
<1>8. ASSUME NEW j \in Jobs, Start(j) PROVE LockInv'
  BY <1>8, LockFrame DEF Start, memory, Owns, Owning, TypeOK
<1>9. ASSUME NEW j \in Jobs, Return(j) PROVE LockInv'
  BY <1>9, LockFrame DEF Return, Finish, memory, Owns, Owning, TypeOK
<1>10. ASSUME NEW j \in Jobs, FinishCanceled(j) PROVE LockInv'
  BY <1>10, LockFrame DEF FinishCanceled, memory, Exit, Owns, Owning, TypeOK
<1>11. ASSUME NEW j \in Jobs, ReleaseSlot(j) PROVE LockInv'
  BY <1>11, LockFrame DEF ReleaseSlot, Exit, Owns, Owning, TypeOK
<1>12. ASSUME NEW j \in Jobs, ReleaseKey(j) PROVE LockInv'
  <2>1. lockOf[j] \in Jobs /\ Owns(j)
    BY <1>12 DEF ReleaseKey, PlaceInv, TypeOK, Owns, Owning
  <2>2. /\ keyLocks' = keyLocks /\ lockOf' = lockOf /\ refs' = refs
        /\ full' = [full EXCEPT ![lockOf[j]] = FALSE]
        /\ pc' = [pc EXCEPT ![j] = "unref"]
    BY <1>12 DEF ReleaseKey
  <2>3. \A i \in Jobs : Owns(i)' => Owns(i) /\ i # j
    BY <2>2 DEF Owns, Owning, TypeOK
  <2>4. \A l : Users(l)' = Users(l)
    BY <2>2 DEF Users
  <2>5. \A i \in Jobs : Owns(i)' => full'[lockOf'[i]]
    BY <2>1, <2>2, <2>3 DEF LockInv, TypeOK
  <2> QED BY <2>2, <2>3, <2>4, <2>5 DEF LockInv
<1>13. ASSUME NEW j \in Jobs, Unref(j) PROVE LockInv'
  <2>1. pc[j] \notin Owning /\ lockOf[j] # NoLock
    BY <1>13 DEF Unref, Owning, PlaceInv
  <2> QED BY <1>13, <2>1, LockDrop DEF Unref, TypeOK
<1>14. ASSUME NEW j \in Jobs, Submit(j) PROVE LockInv'
  BY <1>14, LockFrame DEF Submit, memory, Owns, Owning, TypeOK
<1>15. ASSUME NEW j \in Jobs, CancelLookup(j) PROVE LockInv'
  BY <1>15, LockFrame DEF CancelLookup, CancelUnchanged, Owns, Owning, TypeOK
<1>16. ASSUME NEW j \in Jobs, CancelFire(j) PROVE LockInv'
  BY <1>16, LockFrame DEF CancelFire, CancelUnchanged, Owns, Owning, TypeOK
<1>17. ASSUME NEW j \in Jobs, CancelReadRow(j) PROVE LockInv'
  BY <1>17, LockFrame DEF CancelReadRow, CancelUnchanged, Owns, Owning, TypeOK
<1>18. ASSUME NEW j \in Jobs, DeleteJob(j) PROVE LockInv'
  BY <1>18, LockFrame DEF DeleteJob, memory, Owns, Owning, TypeOK
<1>19. ASSUME DeleteFinishedJobs PROVE LockInv'
  BY <1>19, LockFrame DEF DeleteFinishedJobs, memory, Owns, Owning, TypeOK
<1>20. ASSUME Crash PROVE LockInv'
  <2>1. \A l \in Jobs : Users(l)' = {}
    BY <1>20 DEF Crash, Users
  <2>2. \A i \in Jobs : ~Owns(i)' /\ lockOf'[i] = NoLock
    BY <1>20 DEF Crash, Owns
  <2>3. \A l \in Jobs : refs'[l] = Cardinality(Users(l)')
    BY <1>20, <2>1, FS_EmptySet DEF Crash
  <2> QED BY <1>20, <2>2, <2>3 DEF Crash, LockInv
<1>21. ASSUME Recover PROVE LockInv'
  BY <1>21, LockFrame DEF Recover, memory, Owns, Owning, TypeOK
<1>22. ASSUME UNCHANGED vars PROVE LockInv'
  BY <1>22, LockFrame DEF vars, memory, Owns
<1> QED
  BY <1>1, <1>2, <1>3, <1>4, <1>5, <1>6, <1>7, <1>8, <1>9, <1>10, <1>11, <1>12, <1>13, <1>14, <1>15, <1>16, <1>17, <1>18, <1>19, <1>20, <1>21, <1>22
  DEF Next, Step, Request

-----------------------------------------------------------------------------
(* The theorems *)

\* IInv holds initially.
LEMMA IInvInit == Init => IInv
<1> SUFFICES ASSUME Init PROVE IInv
  OBVIOUS
<1>1. TypeOK
  BY DEF Init, TypeOK, Places, Asleep, Statuses, CallerStates
<1>2. PlaceInv
  BY DEF Init, PlaceInv, Asleep, InSlot
<1>3. LockInv
  <2>1. \A l \in Jobs : Users(l) = {}
    BY DEF Init, Users
  <2>2. \A l \in Jobs : refs[l] = Cardinality(Users(l))
    BY <2>1, FS_EmptySet DEF Init
  <2> QED BY <2>2 DEF Init, LockInv, Owns
<1>4. SlotInv
  <2>1. SlotHolders = {}
    BY DEF Init, SlotHolders, InSlot
  <2> QED BY <2>1, FS_EmptySet DEF Init, SlotInv
<1> QED BY <1>1, <1>2, <1>3, <1>4 DEF IInv

\* IInv is an invariant of the job service.
THEOREM Inductive == Spec => []IInv
<1>1. IInv /\ [Next]_vars => IInv'
  BY TypeStep, PlaceStep, LockStep, SlotStep DEF IInv
<1> QED BY <1>1, IInvInit, PTL DEF Spec

\* Every variable keeps its type (TypeOK), whatever the constants are.
THEOREM TypeCorrect == Spec => []TypeOK
<1>1. IInv => TypeOK
  BY DEF IInv
<1> QED BY <1>1, Inductive, PTL

\* Two bodies submitted for one instance never run together, for any number of
\* jobs and instances (SameInstanceRunsSerially).
THEOREM InstanceExclusion == Spec => []SameInstanceRunsSerially
<1>1. IInv => SameInstanceRunsSerially
  <2> SUFFICES ASSUME IInv, NEW i \in Running, NEW j \in Running,
                      KeyOf[i] = KeyOf[j], KeyOf[i] # NoKey
               PROVE  i = j
    BY DEF SameInstanceRunsSerially
  <2>1. i \in Jobs /\ j \in Jobs /\ pc[i] = "running" /\ pc[j] = "running"
    BY DEF Running
  <2>2. Owns(i) /\ Owns(j)
    BY <2>1 DEF IInv, PlaceInv, InSlot, Owns, Owning
  <2>3. lockOf[i] = lockOf[j]
    BY <2>1, <2>2 DEF IInv, LockInv, Owns
  <2> QED BY <2>1, <2>2, <2>3 DEF IInv, LockInv
<1> QED BY <1>1, Inductive, PTL

\* At most MaxConcurrent bodies run at a time, whatever its value
\* (AtMostMaxConcurrent).
THEOREM ConcurrencyBound == Spec => []AtMostMaxConcurrent
<1>1. IInv => AtMostMaxConcurrent
  <2> SUFFICES ASSUME IInv PROVE Cardinality(Running) <= MaxConcurrent
    BY DEF AtMostMaxConcurrent
  <2>1. IsFiniteSet(SlotHolders) /\ Running \in SUBSET SlotHolders
    BY JobsFinite, FS_Subset DEF SlotHolders, Running, InSlot
  <2>2. /\ Cardinality(Running) <= Cardinality(SlotHolders)
        /\ Cardinality(Running) \in Nat /\ Cardinality(SlotHolders) \in Nat
    BY <2>1, FS_Subset, FS_CardinalityType
  <2> QED BY <2>2 DEF IInv, SlotInv
<1> QED BY <1>1, Inductive, PTL

\* The reference count of every key lock is the number of its users, who all
\* find it in the map (LockRefsAreUsers).
THEOREM RefsExact == Spec => []LockRefsAreUsers
<1>1. IInv => LockRefsAreUsers
  BY DEF IInv, TypeOK, LockInv, LockRefsAreUsers
<1> QED BY <1>1, Inductive, PTL

-----------------------------------------------------------------------------
(* Rows *)

\* Every action preserves what a row says about its goroutine.
LEMMA RowStep == TypeOK /\ RowInv /\ [Next]_vars => RowInv'
<1> SUFFICES ASSUME TypeOK, RowInv, [Next]_vars PROVE RowInv'
  OBVIOUS
<1> USE DEF TypeOK, RowInv, Goto, Queued, Over, Unfinished, JobFinished
<1>1. ASSUME NEW j \in Jobs, Register(j) PROVE RowInv'
  BY <1>1 DEF Register
<1>2. ASSUME NEW j \in Jobs, EnterQueue(j) PROVE RowInv'
  BY <1>2 DEF EnterQueue
<1>3. ASSUME NEW j \in Jobs, AcquireKey(j) PROVE RowInv'
  BY <1>3 DEF AcquireKey
<1>4. ASSUME NEW j \in Jobs, AbandonKey(j) PROVE RowInv'
  BY <1>4 DEF AbandonKey
<1>5. ASSUME NEW j \in Jobs, AcquireSlot(j) PROVE RowInv'
  BY <1>5 DEF AcquireSlot
<1>6. ASSUME NEW j \in Jobs, AbandonSlot(j) PROVE RowInv'
  BY <1>6 DEF AbandonSlot, memory
<1>7. ASSUME NEW j \in Jobs, Dequeue(j) PROVE RowInv'
  BY <1>7 DEF Dequeue
<1>8. ASSUME NEW j \in Jobs, Start(j) PROVE RowInv'
  BY <1>8 DEF Start, SaveRow, SaveLost, memory
<1>9. ASSUME NEW j \in Jobs, Return(j) PROVE RowInv'
  BY <1>9 DEF Return, Finish, SaveRow, SaveLost, memory
<1>10. ASSUME NEW j \in Jobs, FinishCanceled(j) PROVE RowInv'
  BY <1>10 DEF FinishCanceled, Exit, SaveRow, SaveLost, memory
<1>11. ASSUME NEW j \in Jobs, ReleaseSlot(j) PROVE RowInv'
  BY <1>11 DEF ReleaseSlot, Exit
<1>12. ASSUME NEW j \in Jobs, ReleaseKey(j) PROVE RowInv'
  BY <1>12 DEF ReleaseKey
<1>13. ASSUME NEW j \in Jobs, Unref(j) PROVE RowInv'
  BY <1>13 DEF Unref
<1>14. ASSUME NEW j \in Jobs, Submit(j) PROVE RowInv'
  BY <1>14 DEF Submit, memory
<1>15. ASSUME NEW j \in Jobs, CancelLookup(j) PROVE RowInv'
  BY <1>15 DEF CancelLookup, CancelUnchanged
<1>16. ASSUME NEW j \in Jobs, CancelFire(j) PROVE RowInv'
  BY <1>16 DEF CancelFire, CancelUnchanged
<1>17. ASSUME NEW j \in Jobs, CancelReadRow(j) PROVE RowInv'
  BY <1>17 DEF CancelReadRow, CancelUnchanged
<1>18. ASSUME NEW j \in Jobs, DeleteJob(j) PROVE RowInv'
  BY <1>18 DEF DeleteJob, memory
<1>19. ASSUME DeleteFinishedJobs PROVE RowInv'
  BY <1>19 DEF DeleteFinishedJobs, FinishedRows, memory
<1>20. ASSUME Crash PROVE RowInv'
  BY <1>20 DEF Crash
<1>21. ASSUME Recover PROVE RowInv'
  <2>1. \A rows \in [Jobs -> Statuses], i \in Jobs :
          Pruned(rows, row') =>
              row'[i] = rows[i] \/ (row'[i] = "deleted" /\ rows[i] \in JobFinished)
    BY DEF Pruned
  <2>2. Interrupted \in [Jobs -> Statuses]
    BY DEF Interrupted, Statuses
  <2>3. \A i \in Jobs : Interrupted[i] = IF row[i] \in Unfinished THEN "interrupted" ELSE row[i]
    BY DEF Interrupted
  <2>4. \A i \in Jobs : /\ row'[i] = "none" <=> row[i] = "none"
                        /\ row'[i] \in {"canceled", "succeeded", "failed"} => row'[i] = row[i]
                        /\ faults' = 0 => row'[i] \notin Unfinished
    BY <1>21, <2>1, <2>2, <2>3 DEF Recover
  <2>5. ~up /\ pc' = pc /\ ran' = ran /\ \A i \in Jobs : pc[i] \in Over \cup {"none"}
    BY <1>21 DEF Recover
  <2> QED BY <2>4, <2>5
<1>22. ASSUME UNCHANGED vars PROVE RowInv'
  BY <1>22 DEF vars, memory
<1> QED
  BY <1>1, <1>2, <1>3, <1>4, <1>5, <1>6, <1>7, <1>8, <1>9, <1>10, <1>11, <1>12, <1>13, <1>14, <1>15, <1>16, <1>17, <1>18, <1>19, <1>20, <1>21, <1>22
  DEF Next, Step, Request

\* RowInv is an invariant of the job service.
THEOREM RowsInductive == Spec => []RowInv
<1>1. Init => RowInv
  BY DEF Init, RowInv, Queued, Unfinished, Over
<1> QED BY <1>1, RowStep, TypeCorrect, PTL DEF Spec

\* A row says canceled only if the body never ran, and succeeded or failed only
\* if it did (StatusTellsWhetherItRan), lost writes and crashes included.
THEOREM StatusHonest == Spec => []StatusTellsWhetherItRan
<1>1. RowInv => StatusTellsWhetherItRan
  BY DEF RowInv, StatusTellsWhetherItRan
<1> QED BY <1>1, RowsInductive, PTL

\* While no write has failed, an unfinished row has a goroutine that will
\* write it again (NoOrphanedRow).
THEOREM RowsOwned == Spec => []NoOrphanedRow
<1>1. RowInv => NoOrphanedRow
  BY DEF RowInv, NoOrphanedRow, Queued, Over
<1> QED BY <1>1, RowsInductive, PTL

\* A final status is final and a deleted row stays away (FinalMeansFinal).
THEOREM FinalStays == Spec => FinalMeansFinal
<1> DEFINE Final(j) == /\ row[j] \in JobFinished => row'[j] \in {row[j], "deleted"}
                       /\ row[j] = "deleted" => row'[j] = "deleted"
<1>1. ASSUME TypeOK, RowInv, [Next]_vars PROVE \A i \in Jobs : Final(i)
  <2> USE <1>1 DEF TypeOK, RowInv, Queued, Unfinished, JobFinished
  <2>1. ASSUME NEW j \in Jobs,
               \/ Register(j)
               \/ EnterQueue(j)
               \/ AcquireKey(j)
               \/ AbandonKey(j)
               \/ AcquireSlot(j)
               \/ AbandonSlot(j)
               \/ Dequeue(j)
               \/ ReleaseSlot(j)
               \/ ReleaseKey(j)
               \/ Unref(j)
               \/ CancelLookup(j)
               \/ CancelFire(j)
               \/ CancelReadRow(j)
        PROVE  row' = row
    BY <2>1 DEF Register, EnterQueue, AcquireKey, AbandonKey, AcquireSlot, AbandonSlot, Dequeue, ReleaseSlot, ReleaseKey, Unref, CancelLookup, CancelFire, CancelReadRow, CancelUnchanged
  <2>2. ASSUME NEW j \in Jobs, Start(j) PROVE \A i \in Jobs : Final(i)
    BY <2>2 DEF Start, SaveRow, SaveLost
  <2>3. ASSUME NEW j \in Jobs, Return(j) PROVE \A i \in Jobs : Final(i)
    BY <2>3 DEF Return, Finish, SaveRow, SaveLost
  <2>4. ASSUME NEW j \in Jobs, FinishCanceled(j) PROVE \A i \in Jobs : Final(i)
    BY <2>4 DEF FinishCanceled, SaveRow, SaveLost
  <2>5. ASSUME NEW j \in Jobs, Submit(j) PROVE \A i \in Jobs : Final(i)
    BY <2>5 DEF Submit
  <2>6. ASSUME NEW j \in Jobs, DeleteJob(j) PROVE \A i \in Jobs : Final(i)
    BY <2>6 DEF DeleteJob
  <2>7. ASSUME DeleteFinishedJobs PROVE \A i \in Jobs : Final(i)
    BY <2>7 DEF DeleteFinishedJobs, FinishedRows
  <2>8. ASSUME Recover PROVE \A i \in Jobs : Final(i)
    <3>1. \A rows \in [Jobs -> Statuses], i \in Jobs :
            Pruned(rows, row') =>
                row'[i] = rows[i] \/ (row'[i] = "deleted" /\ rows[i] \in JobFinished)
      BY DEF Pruned
    <3>2. Interrupted \in [Jobs -> Statuses]
      BY DEF Interrupted, Statuses
    <3>3. \A i \in Jobs : row[i] \notin Unfinished => Interrupted[i] = row[i]
      BY DEF Interrupted
    <3> QED BY <2>8, <3>1, <3>2, <3>3 DEF Recover
  <2>9. ASSUME Crash \/ UNCHANGED vars PROVE row' = row
    BY <2>9 DEF Crash, vars
  <2> QED
    BY <2>1, <2>2, <2>3, <2>4, <2>5, <2>6, <2>7, <2>8, <2>9 DEF Next, Step, Request
<1>2. TypeOK /\ RowInv /\ [Next]_vars =>
        [\A j \in Jobs :
           /\ row[j] \in JobFinished => row'[j] \in {row[j], "deleted"}
           /\ row[j] = "deleted" => row'[j] = "deleted"]_vars
  BY <1>1
<1> HIDE DEF Final
<1> QED BY <1>2, TypeCorrect, RowsInductive, PTL DEF Spec, FinalMeansFinal

-----------------------------------------------------------------------------
(* Refinement *)

\* While no write has failed the rows that say running are the running bodies.
LEMMA RunningRowsAreRunning ==
  ASSUME RowInv, faults = 0, up
  PROVE  Promise!RunningRows = Running
<1>1. \A j \in Jobs : row[j] = "running" <=> pc[j] = "running"
  BY DEF RowInv, Queued, Unfinished
<1> QED BY <1>1 DEF Promise!RunningRows, Running

\* The row of a job turns to running only when JobPromise allows it.
LEMMA BeginAllowed ==
  ASSUME IInv, RowInv, NEW j \in Jobs, Start(j), faults' = 0
  PROVE  Promise!Begin(j)
<1>1. TypeOK /\ PlaceInv /\ LockInv /\ SlotInv /\ up /\ pc[j] = "starting"
  BY DEF IInv, Start
<1>2. faults = 0 /\ row' = [row EXCEPT ![j] = "running"]
  BY <1>1, BoundsAssumption DEF Start, SaveRow, SaveLost, TypeOK
<1>3. row[j] = "queued"
  BY <1>1 DEF RowInv, Queued
<1>4. Promise!RunningRows = Running
  BY <1>1, <1>2, RunningRowsAreRunning
<1>5. Cardinality(Running) < MaxConcurrent
  <2>1. IsFiniteSet(SlotHolders) /\ IsFiniteSet(Running)
    BY JobsFinite, FS_Subset DEF SlotHolders, Running
  <2>2. j \notin Running /\ Running \cup {j} \in SUBSET SlotHolders
    BY <1>1 DEF Running, SlotHolders, InSlot
  <2>3. Cardinality(Running \cup {j}) = Cardinality(Running) + 1
    BY <2>1, <2>2, FS_AddElement
  <2>4. Cardinality(Running \cup {j}) <= Cardinality(SlotHolders)
    BY <2>1, <2>2, FS_Subset
  <2>5. Cardinality(Running) \in Nat /\ Cardinality(SlotHolders) \in Nat
    BY <2>1, FS_CardinalityType
  <2> QED BY <1>1, <2>3, <2>4, <2>5, MaxConcurrentAssumption DEF SlotInv
<1>6. ASSUME KeyOf[j] # NoKey, NEW i \in Running PROVE KeyOf[i] # KeyOf[j]
  <2> SUFFICES ASSUME KeyOf[i] = KeyOf[j] PROVE FALSE
    OBVIOUS
  <2>1. i \in Jobs /\ pc[i] = "running"
    BY DEF Running
  <2>2. Owns(i) /\ Owns(j)
    BY <1>1, <1>6, <2>1 DEF PlaceInv, InSlot, Owns, Owning
  <2>3. lockOf[i] = lockOf[j]
    BY <1>1, <2>1, <2>2 DEF LockInv, Owns
  <2>4. i = j
    BY <1>1, <2>1, <2>2, <2>3 DEF LockInv
  <2> QED BY <1>1, <2>1, <2>4
<1>7. Promise!Become(j, "queued", "running")
  BY <1>2, <1>3 DEF Promise!Become
<1>8. Promise!Cardinality(Promise!RunningRows) < MaxConcurrent
  <2>1. \A S : Promise!Cardinality(S) = Cardinality(S)
    BY DEF Promise!Cardinality, Cardinality
  <2> QED BY <1>4, <1>5, <2>1
<1>9. KeyOf[j] # NoKey => \A i \in Promise!RunningRows : KeyOf[i] # KeyOf[j]
  BY <1>4, <1>6
<1> QED BY <1>7, <1>8, <1>9 DEF Promise!Begin

\* Every step of the job service is a step of JobPromise or leaves the rows alone.
LEMMA PromiseStep ==
  ASSUME IInv, RowInv, [Next]_vars, faults = 0, faults' = 0
  PROVE  [Promise!Next]_row
<1>0. TypeOK
  BY DEF IInv
<1> USE <1>0 DEF TypeOK
<1>1. ASSUME NEW j \in Jobs,
             \/ Register(j)
             \/ EnterQueue(j)
             \/ AcquireKey(j)
             \/ AbandonKey(j)
             \/ AcquireSlot(j)
             \/ AbandonSlot(j)
             \/ Dequeue(j)
             \/ ReleaseSlot(j)
             \/ ReleaseKey(j)
             \/ Unref(j)
             \/ CancelLookup(j)
             \/ CancelFire(j)
             \/ CancelReadRow(j)
      PROVE  row' = row
  BY <1>1 DEF Register, EnterQueue, AcquireKey, AbandonKey, AcquireSlot, AbandonSlot, Dequeue, ReleaseSlot, ReleaseKey, Unref, CancelLookup, CancelFire, CancelReadRow, CancelUnchanged
<1>2. ASSUME NEW j \in Jobs, Start(j) PROVE Promise!Next
  BY <1>2, BeginAllowed DEF Promise!Next
<1>3. ASSUME NEW j \in Jobs, Return(j) PROVE Promise!Next
  <2>1. row[j] = "running"
    BY <1>3 DEF Return, Finish, RowInv
  <2>2. \E status \in {"succeeded", "failed"} : row' = [row EXCEPT ![j] = status]
    BY <1>3 DEF Return, Finish, SaveRow, SaveLost
  <2>3. Promise!End(j)
    BY <2>1, <2>2 DEF Promise!End, Promise!Become
  <2> QED BY <2>3 DEF Promise!Next
<1>4. ASSUME NEW j \in Jobs, FinishCanceled(j) PROVE Promise!Next
  <2>1. row[j] = "queued" /\ row' = [row EXCEPT ![j] = "canceled"]
    BY <1>4 DEF FinishCanceled, SaveRow, SaveLost, RowInv, Queued
  <2>2. Promise!Withdraw(j)
    BY <2>1 DEF Promise!Withdraw, Promise!Become
  <2> QED BY <2>2 DEF Promise!Next
<1>5. ASSUME NEW j \in Jobs, Submit(j) PROVE Promise!Next
  <2>1. Promise!Accept(j)
    BY <1>5 DEF Submit, RowInv, Promise!Accept, Promise!Become
  <2> QED BY <2>1 DEF Promise!Next
<1>6. ASSUME NEW j \in Jobs, DeleteJob(j) PROVE Promise!Next
  <2>1. {j} \in SUBSET {i \in Jobs : row[i] \in Promise!Finished}
    BY <1>6 DEF DeleteJob, JobFinished, Promise!Finished
  <2>2. row' = [i \in Jobs |-> IF i \in {j} THEN "deleted" ELSE row[i]]
    BY <1>6 DEF DeleteJob
  <2>3. Promise!Tidy
    BY <2>1, <2>2 DEF Promise!Tidy
  <2> QED BY <2>3 DEF Promise!Next
<1>7. ASSUME DeleteFinishedJobs PROVE Promise!Next
  <2>1. FinishedRows \in SUBSET {i \in Jobs : row[i] \in Promise!Finished}
    BY DEF FinishedRows, JobFinished, Promise!Finished
  <2>2. Promise!Tidy
    BY <1>7, <2>1 DEF DeleteFinishedJobs, Promise!Tidy
  <2> QED BY <2>2 DEF Promise!Next
<1>8. ASSUME Recover PROVE Promise!Next
  <2>1. Pruned(Interrupted, row')
    BY <1>8 DEF Recover
  <2> DEFINE finished == {i \in Jobs : Interrupted[i] \in JobFinished}
  <2>2. PICK kept \in SUBSET finished :
          row' = [i \in Jobs |-> IF i \in finished \ kept THEN "deleted" ELSE Interrupted[i]]
    BY <2>1 DEF Pruned
  <2>3. finished \ kept \in SUBSET {i \in Jobs : row[i] \in Promise!Finished \cup Promise!Unfinished}
    BY DEF Interrupted, JobFinished, Unfinished, Promise!Finished, Promise!Unfinished
  <2>4. row' = [i \in Jobs |-> IF i \in finished \ kept THEN "deleted"
                               ELSE IF row[i] \in Promise!Unfinished THEN "interrupted"
                               ELSE row[i]]
    BY <2>2 DEF Interrupted, Unfinished, Promise!Unfinished
  <2>5. Promise!Restart
    BY <2>3, <2>4 DEF Promise!Restart
  <2> QED BY <2>5 DEF Promise!Next
<1>9. ASSUME Crash \/ UNCHANGED vars PROVE row' = row
  BY <1>9 DEF Crash, vars
<1> QED
  BY <1>1, <1>2, <1>3, <1>4, <1>5, <1>6, <1>7, <1>8, <1>9 DEF Next, Step, Request

\* No write has failed so far.
Faultless == faults = 0

\* In a behaviour without failing writes the job service implements
\* JobPromise (KeepsPromise).
THEOREM Refinement == Spec /\ []Faultless => KeepsPromise
<1>1. Init => Promise!Init
  BY DEF Init, Promise!Init
<1>2. IInv /\ RowInv /\ [Next]_vars /\ Faultless /\ Faultless' => [Promise!Next]_row
  BY PromiseStep DEF Faultless
<1> QED BY <1>1, <1>2, Inductive, RowsInductive, PTL DEF Spec, KeepsPromise, Promise!Spec
=============================================================================

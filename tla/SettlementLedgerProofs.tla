----------------------- MODULE SettlementLedgerProofs -----------------------
(***************************************************************************)
(* For any number of settlers, reconcilers, keys, amounts and faults: the  *)
(* types, the two safety invariants and the refinement of DebitContract.   *)
(*                                                                         *)
(* The argument: a row's amount is fixed by its insert (Announced for the  *)
(* requests and processes that carry a copy of it), so whatever the auth   *)
(* service debits is the announced amount; and a process reaches "commit"  *)
(* only after the auth service debited its key (PaidBeforeCommit), which   *)
(* no later step undoes.                                                   *)
(***************************************************************************)
EXTENDS SettlementLedger, FiniteSetTheorems, TLAPS

Busy(p) == work[p].pc \in {"send", "await", "commit", "error"}

\* A row exists exactly when it announces an amount.
RowsAnnounce ==
  \A k \in Key : ledger[k].status = "ABSENT" <=> ledger[k].amount = 0

\* A process that works on a key carries that row's amount, and the rows it
\* still has to visit exist.
WorkAnnounced ==
  \A p \in Process :
    /\ Busy(p) => /\ work[p].key \in Key
                  /\ work[p].amount \in Amount
                  /\ work[p].amount = ledger[work[p].key].amount
    /\ \A k \in work[p].todo : ledger[k].status # "ABSENT"

PaidBeforeCommit ==
  \A p \in Process : work[p].pc = "commit" => debited[work[p].key] # 0

CommittedIsPaid ==
  \A k \in Key :
    ledger[k].status = "COMMITTED" \/ k \in settled => debited[k] # 0

IInv ==
  /\ TypeOK
  /\ RowsAnnounce
  /\ WorkAnnounced
  /\ DebitIsAnnounced
  /\ PaidBeforeCommit
  /\ CommittedIsPaid

\* A sweep holds a batch, and what it has left of one is a batch.
LEMMA BatchFacts ==
  /\ {} \in Batch
  /\ \A B \in Batch : B \subseteq Key /\ \A k \in B : B \ {k} \in Batch
  /\ \A S \in SUBSET Key : Batches(S) \subseteq Batch \intersect SUBSET S
<1>1. {} \in Batch
  BY FS_EmptySet, SettlementAssumption DEF Batch
<1>2. ASSUME NEW B \in Batch PROVE B \subseteq Key /\ \A k \in B : B \ {k} \in Batch
  <2>1. B \subseteq Key /\ IsFiniteSet(B) /\ Cardinality(B) <= BatchLimit
    BY DEF Batch
  <2>2. ASSUME NEW k \in B PROVE B \ {k} \in Batch
    <3>1. /\ IsFiniteSet(B \ {k}) /\ Cardinality(B) \in Nat
          /\ Cardinality(B \ {k}) = Cardinality(B) - 1
      BY <2>1, FS_RemoveElement, FS_CardinalityType
    <3> QED
      BY <2>1, <3>1, SettlementAssumption DEF Batch
  <2> QED
    BY <2>1, <2>2
<1>3. ASSUME NEW S \in SUBSET Key, NEW B \in Batches(S) PROVE B \in Batch /\ B \subseteq S
  <2>1. B \subseteq S /\ IsFiniteSet(B)
    BY DEF Batches
  <2>2. Cardinality(B) = BatchLimit \/ Cardinality(B) < BatchLimit
    BY DEF Batches
  <2>3. Cardinality(B) <= BatchLimit
    BY <2>1, <2>2, FS_CardinalityType, SettlementAssumption
  <2> QED
    BY <2>1, <2>3 DEF Batch
<1> QED
  BY <1>1, <1>2, <1>3

\* The invariant holds initially: no row, no request, no debit.
THEOREM InitIInv == Init => IInv
BY SettlementAssumption, BatchFacts
   DEF Init, IInv, TypeOK, RowsAnnounce, WorkAnnounced, DebitIsAnnounced,
       PaidBeforeCommit, CommittedIsPaid, Absent, IdleWork, Busy,
       Row, Work, Status, Process

\* The records the actions assign to a process are well formed.
LEMMA WorkRecords ==
  /\ IdleWork \in Work /\ IdleWork.pc = "idle" /\ IdleWork.todo = {}
  /\ \A k \in Key, a \in Amount :
       /\ Debiting(k, a) \in Work
       /\ Debiting(k, a).pc = "send"
       /\ Debiting(k, a).key = k
       /\ Debiting(k, a).amount = a
       /\ Debiting(k, a).todo = {}
BY BatchFacts DEF IdleWork, Debiting, Work

\* A process that goes on to its next row carries no key and keeps its batch.
LEMMA ContinueRecord ==
  ASSUME NEW p, work[p] \in Work
  PROVE  /\ Continue(p) \in Work
         /\ Continue(p).pc \in {"idle", "pick"}
         /\ Continue(p).todo = work[p].todo
BY WorkRecords, BatchFacts DEF Continue, Work

\* Every step of the settler, the reconciler, the auth service and the clock,
\* and every crash, preserves the invariant.
LEMMA NextIInv == IInv /\ [Next]_vars => IInv'
<1> SUFFICES ASSUME IInv, [Next]_vars PROVE IInv'
  OBVIOUS
<1> USE SettlementAssumption, BatchFacts
    DEF IInv, TypeOK, RowsAnnounce, WorkAnnounced, DebitIsAnnounced,
        PaidBeforeCommit, CommittedIsPaid, Busy, Row, Work, Status, Request,
        Process
<1>1. ASSUME NEW p \in Settler, NEW k \in Key, NEW a \in Amount,
             SettleInsert(p, k, a)
      PROVE  IInv'
  <2>1. ledger' \in [Key -> Row] /\ work' \in [Process -> Work]
    BY <1>1, WorkRecords DEF SettleInsert
  <2>2. \A j \in Key : /\ j # k => ledger'[j] = ledger[j]
                       /\ ledger[j].status # "ABSENT" => ledger'[j] = ledger[j]
    BY <1>1 DEF SettleInsert
  <2>3. ledger'[k].status = "PENDING" /\ ledger'[k].amount = a
    BY <1>1 DEF SettleInsert
  <2>4. \A q \in Process : q # p => work'[q] = work[q]
    BY <1>1 DEF SettleInsert
  <2>5. work'[p] = Debiting(k, a)
    BY <1>1 DEF SettleInsert
  <2>6. WorkAnnounced'
    BY <2>2, <2>3, <2>4, <2>5, WorkRecords
  <2>7. DebitIsAnnounced'
    BY <1>1, <2>2 DEF SettleInsert
  <2> QED
    BY <1>1, <2>1, <2>2, <2>3, <2>4, <2>5, <2>6, <2>7, WorkRecords DEF SettleInsert
<1>2. ASSUME NEW p \in Settler, NEW k \in Key, NEW a \in Amount,
             SettlePending(p, k, a)
      PROVE  IInv'
  <2>1. ledger[k].amount \in Amount
    BY <1>2 DEF SettlePending
  <2>2. \A q \in Process : q # p => work'[q] = work[q]
    BY <1>2 DEF SettlePending
  <2>3. work'[p] = Debiting(k, ledger[k].amount)
    BY <1>2 DEF SettlePending
  <2>4. /\ work' \in [Process -> Work]
        /\ work'[p].pc = "send"
        /\ work'[p].key = k
        /\ work'[p].amount = ledger[k].amount
        /\ work'[p].todo = {}
    <3>1. /\ Debiting(k, ledger[k].amount) \in Work
          /\ Debiting(k, ledger[k].amount).pc = "send"
          /\ Debiting(k, ledger[k].amount).key = k
          /\ Debiting(k, ledger[k].amount).amount = ledger[k].amount
          /\ Debiting(k, ledger[k].amount).todo = {}
      BY <2>1 DEF Debiting, IdleWork
    <3>2. work' = [work EXCEPT ![p] = Debiting(k, ledger[k].amount)]
      BY <1>2 DEF SettlePending
    <3> QED
      BY <3>1, <3>2
  <2>5. ASSUME NEW q \in Process
        PROVE  /\ Busy(q)' => /\ work'[q].key \in Key
                              /\ work'[q].amount \in Amount
                              /\ work'[q].amount = ledger[work'[q].key].amount
               /\ \A j \in work'[q].todo : ledger[j].status # "ABSENT"
               /\ work'[q].pc = "commit" => debited[work'[q].key] # 0
    <3>1. CASE q = p
      BY <3>1, <2>1, <2>4
    <3>2. CASE q # p
      BY <3>2, <2>2
    <3> QED
      BY <3>1, <3>2
  <2>6. WorkAnnounced' /\ PaidBeforeCommit'
    BY <1>2, <2>5 DEF SettlePending
  <2>7. TypeOK'
    BY <1>2, <2>4 DEF SettlePending
  <2>8. RowsAnnounce' /\ DebitIsAnnounced' /\ CommittedIsPaid'
    BY <1>2 DEF SettlePending
  <2> QED
    BY <2>6, <2>7, <2>8
<1>3. ASSUME NEW p \in Settler, NEW k \in Key,
             SettleCommitted(p, k)
      PROVE  IInv'
  BY <1>3 DEF SettleCommitted
<1>4. ASSUME NEW p \in Reconciler, Scan(p) PROVE IInv'
  <2>0. Batches(Stuck) \subseteq Batch \intersect SUBSET Stuck
    <3>1. Stuck \in SUBSET Key
      BY DEF Stuck
    <3> QED
      BY <3>1, BatchFacts
  <2>1. PICK B \in Batch \intersect SUBSET Stuck :
          work' = [work EXCEPT ![p] =
                     [IdleWork EXCEPT !.pc = "pick", !.todo = B,
                        !.old = {k \in B : ledger[k].age >= FailAge}]]
    <3>1. PICK B \in Batches(Stuck) :
            work' = [work EXCEPT ![p] =
                       [IdleWork EXCEPT !.pc = "pick", !.todo = B,
                          !.old = {k \in B : ledger[k].age >= FailAge}]]
      BY <1>4 DEF Scan
    <3> QED
      BY <2>0, <3>1
  <2>2. B \subseteq Key /\ \A k \in B : ledger[k].status # "ABSENT"
    BY <2>1 DEF Stuck
  <2>3. /\ work'[p] \in Work
        /\ work'[p].pc = "pick"
        /\ work'[p].todo = B
    BY <2>1, <2>2 DEF IdleWork
  <2>4. \A q \in Process : q # p => work'[q] = work[q]
    BY <2>1
  <2>5. work' \in [Process -> Work]
    BY <2>1, <2>3, <2>4
  <2>6. ASSUME NEW q \in Process
        PROVE  /\ Busy(q)' => /\ work'[q].key \in Key
                              /\ work'[q].amount \in Amount
                              /\ work'[q].amount = ledger[work'[q].key].amount
               /\ \A j \in work'[q].todo : ledger[j].status # "ABSENT"
               /\ work'[q].pc = "commit" => debited[work'[q].key] # 0
    <3>1. CASE q = p
      BY <3>1, <2>2, <2>3
    <3>2. CASE q # p
      BY <3>2, <2>4
    <3> QED
      BY <3>1, <3>2
  <2>7. WorkAnnounced' /\ PaidBeforeCommit'
    BY <1>4, <2>6 DEF Scan
  <2>8. TypeOK'
    BY <1>4, <2>5 DEF Scan
  <2>9. RowsAnnounce' /\ DebitIsAnnounced' /\ CommittedIsPaid'
    BY <1>4 DEF Scan
  <2> QED
    BY <2>7, <2>8, <2>9
<1>5. ASSUME NEW p \in Reconciler, NEW k \in Key,
             Pick(p, k)
      PROVE  IInv'
  BY <1>5 DEF Pick
<1>6. ASSUME NEW p \in Process, Send(p) PROVE IInv'
  BY <1>6 DEF Send
<1>7. ASSUME NEW r \in Request, AuthDebit(r) PROVE IInv'
  BY <1>7 DEF AuthDebit
<1>8. ASSUME NEW p \in Process, Reply(p) PROVE IInv'
  BY <1>8 DEF Reply
<1>9. ASSUME NEW p \in Process, RpcError(p) PROVE IInv'
  BY <1>9 DEF RpcError
<1>10. ASSUME NEW p \in Process, Commit(p) PROVE IInv'
  <2>1. /\ work'[p] = Continue(p)
        /\ \A q \in Process : q # p => work'[q] = work[q]
    BY <1>10 DEF Commit
  <2>2. work' \in [Process -> Work]
    BY <1>10, ContinueRecord DEF Commit
  <2>3. /\ ledger' \in [Key -> Row]
        /\ \A k \in Key : /\ ledger'[k].amount = ledger[k].amount
                          /\ ledger'[k].age = ledger[k].age
                          /\ k # work[p].key =>
                               ledger'[k].status = ledger[k].status
        /\ ledger[work[p].key].status # "ABSENT"
        /\ ledger'[work[p].key].status # "ABSENT"
    BY <1>10 DEF Commit
  <2> QED
    BY <1>10, <2>1, <2>2, <2>3, ContinueRecord DEF Commit
<1>11. ASSUME NEW p \in Process, CommitFails(p) PROVE IInv'
  BY <1>11 DEF CommitFails
<1>12. ASSUME NEW p \in Process, SettleError(p) PROVE IInv'
  BY <1>12 DEF SettleError, IdleWork
<1>13. ASSUME NEW p \in Process, ReconcileError(p) PROVE IInv'
  <2>1. /\ work'[p] = Continue(p)
        /\ \A q \in Process : q # p => work'[q] = work[q]
    BY <1>13 DEF ReconcileError
  <2>2. work' \in [Process -> Work]
    BY <1>13, ContinueRecord DEF ReconcileError
  <2>3. /\ ledger' \in [Key -> Row]
        /\ \A k \in Key : /\ ledger'[k].amount = ledger[k].amount
                          /\ ledger'[k].age = ledger[k].age
                          /\ k # work[p].key =>
                               ledger'[k].status = ledger[k].status
        /\ ledger[work[p].key].status # "ABSENT"
        /\ ledger'[work[p].key].status # "ABSENT"
    BY <1>13 DEF ReconcileError
  <2> QED
    BY <1>13, <2>1, <2>2, <2>3, ContinueRecord DEF ReconcileError
<1>14. ASSUME NEW p \in Process, ReconcileErrorLost(p) PROVE IInv'
  <2>1. /\ work'[p] = Continue(p)
        /\ \A q \in Process : q # p => work'[q] = work[q]
    BY <1>14 DEF ReconcileErrorLost
  <2>2. work' \in [Process -> Work]
    BY <1>14, ContinueRecord DEF ReconcileErrorLost
  <2> QED
    BY <1>14, <2>1, <2>2, ContinueRecord DEF ReconcileErrorLost
<1>15. ASSUME NEW p \in Process, Crash(p) PROVE IInv'
  BY <1>15 DEF Crash, IdleWork
<1>16. ASSUME Tick PROVE IInv'
  BY <1>16 DEF Tick, Older, Row
<1>17. CASE UNCHANGED vars
  BY <1>17 DEF vars
<1> QED
  BY <1>1, <1>2, <1>3, <1>4, <1>5, <1>6, <1>7, <1>8, <1>9, <1>10, <1>11,
     <1>12, <1>13, <1>14, <1>15, <1>16, <1>17
  DEF Next, SettleCall, ReconcileStep, DebitStep

\* The invariant holds in every reachable state.
THEOREM InductiveInvariant == Spec => []IInv
<1>1. IInv /\ [Next]_vars => IInv'
  BY NextIInv
<1> QED
  BY InitIInv, <1>1, PTL DEF Spec

\* Every variable keeps its type.
THEOREM TypeCorrect == Spec => []TypeOK
<1>1. IInv => TypeOK
  BY DEF IInv
<1> QED
  BY InductiveInvariant, <1>1, PTL

\* COMMITTED rows, and keys reported COMMITTED, are debits of the stored
\* amount.
THEOREM Committed == Spec => []CommittedIsDebited
<1>1. IInv => CommittedIsDebited
  BY DEF IInv, CommittedIsDebited, CommittedIsPaid, DebitIsAnnounced
<1> QED
  BY InductiveInvariant, <1>1, PTL

\* Every debit, and every request for one, was announced by its row.
THEOREM WriteAhead == Spec => []DebitIsAnnounced
<1>1. IInv => DebitIsAnnounced
  BY DEF IInv
<1> QED
  BY InductiveInvariant, <1>1, PTL

-----------------------------------------------------------------------------
(* A row is given up only past the budget: ages never decrease, so what a  *)
(* sweep read as old is still old when it writes.                          *)

OldRows ==
  \A p \in Process : \A k \in work[p].old :
    k \in Key /\ ledger[k].age = FailAge /\ ledger[k].status # "ABSENT"

AgeInv == OldRows /\ FailedOnlyWhenOld

\* No step makes an old row younger, or takes it away.
LEMMA AgesGrow ==
  ASSUME TypeOK, [Next]_vars
  PROVE  \A k \in Key :
           ledger[k].status # "ABSENT" /\ ledger[k].age = FailAge =>
             ledger'[k].age = FailAge /\ ledger'[k].status # "ABSENT"
<1> USE DEF TypeOK, Row
<1>1. ASSUME NEW p \in Settler, NEW k \in Key, NEW a \in Amount,
             SettleInsert(p, k, a)
      PROVE  \A j \in Key : j # k => ledger'[j] = ledger[j]
  BY <1>1 DEF SettleInsert
<1>2. ASSUME NEW p \in Process, Commit(p) \/ ReconcileError(p), NEW j \in Key
      PROVE  /\ ledger'[j].age = ledger[j].age
             /\ ledger[j].status # "ABSENT" => ledger'[j].status # "ABSENT"
  BY <1>2 DEF Commit, ReconcileError
<1>3. CASE Tick
  BY <1>3 DEF Tick, Older
<1>4. ASSUME NEW p \in Settler, SettleCall(p)
      PROVE  \A k \in Key : ledger[k].status # "ABSENT" => ledger'[k] = ledger[k]
  BY <1>4, <1>1 DEF SettleCall, SettleInsert, SettlePending, SettleCommitted
<1>5. ASSUME NEW p \in Process, DebitStep(p) \/ Crash(p),
             ~(Commit(p) \/ ReconcileError(p))
      PROVE  ledger' = ledger
  BY <1>5 DEF DebitStep, Send, Reply, RpcError, CommitFails, SettleError,
              ReconcileErrorLost, Crash
<1>6. ASSUME NEW p \in Reconciler, ReconcileStep(p)
      PROVE  ledger' = ledger
  BY <1>6 DEF ReconcileStep, Scan, Pick
<1>7. ASSUME NEW r \in Request, AuthDebit(r)
      PROVE  ledger' = ledger
  BY <1>7 DEF AuthDebit
<1> QED
  BY <1>2, <1>3, <1>4, <1>5, <1>6, <1>7 DEF Next, vars

\* Every step preserves what a sweep knows of the rows that it found too old.
LEMMA AgeInvStep == TypeOK /\ AgeInv /\ [Next]_vars => AgeInv'
<1> SUFFICES ASSUME TypeOK, AgeInv, [Next]_vars PROVE AgeInv'
  OBVIOUS
<1> USE DEF AgeInv, OldRows, FailedOnlyWhenOld
<1>1. TypeOK /\ \A k \in Key :
        ledger[k].status # "ABSENT" /\ ledger[k].age = FailAge =>
          ledger'[k].age = FailAge /\ ledger'[k].status # "ABSENT"
  BY AgesGrow
\* A sweep judges rows by the age they have; nothing else adds to old.
<1>2. ASSUME NEW p \in Process, NEW k \in work'[p].old
      PROVE  \/ k \in work[p].old
             \/ k \in Key /\ ledger[k].age = FailAge /\ ledger[k].status # "ABSENT"
  <2> USE DEF TypeOK, Row, Work, IdleWork, Debiting, Continue, Process
  <2>1. CASE UNCHANGED work
    BY <2>1, <1>2
  <2>2. ASSUME NEW q \in Settler, SettleCall(q), ~UNCHANGED work
        PROVE  \A x \in Process : work'[x].old \in {work[x].old, {}}
    <3>1. \E j \in Key : \E b : work' = [work EXCEPT ![q] = Debiting(j, b)]
      BY <2>2 DEF SettleCall, SettleInsert, SettlePending, SettleCommitted
    <3>2. \A j, b : Debiting(j, b).old = {}
      OBVIOUS
    <3> QED
      BY <3>1, <3>2
  <2>3. ASSUME NEW q \in Reconciler, NEW j \in Key, Pick(q, j)
        PROVE  \A x \in Process : work'[x].old = work[x].old
    BY <2>3 DEF Pick
  <2>4. ASSUME NEW q \in Process, DebitStep(q) \/ Crash(q)
        PROVE  \A x \in Process : work'[x].old \in {work[x].old, {}}
    <3>1. CASE Send(q) \/ Reply(q) \/ RpcError(q) \/ CommitFails(q)
      BY <3>1 DEF Send, Reply, RpcError, CommitFails
    <3>2. CASE SettleError(q) \/ Crash(q)
      BY <3>2 DEF SettleError, Crash
    <3>3. CASE Commit(q) \/ ReconcileError(q) \/ ReconcileErrorLost(q)
      <4>1. work' = [work EXCEPT ![q] = Continue(q)]
        BY <3>3 DEF Commit, ReconcileError, ReconcileErrorLost
      <4>2. Continue(q).old \in {work[q].old, {}}
        OBVIOUS
      <4> QED
        BY <4>1, <4>2
    <3> QED
      BY <2>4, <3>1, <3>2, <3>3 DEF DebitStep
  <2>5. ASSUME NEW q \in Reconciler, Scan(q)
        PROVE  \/ k \in work[p].old
               \/ k \in Key /\ ledger[k].age = FailAge /\ ledger[k].status # "ABSENT"
    <3>1. PICK B \in SUBSET Stuck :
            work' = [work EXCEPT ![q] =
                       [IdleWork EXCEPT !.pc = "pick", !.todo = B,
                          !.old = {j \in B : ledger[j].age >= FailAge}]]
      BY <2>5 DEF Scan, Batches
    <3>2. CASE p # q
      BY <3>1, <3>2, <1>2
    <3>3. CASE p = q
      <4>1. work'[p].old = {j \in B : ledger[j].age >= FailAge}
        BY <3>1, <3>3
      <4>2. k \in B /\ ledger[k].age >= FailAge
        BY <4>1, <1>2
      <4>3. k \in Key /\ ledger[k].status # "ABSENT"
        BY <3>1, <4>2 DEF Stuck
      <4>4. ledger[k].age \in 0..FailAge
        BY <4>3, <1>1
      <4>5. ledger[k].age = FailAge
        <5> HIDE DEF TypeOK, Row, Work, IdleWork, Debiting, Continue, Process
        <5> QED
          BY <4>2, <4>4, SettlementAssumption
      <4> QED
        BY <4>2, <4>3, <4>5
    <3> QED
      BY <3>2, <3>3
  <2>6. (\E r \in Request : AuthDebit(r)) \/ Tick \/ UNCHANGED vars =>
          UNCHANGED work
    BY DEF AuthDebit, Tick, vars
  <2> QED
    BY <1>2, <2>1, <2>2, <2>3, <2>4, <2>5, <2>6 DEF Next, ReconcileStep
<1>3. OldRows'
  BY <1>1, <1>2
\* Only the reconciler's error handler marks a row FAILED.
<1>4. ASSUME NEW k \in Key, ledger'[k].status = "FAILED"
      PROVE  \/ ledger[k].status = "FAILED"
             \/ \E p \in Process : k \in work[p].old
  <2> USE <1>1 DEF TypeOK, Row, Status
  <2>1. ASSUME NEW p \in Settler, SettleCall(p)
        PROVE  ledger'[k].status = "FAILED" => ledger[k].status = "FAILED"
    BY <2>1 DEF SettleCall, SettleInsert, SettlePending, SettleCommitted
  <2>2. ASSUME NEW p \in Process, ReconcileError(p)
        PROVE  ledger[k].status = "FAILED" \/ k \in work[p].old
    BY <2>2, <1>4 DEF ReconcileError
  <2>3. ASSUME NEW p \in Process, DebitStep(p) \/ Crash(p), ~ReconcileError(p)
        PROVE  ledger[k].status = "FAILED"
    BY <2>3, <1>4 DEF DebitStep, Send, Reply, RpcError, Commit, CommitFails,
                      SettleError, ReconcileErrorLost, Crash
  <2>4. ASSUME NEW p \in Reconciler, ReconcileStep(p)
        PROVE  ledger' = ledger
    BY <2>4 DEF ReconcileStep, Scan, Pick
  <2>5. CASE Tick
    BY <2>5, <1>4 DEF Tick, Older
  <2>6. (\E r \in Request : AuthDebit(r)) \/ UNCHANGED vars => ledger' = ledger
    BY DEF AuthDebit, vars
  <2> QED
    BY <1>4, <2>1, <2>2, <2>3, <2>4, <2>5, <2>6 DEF Next
<1>5. FailedOnlyWhenOld'
  <2> SUFFICES ASSUME NEW k \in Key, ledger'[k].status = "FAILED"
               PROVE  ledger'[k].age = FailAge
    OBVIOUS
  <2> QED
    BY <1>1, <1>4
<1> QED
  BY <1>3, <1>5

\* The reconciler gives up no row younger than the budget.
THEOREM GivenUpLate == Spec => []FailedOnlyWhenOld
<1>1. Init => AgeInv
  BY DEF Init, AgeInv, OldRows, FailedOnlyWhenOld, Absent, IdleWork
<1>2. TypeOK /\ AgeInv /\ [Next]_vars => AgeInv'
  BY AgeInvStep
<1>3. AgeInv => FailedOnlyWhenOld
  BY DEF AgeInv
<1> QED
  BY <1>1, <1>2, <1>3, TypeCorrect, PTL DEF Spec

-----------------------------------------------------------------------------
(* The refinement: an insert owes the amount, the auth service pays it,    *)
(* and telling a caller COMMITTED acknowledges it.                         *)

\* Every behaviour of the ledger is one of the contract: a charge is owed
\* before it is paid, paid once and in full, and acknowledged when paid.
THEOREM Implementation == Spec => ImplementsContract
<1>1. Init => Contract!Init
  BY DEF Init, Contract!Init, Absent
<1>2. IInv /\ [Next]_vars => [Contract!Next]_Contract!vars
  <2> SUFFICES ASSUME IInv, [Next]_vars
               PROVE  [Contract!Next]_Contract!vars
    OBVIOUS
  <2> DEFINE owed == [k \in Key |-> ledger[k].amount]
  <2> USE DEF IInv, TypeOK, Row, Contract!vars
  <2>1. ASSUME NEW p \in Settler, NEW k \in Key, NEW a \in Amount,
               SettleInsert(p, k, a)
        PROVE  Contract!Owe(k, a)
    <3>1. owed[k] = 0
      BY <2>1 DEF SettleInsert, RowsAnnounce
    <3>2. owed' = [owed EXCEPT ![k] = a]
      BY <2>1 DEF SettleInsert
    <3> QED
      BY <2>1, <3>1, <3>2 DEF SettleInsert, Contract!Owe
  <2>2. ASSUME NEW r \in Request, AuthDebit(r)
        PROVE  Contract!Pay(r.key)
    <3>1. r.key \in Key /\ r.amount = owed[r.key] /\ r.amount # 0
      BY <2>2, SettlementAssumption DEF AuthDebit, DebitIsAnnounced, Request
    <3> QED
      BY <2>2, <3>1 DEF AuthDebit, Contract!Pay
  <2>3. ASSUME NEW p \in Settler, NEW k \in Key, SettleCommitted(p, k)
        PROVE  Contract!Acknowledge(k)
    BY <2>3 DEF SettleCommitted, CommittedIsPaid, Contract!Acknowledge
  <2>4. ASSUME NEW p \in Process, Commit(p)
        PROVE  Contract!Acknowledge(work[p].key) \/ UNCHANGED Contract!vars
    <3>1. owed' = owed
      BY <2>4 DEF Commit
    <3>2. debited[work[p].key] # 0
      BY <2>4 DEF Commit, PaidBeforeCommit
    <3> QED
      BY <2>4, <3>1, <3>2 DEF Commit, Contract!Acknowledge
  <2>5. ASSUME NEW p \in Process, ReconcileError(p)
        PROVE  UNCHANGED Contract!vars
    BY <2>5 DEF ReconcileError
  <2>6. CASE Tick
    BY <2>6 DEF Tick, Older
  <2>7. ASSUME NEW p \in Process, DebitStep(p) \/ Crash(p),
               ~(Commit(p) \/ ReconcileError(p))
        PROVE  UNCHANGED Contract!vars
    BY <2>7 DEF DebitStep, Send, Reply, RpcError, CommitFails, SettleError,
                ReconcileErrorLost, Crash
  <2>8. ASSUME NEW p \in Reconciler, ReconcileStep(p)
        PROVE  UNCHANGED Contract!vars
    BY <2>8 DEF ReconcileStep, Scan, Pick
  <2>9. ASSUME NEW p \in Settler, NEW k \in Key, NEW a \in Amount,
               SettlePending(p, k, a)
        PROVE  UNCHANGED Contract!vars
    BY <2>9 DEF SettlePending
  <2>10. CASE UNCHANGED vars
    BY <2>10 DEF vars
  <2>11. \A p \in Process : Commit(p) => work[p].key \in Key
    BY DEF Commit, WorkAnnounced, Busy
  <2>12. \A r \in Request : r.key \in Key
    BY DEF Request
  <2> QED
    BY <2>1, <2>2, <2>3, <2>4, <2>5, <2>6, <2>7, <2>8, <2>9, <2>10, <2>11, <2>12
    DEF Next, SettleCall, Contract!Next
<1> QED
  BY InductiveInvariant, <1>1, <1>2, PTL DEF Spec, ImplementsContract, Contract!Spec
=============================================================================

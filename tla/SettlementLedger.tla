-------------------------- MODULE SettlementLedger --------------------------
(***************************************************************************)
(* The write-ahead ledger for settlement charges                           *)
(* (services/billing/settlementLedger.ts).  A settler inserts a PENDING    *)
(* row under a unique idempotency key, asks the auth service to debit the  *)
(* wallet, and promotes the row to COMMITTED; a reconciler sweeps the rows *)
(* that stay PENDING, retries the debit, and gives a row up as FAILED when *)
(* it is older than the budget.  Every promotion and every failure mark is *)
(* an update by row id with no condition on the status it replaces.        *)
(*                                                                         *)
(* The database is one map from keys to rows.  The auth service is         *)
(* external: it debits a key once, whatever happens to the answer.  A      *)
(* request stays deliverable after its sender gave up on it.  attemptCount *)
(* and lastError are diagnostics and left out.                             *)
(***************************************************************************)
EXTENDS Naturals, FiniteSets

CONSTANTS Settler,     \* concurrent settleViaLedger calls
          Reconciler,  \* billing cycles running reconcilePendingSettlements
          Key,         \* idempotency keys
          NoKey,       \* the key of a process that holds none
          Amount,      \* charges in cents
          MinAge,      \* minAgeMs: a younger row is left to its first caller
          FailAge,     \* failAfterMs: an older row is given up on error
          BatchLimit,  \* the sweep's LIMIT
          MaxFaults    \* bound on crashes and failed database writes

ASSUME SettlementAssumption ==
  /\ Settler \intersect Reconciler = {}
  /\ NoKey \notin Key
  /\ Amount \subseteq Nat \ {0}
  /\ MinAge \in Nat
  /\ FailAge \in Nat
  /\ MinAge <= FailAge
  /\ BatchLimit \in Nat \ {0}
  /\ MaxFaults \in Nat

VARIABLES ledger,    \* [Key -> row], status ABSENT before the insert
          debited,   \* auth service: cents taken from the wallet under a key
          inflight,  \* debit requests sent to the auth service
          work,      \* what each settler and reconciler is doing
          settled,   \* keys some settleViaLedger call returned COMMITTED for
          faults     \* crashes and failed writes so far

vars == <<ledger, debited, inflight, work, settled, faults>>

Process == Settler \union Reconciler
Status  == {"ABSENT", "PENDING", "COMMITTED", "FAILED"}
Request == [key : Key, amount : Amount]
Row     == [status : Status, amount : Amount \union {0}, age : 0..FailAge]
Batch   == {B \in SUBSET Key : IsFiniteSet(B) /\ Cardinality(B) <= BatchLimit}
Work    == [pc     : {"idle", "pick", "send", "await", "commit", "error"},
            key    : Key \union {NoKey},
            amount : Amount \union {0},
            todo   : Batch,        \* rows of the sweep still to visit
            old    : SUBSET Key]   \* rows the sweep found past failAfterMs

Absent == [status |-> "ABSENT", amount |-> 0, age |-> 0]

IdleWork == [pc |-> "idle", key |-> NoKey, amount |-> 0,
             todo |-> {}, old |-> {}]

Init ==
  /\ ledger   = [k \in Key |-> Absent]
  /\ debited  = [k \in Key |-> 0]
  /\ inflight = {}
  /\ work     = [p \in Process |-> IdleWork]
  /\ settled  = {}
  /\ faults   = 0

-----------------------------------------------------------------------------
(* settleViaLedger *)

\* A call that goes on to debit key k for amount a.
Debiting(k, a) == [IdleWork EXCEPT !.pc = "send", !.key = k, !.amount = a]

\* The insert wins the unique index.
SettleInsert(p, k, a) ==
  /\ work[p].pc = "idle"
  /\ ledger[k].status = "ABSENT"
  /\ ledger' = [ledger EXCEPT ![k] =
                  [status |-> "PENDING", amount |-> a, age |-> 0]]
  /\ work' = [work EXCEPT ![p] = Debiting(k, a)]
  /\ UNCHANGED <<debited, inflight, settled, faults>>

\* Mutant: the retry charges the amount its own caller computed.
SettlePendingOwnAmount(p, k, a) ==
  /\ work[p].pc = "idle"
  /\ ledger[k].status = "PENDING"
  /\ work' = [work EXCEPT ![p] = Debiting(k, a)]
  /\ UNCHANGED <<ledger, debited, inflight, settled, faults>>

\* The insert collides with a PENDING row: the stored amount is charged, not
\* the amount a this caller computed.
SettlePending(p, k, a) ==
  /\ work[p].pc = "idle"
  /\ ledger[k].status = "PENDING"
  /\ work' = [work EXCEPT ![p] = Debiting(k, ledger[k].amount)]
  /\ UNCHANGED <<ledger, debited, inflight, settled, faults>>

\* Mutant: any existing row counts as already processed.
SettleExistingRow(p, k) ==
  /\ work[p].pc = "idle"
  /\ ledger[k].status # "ABSENT"
  /\ settled' = settled \union {k}
  /\ UNCHANGED <<ledger, debited, inflight, work, faults>>

\* The insert collides with a COMMITTED row: the caller gets the prior result.
\* (Colliding with a FAILED row returns FAILED and changes nothing.)
SettleCommitted(p, k) ==
  /\ work[p].pc = "idle"
  /\ ledger[k].status = "COMMITTED"
  /\ settled' = settled \union {k}
  /\ UNCHANGED <<ledger, debited, inflight, work, faults>>

-----------------------------------------------------------------------------
(* reconcilePendingSettlements *)

Stuck == {k \in Key : ledger[k].status = "PENDING" /\ ledger[k].age >= MinAge}

\* Mutant: the sweep takes all it finds.
BatchesUnlimited(S) == {S}

\* The oldest rows of S, at most BatchLimit of them.
Batches(S) ==
  {B \in SUBSET S :
     /\ IsFiniteSet(B)
     /\ \/ Cardinality(B) = BatchLimit
        \/ B = S /\ Cardinality(S) < BatchLimit
     /\ \A k \in B, j \in S \ B : ledger[k].age >= ledger[j].age}

\* The sweep reads its batch once; a row's age is judged by this read.
Scan(p) ==
  /\ work[p].pc = "idle"
  /\ Stuck # {}
  /\ \E B \in Batches(Stuck) :
       work' = [work EXCEPT ![p] =
                  [IdleWork EXCEPT !.pc = "pick", !.todo = B,
                     !.old = {k \in B : ledger[k].age >= FailAge}]]
  /\ UNCHANGED <<ledger, debited, inflight, settled, faults>>

\* The next row of the batch, whatever became of it since the read.
Pick(p, k) ==
  /\ work[p].pc = "pick"
  /\ k \in work[p].todo
  /\ work' = [work EXCEPT ![p].pc = "send", ![p].key = k,
                          ![p].amount = ledger[k].amount,
                          ![p].todo = @ \ {k}]
  /\ UNCHANGED <<ledger, debited, inflight, settled, faults>>

\* The process goes on to the next row of its batch; a settler has none.
Continue(p) ==
  IF work[p].todo = {} THEN IdleWork
  ELSE [work[p] EXCEPT !.pc = "pick", !.key = NoKey, !.amount = 0]

-----------------------------------------------------------------------------
(* computeDebit, and what follows it *)

Send(p) ==
  /\ work[p].pc = "send"
  /\ inflight' = inflight \union
                   {[key |-> work[p].key, amount |-> work[p].amount]}
  /\ work' = [work EXCEPT ![p].pc = "await"]
  /\ UNCHANGED <<ledger, debited, settled, faults>>

\* External: the auth service debits a key the first time it sees it.
AuthDebit(r) ==
  /\ r \in inflight
  /\ debited[r.key] = 0
  /\ debited' = [debited EXCEPT ![r.key] = r.amount]
  /\ UNCHANGED <<ledger, inflight, work, settled, faults>>

\* External: success, or alreadyProcessed for a key debited before.
Reply(p) ==
  /\ work[p].pc = "await"
  /\ debited[work[p].key] # 0
  /\ work' = [work EXCEPT ![p].pc = "commit"]
  /\ UNCHANGED <<ledger, debited, inflight, settled, faults>>

\* Mutant: an error of the debit is taken for success.
RpcErrorIgnored(p) ==
  /\ work[p].pc = "await"
  /\ work' = [work EXCEPT ![p].pc = "commit"]
  /\ UNCHANGED <<ledger, debited, inflight, settled, faults>>

\* The request is refused, or its answer is lost: fetch throws either way.
RpcError(p) ==
  /\ work[p].pc = "await"
  /\ work' = [work EXCEPT ![p].pc = "error"]
  /\ UNCHANGED <<ledger, debited, inflight, settled, faults>>

\* Promotion to COMMITTED, unconditional on the row's status.
Commit(p) ==
  /\ work[p].pc = "commit"
  /\ ledger' = [ledger EXCEPT ![work[p].key].status = "COMMITTED"]
  /\ settled' = IF p \in Settler THEN settled \union {work[p].key} ELSE settled
  /\ work' = [work EXCEPT ![p] = Continue(p)]
  /\ UNCHANGED <<debited, inflight, faults>>

\* The promotion throws inside the same try block as the debit.
CommitFails(p) ==
  /\ faults < MaxFaults
  /\ work[p].pc = "commit"
  /\ work' = [work EXCEPT ![p].pc = "error"]
  /\ faults' = faults + 1
  /\ UNCHANGED <<ledger, debited, inflight, settled>>

\* settleViaLedger rethrows and leaves the row PENDING for the reconciler.
SettleError(p) ==
  /\ p \in Settler
  /\ work[p].pc = "error"
  /\ work' = [work EXCEPT ![p] = IdleWork]
  /\ UNCHANGED <<ledger, debited, inflight, settled, faults>>

\* Mutant: a failing row is retried for ever.
ReconcileErrorNeverFails(p) ==
  /\ p \in Reconciler
  /\ work[p].pc = "error"
  /\ ledger' = [ledger EXCEPT ![work[p].key].status = "PENDING"]
  /\ work' = [work EXCEPT ![p] = Continue(p)]
  /\ UNCHANGED <<debited, inflight, settled, faults>>

\* The reconciler writes FAILED or PENDING over whatever the row holds now.
ReconcileError(p) ==
  /\ p \in Reconciler
  /\ work[p].pc = "error"
  /\ LET k == work[p].key
     IN  ledger' = [ledger EXCEPT ![k].status =
                      IF k \in work[p].old THEN "FAILED" ELSE "PENDING"]
  /\ work' = [work EXCEPT ![p] = Continue(p)]
  /\ UNCHANGED <<debited, inflight, settled, faults>>

\* That write fails too and its error is swallowed.
ReconcileErrorLost(p) ==
  /\ faults < MaxFaults
  /\ p \in Reconciler
  /\ work[p].pc = "error"
  /\ work' = [work EXCEPT ![p] = Continue(p)]
  /\ faults' = faults + 1
  /\ UNCHANGED <<ledger, debited, inflight, settled>>

-----------------------------------------------------------------------------
(* Environment *)

Crash(p) ==
  /\ faults < MaxFaults
  /\ work[p].pc # "idle"
  /\ work' = [work EXCEPT ![p] = IdleWork]
  /\ faults' = faults + 1
  /\ UNCHANGED <<ledger, debited, inflight, settled>>

Older(row) == IF row.status = "ABSENT" \/ row.age = FailAge THEN row
              ELSE [row EXCEPT !.age = @ + 1]

Tick ==
  /\ \E k \in Key : Older(ledger[k]) # ledger[k]
  /\ ledger' = [k \in Key |-> Older(ledger[k])]
  /\ UNCHANGED <<debited, inflight, work, settled, faults>>

SettleCall(p) ==
  \E k \in Key :
    \/ \E a \in Amount : SettleInsert(p, k, a) \/ SettlePending(p, k, a)
    \/ SettleCommitted(p, k)

ReconcileStep(p) == Scan(p) \/ \E k \in Key : Pick(p, k)

DebitStep(p) ==
  \/ Send(p) \/ Reply(p) \/ RpcError(p)
  \/ Commit(p) \/ CommitFails(p)
  \/ SettleError(p) \/ ReconcileError(p) \/ ReconcileErrorLost(p)

Next ==
  \/ \E p \in Settler : SettleCall(p)
  \/ \E p \in Reconciler : ReconcileStep(p)
  \/ \E p \in Process : DebitStep(p) \/ Crash(p)
  \/ \E r \in Request : AuthDebit(r)
  \/ Tick

\* A running process finishes what it awaits, the hourly cycle keeps sweeping
\* and time passes.  Nothing obliges the auth service to answer well, a
\* settler to call, or a process to crash.
Fairness ==
  /\ WF_vars(Tick)
  /\ \A p \in Process : WF_vars(DebitStep(p))
  /\ \A p \in Reconciler : WF_vars(ReconcileStep(p))

Spec == Init /\ [][Next]_vars
FairSpec == Spec /\ Fairness

-----------------------------------------------------------------------------
(* Properties *)

TypeOK ==
  /\ ledger \in [Key -> Row]
  /\ debited \in [Key -> Amount \union {0}]
  /\ inflight \subseteq Request
  /\ work \in [Process -> Work]
  /\ settled \subseteq Key
  /\ faults \in 0..MaxFaults

\* A row marked COMMITTED, and a key some caller was told is COMMITTED, stand
\* for a wallet debit of exactly the stored amount, across crashes, lost
\* answers and the unconditional updates of settlers and reconcilers.
CommittedIsDebited ==
  \A k \in Key :
    ledger[k].status = "COMMITTED" \/ k \in settled =>
      debited[k] = ledger[k].amount /\ debited[k] # 0

\* Write-ahead: no debit lands, and none is under way, that its row did not
\* announce with the same amount, so the reconciler can always find it.
DebitIsAnnounced ==
  /\ \A r \in inflight : ledger[r.key].amount = r.amount
  /\ \A k \in Key : debited[k] # 0 => ledger[k].amount = debited[k]

\* The reconciler gives a row up only when it is older than the budget, even
\* when the row changed hands between its read and its write.
FailedOnlyWhenOld ==
  \A k \in Key : ledger[k].status = "FAILED" => ledger[k].age = FailAge

\* The ledger implements the contract of DebitContract.
Contract == INSTANCE DebitContract
              WITH owed  <- [k \in Key |-> ledger[k].amount],
                   paid  <- debited,
                   acked <- settled
ImplementsContract == Contract!Spec

\* No row stays PENDING for ever: with finitely many faults the sweep drives
\* it to COMMITTED, or to FAILED where an operator is paged, even if the auth
\* service never answers.
PendingIsResolved ==
  \A k \in Key : ledger[k].status = "PENDING" ~>
                   ledger[k].status \in {"COMMITTED", "FAILED"}
=============================================================================

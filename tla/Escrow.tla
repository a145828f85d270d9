------------------------------- MODULE Escrow -------------------------------
(***************************************************************************)
(* The pre-funded escrow of one Akash deployment                           *)
(* (services/billing/escrowService.ts), with the jobs that call it: lease  *)
(* activation, the hourly billing cycle and its two write-ahead            *)
(* reconcilers, suspension, resumption, the closing handlers, and the      *)
(* sweep of orphaned escrows.  Every job reads the row, awaits, and writes *)
(* it back; only the refund claim, its rollback and the pause are          *)
(* conditional on the status they replace.                                 *)
(*                                                                         *)
(* Escrows do not share state, so one row is modelled.  The amount of a    *)
(* charge is any member of Charge: rates, hours and the minimum interval   *)
(* are left out.  The auth service is external: it performs the deposit    *)
(* and the refund of a deployment once each, whoever asks and however      *)
(* often, and a request may reach it after its sender gave up.             *)
(***************************************************************************)
EXTENDS Naturals

CONSTANTS Worker,    \* jobs that can be under way at the same time
          Deposit,   \* depositCents
          Charge,    \* what one hourly charge or settlement adds, in cents
          MaxFaults  \* bound on crashes and failed calls of the auth service

ASSUME EscrowAssumption ==
  /\ Deposit \in Nat \ {0}
  /\ Charge \subseteq Nat \ {0}
  /\ MaxFaults \in Nat

VARIABLES escrow,      \* the DeploymentEscrow row
          deployment,  \* status of the AkashDeployment it belongs to
          revived,     \* history: it was activated after it had left
          deposited,   \* auth service: the wallet was debited the deposit
          credited,    \* auth service: cents returned to the wallet
          depositSent, \* a deposit request was sent
          refundSent,  \* amounts of the refund requests sent
          job,         \* what each worker is doing
          faults

wallet == <<deposited, credited, depositSent, refundSent>>
vars   == <<escrow, deployment, revived, wallet, job, faults>>

Status == {"ABSENT", "PENDING_DEPOSIT", "ACTIVE", "DEPLETED", "PAUSED",
           "REFUNDING", "REFUNDED", "FAILED"}

\* DEPLOYING: any status before ACTIVE.  ENDED: CLOSED, FAILED and
\* PERMANENTLY_FAILED.
DeploymentStatus == {"DEPLOYING", "ACTIVE", "SUSPENDED", "CLOSE_FAILED", "ENDED"}

Row == [status   : Status,
        consumed : 0..Deposit,                \* consumedCents
        refunded : 0..Deposit,                \* refundedCents
        age      : {"young", "due", "old"}]   \* of its creation while the deposit is
                                              \* pending, else of its last update

Job == [pc     : {"idle", "create", "retry", "promote", "fail", "cycle",
                  "charge", "close", "suspend", "settle", "settleWrite",
                  "pause", "refund", "claim", "credit", "recredit",
                  "rollback", "finish", "activate", "end"},
        then   : {"idle", "activate", "refund", "pause", "end"},  \* what follows
        seen   : Status,       \* escrow.status when this job read the row
        amount : 0..Deposit]   \* consumedCents it read, or the refund

IdleJob == [pc |-> "idle", then |-> "idle", seen |-> "ABSENT", amount |-> 0]

Init ==
  /\ escrow = [status |-> "ABSENT", consumed |-> 0, refunded |-> 0,
               age |-> "young"]
  /\ deployment = "DEPLOYING"
  /\ revived = FALSE
  /\ deposited = FALSE
  /\ credited = 0
  /\ depositSent = FALSE
  /\ refundSent = {}
  /\ job = [w \in Worker |-> IdleJob]
  /\ faults = 0

\* Worker w, at pc, starts or goes on with the job j.
At(w, pc) == job[w].pc = pc
Goto(w, j) == job' = [job EXCEPT ![w] = j]
Finished(w) == Goto(w, IdleJob)

\* Every update of the row moves updatedAt, and none moves createdAt.
Written(row) ==
  [row EXCEPT !.age = IF row.status = "PENDING_DEPOSIT" THEN row.age ELSE "young"]
Write(row) == escrow' = Written(row)

Remaining(row) == Deposit - row.consumed

\* The deployment was suspended or has ended, now or before it was revived.
Left == deployment \in {"SUSPENDED", "ENDED"}
HasLeft == Left \/ revived

\* The job goes on to what follows its stages.
Continue(w) == [IdleJob EXCEPT !.pc = job[w].then]

-----------------------------------------------------------------------------
(* createEscrow and reconcilePendingDeposits *)

\* Write-ahead: the row is inserted PENDING_DEPOSIT, unless there is one, then
\* the deposit is sent.  The caller read the deployment before it ended, if it
\* has: a pipeline step that goes on to activate it, or a resumption.
Create(w) ==
  /\ At(w, "idle")
  /\ escrow.status = "ABSENT"
  /\ Write([escrow EXCEPT !.status = "PENDING_DEPOSIT"])
  /\ depositSent' = TRUE
  /\ \E next \in {"activate", "idle"} :
       Goto(w, [IdleJob EXCEPT !.pc = "create", !.then = next])
  /\ UNCHANGED <<deployment, revived, deposited, credited, refundSent, faults>>

Orphaned == deployment \in {"ENDED", "CLOSE_FAILED"}

\* Mutant: the sweep leaves the rows of ended deployments alone.
SweepLiveDeposits(w) ==
  /\ At(w, "idle")
  /\ escrow.status = "PENDING_DEPOSIT"
  /\ escrow.age # "young"
  /\ ~Orphaned
  /\ depositSent' = TRUE
  /\ Goto(w, [IdleJob EXCEPT !.pc = "retry"])
  /\ UNCHANGED <<escrow, deployment, revived, deposited, credited, refundSent, faults>>

\* The sweep gives the row up if its deployment ended or it is too old, and
\* else retries the deposit.
SweepDeposit(w) ==
  /\ At(w, "idle")
  /\ escrow.status = "PENDING_DEPOSIT"
  /\ escrow.age # "young"
  /\ IF Orphaned \/ escrow.age = "old"
       THEN /\ Goto(w, [IdleJob EXCEPT !.pc = "fail"])
            /\ UNCHANGED depositSent
       ELSE /\ Goto(w, [IdleJob EXCEPT !.pc = "retry"])
            /\ depositSent' = TRUE
  /\ UNCHANGED <<escrow, deployment, revived, deposited, credited, refundSent, faults>>

DepositReply(w) ==
  /\ At(w, "create") \/ At(w, "retry")
  /\ deposited
  /\ Goto(w, [job[w] EXCEPT !.pc = "promote"])
  /\ UNCHANGED <<escrow, deployment, revived, wallet, faults>>

\* ACTIVE is written over whatever the row holds by now.
Promote(w) ==
  /\ At(w, "promote")
  /\ Write([escrow EXCEPT !.status = "ACTIVE"])
  /\ Goto(w, Continue(w))
  /\ UNCHANGED <<deployment, revived, wallet, faults>>

\* finalizeDeployment then writes ACTIVE over whatever the deployment is by
\* now: one that was closed, and perhaps refunded, meanwhile is revived.
Activate(w) ==
  /\ At(w, "activate")
  /\ deployment' = "ACTIVE"
  /\ revived' = HasLeft
  /\ Finished(w)
  /\ UNCHANGED <<escrow, wallet, faults>>

\* createEscrow gives the row up and throws; the sweep tries again later.
DepositError(w) ==
  /\ faults < MaxFaults
  /\ \/ At(w, "create") /\ Goto(w, [IdleJob EXCEPT !.pc = "fail"])
     \/ At(w, "retry") /\ Finished(w)
  /\ faults' = faults + 1
  /\ UNCHANGED <<escrow, deployment, revived, wallet>>

\* So is FAILED.
Fail(w) ==
  /\ At(w, "fail")
  /\ Write([escrow EXCEPT !.status = "FAILED"])
  /\ Finished(w)
  /\ UNCHANGED <<deployment, revived, wallet, faults>>

-----------------------------------------------------------------------------
(* processDailyConsumption, and settleAkashEscrowToTime before a pause or a *)
(* refund                                                                   *)

\* The cycle lists the active escrows with the status of their deployments.
Cycle(w) ==
  /\ At(w, "idle")
  /\ escrow.status = "ACTIVE"
  /\ deployment = "ACTIVE"
  /\ Goto(w, [IdleJob EXCEPT !.pc = "cycle"])
  /\ UNCHANGED <<escrow, deployment, revived, wallet, faults>>

\* processDailyConsumption reads the row again.
ConsumptionRead(w) ==
  /\ At(w, "cycle")
  /\ IF escrow.status = "ACTIVE"
       THEN Goto(w, [IdleJob EXCEPT !.pc = "charge", !.amount = escrow.consumed])
       ELSE Finished(w)
  /\ UNCHANGED <<escrow, deployment, revived, wallet, faults>>

Consume(w, c) ==
  /\ At(w, "charge")
  /\ LET newConsumed == job[w].amount + c
     IN  IF newConsumed > Deposit
           THEN Write([escrow EXCEPT !.consumed = Deposit, !.status = "DEPLETED"])
           ELSE Write([escrow EXCEPT !.consumed = newConsumed])
  /\ Finished(w)
  /\ UNCHANGED <<deployment, revived, wallet, faults>>

\* Refunded and paused rows, and windows that cost nothing, are not charged.
SettleRead(w) ==
  /\ At(w, "settle")
  /\ \/ Goto(w, Continue(w))
     \/ /\ escrow.status \notin {"ABSENT", "REFUNDED", "PAUSED"}
        /\ Goto(w, [job[w] EXCEPT !.pc = "settleWrite",
                                  !.amount = escrow.consumed])
  /\ UNCHANGED <<escrow, deployment, revived, wallet, faults>>

\* Mutant: the charge is not capped at the deposit.
SettleWriteUncapped(w, c) ==
  /\ At(w, "settleWrite")
  /\ Write([escrow EXCEPT !.consumed = job[w].amount + c])
  /\ Goto(w, Continue(w))
  /\ UNCHANGED <<deployment, revived, wallet, faults>>

SettleWrite(w, c) ==
  /\ At(w, "settleWrite")
  /\ Write([escrow EXCEPT !.consumed =
              IF job[w].amount + c > Deposit THEN Deposit ELSE job[w].amount + c])
  /\ Goto(w, Continue(w))
  /\ UNCHANGED <<deployment, revived, wallet, faults>>

-----------------------------------------------------------------------------
(* refundEscrow and reconcilePendingRefunds *)

Refundable == {"ACTIVE", "DEPLETED", "PAUSED"}

\* Mutant: a write-ahead row whose deposit may not have landed is refunded.
RefundReadUnsettled(w) ==
  /\ At(w, "refund")
  /\ IF escrow.status \in {"ABSENT", "REFUNDED"}
       THEN Goto(w, Continue(w))
       ELSE Goto(w, [job[w] EXCEPT !.pc = "credit", !.seen = escrow.status,
                                   !.amount = Remaining(escrow)])
  /\ refundSent' = refundSent \union {Remaining(escrow)}
  /\ UNCHANGED <<escrow, deployment, revived, deposited, credited, depositSent, faults>>

\* No row, a refunded row and a write-ahead row are skipped; a row with
\* nothing left is finished at once; any other must be claimed first.
RefundRead(w) ==
  /\ At(w, "refund")
  /\ IF escrow.status \in {"ABSENT", "REFUNDED", "PENDING_DEPOSIT", "FAILED"}
       THEN Goto(w, Continue(w))
       ELSE Goto(w, [job[w] EXCEPT
                       !.pc = IF Remaining(escrow) = 0 THEN "finish" ELSE "claim",
                       !.seen = escrow.status,
                       !.amount = Remaining(escrow)])
  /\ UNCHANGED <<escrow, deployment, revived, wallet, faults>>

\* The claim succeeds only from a refundable status, and the refund is sent.
Claim(w) ==
  /\ At(w, "claim")
  /\ escrow.status \in Refundable
  /\ Write([escrow EXCEPT !.status = "REFUNDING"])
  /\ refundSent' = refundSent \union {job[w].amount}
  /\ Goto(w, [job[w] EXCEPT !.pc = "credit"])
  /\ UNCHANGED <<deployment, revived, deposited, credited, depositSent, faults>>

ClaimLost(w) ==
  /\ At(w, "claim")
  /\ escrow.status \notin Refundable
  /\ Goto(w, Continue(w))
  /\ UNCHANGED <<escrow, deployment, revived, wallet, faults>>

\* The sweep computes the refund from the row it read.
SweepRefund(w) ==
  /\ At(w, "idle")
  /\ escrow.status = "REFUNDING"
  /\ escrow.age # "young"
  /\ IF Remaining(escrow) = 0
       THEN /\ Goto(w, [IdleJob EXCEPT !.pc = "finish"])
            /\ UNCHANGED refundSent
       ELSE /\ Goto(w, [IdleJob EXCEPT !.pc = "recredit",
                                       !.amount = Remaining(escrow)])
            /\ refundSent' = refundSent \union {Remaining(escrow)}
  /\ UNCHANGED <<escrow, deployment, revived, deposited, credited, depositSent, faults>>

RefundReply(w) ==
  /\ At(w, "credit") \/ At(w, "recredit")
  /\ credited # 0
  /\ Goto(w, [job[w] EXCEPT !.pc = "finish"])
  /\ UNCHANGED <<escrow, deployment, revived, wallet, faults>>

\* Mutant: the row is finished although the refund failed.
RefundErrorIgnored(w) ==
  /\ faults < MaxFaults
  /\ At(w, "credit") \/ At(w, "recredit")
  /\ Goto(w, [job[w] EXCEPT !.pc = "finish"])
  /\ faults' = faults + 1
  /\ UNCHANGED <<escrow, deployment, revived, wallet>>

\* The claimant rolls its claim back; the sweep tries again later.
RefundError(w) ==
  /\ faults < MaxFaults
  /\ \/ At(w, "credit") /\ Goto(w, [job[w] EXCEPT !.pc = "rollback"])
     \/ At(w, "recredit") /\ Finished(w)
  /\ faults' = faults + 1
  /\ UNCHANGED <<escrow, deployment, revived, wallet>>

\* The rollback restores the status the claimant read, if its claim still
\* stands, and refundEscrow throws: the job ends there.
Rollback(w) ==
  /\ At(w, "rollback")
  /\ IF escrow.status = "REFUNDING"
       THEN Write([escrow EXCEPT !.status = job[w].seen])
       ELSE UNCHANGED escrow
  /\ Finished(w)
  /\ UNCHANGED <<deployment, revived, wallet, faults>>

\* REFUNDED is written over whatever the row holds by now.
Finish(w) ==
  /\ At(w, "finish")
  /\ Write([escrow EXCEPT !.status = "REFUNDED", !.refunded = job[w].amount])
  /\ Goto(w, Continue(w))
  /\ UNCHANGED <<deployment, revived, wallet, faults>>

-----------------------------------------------------------------------------
(* The jobs that end, suspend or resume a deployment *)

\* A handler closes the lease.  It refuses a CLOSED deployment, but not a FAILED
\* one, which ENDED does not tell apart.
Close(w) ==
  /\ At(w, "idle")
  /\ Goto(w, [IdleJob EXCEPT !.pc = "close",
                !.then = IF deployment = "SUSPENDED" THEN "idle" ELSE "refund"])
  /\ UNCHANGED <<escrow, deployment, revived, wallet, faults>>

\* CLOSED is written unconditionally; a deployment read as SUSPENDED was
\* settled when it was suspended and is only refunded.
MarkClosed(w) ==
  /\ At(w, "close")
  /\ deployment' = "ENDED"
  /\ Goto(w, [job[w] EXCEPT
                !.pc = IF job[w].then = "refund" THEN "settle" ELSE "refund"])
  /\ UNCHANGED <<escrow, revived, wallet, faults>>

\* The deployment fails, or the escrow monitor closes what is left of it, or
\* its close fails on chain: nothing is refunded.
DeploymentFails ==
  /\ \/ deployment # "ENDED" /\ deployment' = "ENDED"
     \/ deployment \in {"DEPLOYING", "ACTIVE"} /\ deployment' = "CLOSE_FAILED"
  /\ UNCHANGED <<escrow, revived, wallet, job, faults>>

\* Mutant: the sweep takes any active or depleted escrow for an orphan.
SweepAnyEscrow(w) ==
  /\ At(w, "idle")
  /\ escrow.status \in {"ACTIVE", "DEPLETED"}
  /\ Goto(w, [IdleJob EXCEPT !.pc = "settle", !.then = "refund"])
  /\ UNCHANGED <<escrow, deployment, revived, wallet, faults>>

\* Mutant: the sweep forgets depleted escrows.
SweepActiveOrphan(w) ==
  /\ At(w, "idle")
  /\ escrow.status = "ACTIVE"
  /\ deployment = "ENDED"
  /\ Goto(w, [IdleJob EXCEPT !.pc = "settle", !.then = "refund"])
  /\ UNCHANGED <<escrow, deployment, revived, wallet, faults>>

\* reconcileOrphanedEscrows settles and refunds what an ended deployment left.
SweepOrphan(w) ==
  /\ At(w, "idle")
  /\ escrow.status \in {"ACTIVE", "DEPLETED"}
  /\ deployment = "ENDED"
  /\ Goto(w, [IdleJob EXCEPT !.pc = "settle", !.then = "refund"])
  /\ UNCHANGED <<escrow, deployment, revived, wallet, faults>>

\* The billing scheduler suspends a deployment that is still ACTIVE.
SchedulerSuspend(w) ==
  /\ At(w, "idle")
  /\ deployment = "ACTIVE"
  /\ deployment' = "SUSPENDED"
  /\ IF escrow.status = "ABSENT" THEN Finished(w)
     ELSE Goto(w, [IdleJob EXCEPT !.pc = "settle", !.then = "pause"])
  /\ UNCHANGED <<escrow, revived, wallet, faults>>

\* The suspension webhook reads the deployment and its escrow, closes the
\* lease, and writes SUSPENDED over whatever the deployment is by then.
WebhookSuspend(w) ==
  /\ At(w, "idle")
  /\ deployment = "ACTIVE"
  /\ Goto(w, [IdleJob EXCEPT !.pc = "suspend", !.seen = escrow.status])
  /\ UNCHANGED <<escrow, deployment, revived, wallet, faults>>

MarkSuspended(w) ==
  /\ At(w, "suspend")
  /\ deployment' = "SUSPENDED"
  /\ IF job[w].seen = "ACTIVE"
       THEN Goto(w, [IdleJob EXCEPT !.pc = "settle", !.then = "pause"])
       ELSE Finished(w)
  /\ UNCHANGED <<escrow, revived, wallet, faults>>

Pause(w) ==
  /\ At(w, "pause")
  /\ IF escrow.status \in {"ACTIVE", "DEPLETED"}
       THEN Write([escrow EXCEPT !.status = "PAUSED"])
       ELSE UNCHANGED escrow
  /\ Finished(w)
  /\ UNCHANGED <<deployment, revived, wallet, faults>>

\* The resumption takes up paused escrows, whatever became of their deployments.
\* After the redeployment the old escrow is refunded, then the old deployment
\* is marked CLOSED; a refund that throws skips the latter.
Resume(w) ==
  /\ At(w, "idle")
  /\ escrow.status = "PAUSED"
  /\ Goto(w, [IdleJob EXCEPT !.pc = "refund", !.then = "end"])
  /\ UNCHANGED <<escrow, deployment, revived, wallet, faults>>

End(w) ==
  /\ At(w, "end")
  /\ deployment' = "ENDED"
  /\ Finished(w)
  /\ UNCHANGED <<escrow, revived, wallet, faults>>

-----------------------------------------------------------------------------
(* Environment *)

\* External: the auth service performs the deposit, and the first refund that
\* reaches it.
AuthDeposit ==
  /\ depositSent
  /\ ~deposited
  /\ deposited' = TRUE
  /\ UNCHANGED <<escrow, deployment, revived, credited, depositSent, refundSent, job,
                 faults>>

AuthRefund(a) ==
  /\ a \in refundSent
  /\ credited = 0
  /\ credited' = a
  /\ UNCHANGED <<escrow, deployment, revived, deposited, depositSent, refundSent, job,
                 faults>>

\* The process running the job dies, or a database call of the job throws.
Crash(w) ==
  /\ faults < MaxFaults
  /\ ~At(w, "idle")
  /\ Finished(w)
  /\ faults' = faults + 1
  /\ UNCHANGED <<escrow, deployment, revived, wallet>>

Older(age) == IF age = "young" THEN "due" ELSE "old"

\* Minutes pass, as far as a sweep looks at the age.
Tick ==
  /\ escrow.status \in {"PENDING_DEPOSIT", "REFUNDING"}
  /\ escrow' = [escrow EXCEPT !.age = Older(@)]
  /\ escrow' # escrow
  /\ UNCHANGED <<deployment, revived, wallet, job, faults>>

Step(w) ==
  \/ DepositReply(w) \/ Promote(w) \/ Activate(w) \/ DepositError(w) \/ Fail(w)
  \/ ConsumptionRead(w) \/ SettleRead(w)
  \/ \E c \in Charge : Consume(w, c) \/ SettleWrite(w, c)
  \/ RefundRead(w) \/ Claim(w) \/ ClaimLost(w) \/ RefundReply(w)
  \/ RefundError(w) \/ Rollback(w) \/ Finish(w)
  \/ MarkClosed(w) \/ MarkSuspended(w) \/ Pause(w) \/ End(w)

Start(w) ==
  \/ Create(w) \/ Cycle(w) \/ Close(w) \/ Resume(w)
  \/ SchedulerSuspend(w) \/ WebhookSuspend(w)
  \/ SweepDeposit(w) \/ SweepRefund(w) \/ SweepOrphan(w)

Next ==
  \/ \E w \in Worker : Start(w) \/ Step(w) \/ Crash(w)
  \/ AuthDeposit
  \/ \E a \in 1..Deposit : AuthRefund(a)
  \/ DeploymentFails
  \/ Tick

Spec == Init /\ [][Next]_vars

\* Jobs under way go on, the auth service serves the requests somebody waits
\* for, time passes, and the schedulers keep starting the three sweeps (strong
\* fairness: in the model a sweep has to wait for a free worker, in a Node
\* process it does not).
Waiting(pcs) == \E w \in Worker : job[w].pc \in pcs

Fairness ==
  /\ WF_vars(Tick)
  /\ WF_vars(\/ Waiting({"create", "retry"}) /\ AuthDeposit
             \/ Waiting({"credit", "recredit"}) /\ \E a \in 1..Deposit : AuthRefund(a))
  /\ \A w \in Worker : WF_vars(Step(w))
  /\ SF_vars(\E w \in Worker : SweepDeposit(w))
  /\ SF_vars(\E w \in Worker : SweepRefund(w))
  /\ SF_vars(\E w \in Worker : SweepOrphan(w))

FairSpec == Spec /\ Fairness

-----------------------------------------------------------------------------
(* Properties *)

TypeOK ==
  /\ escrow \in Row
  /\ deployment \in DeploymentStatus
  /\ revived \in BOOLEAN
  /\ deposited \in BOOLEAN
  /\ credited \in 0..Deposit
  /\ depositSent \in BOOLEAN
  /\ refundSent \subseteq 1..Deposit
  /\ job \in [Worker -> Job]
  /\ faults \in 0..MaxFaults

\* The wallet gets money back only after the deposit was taken from it,
\* whatever order the deposit reconciler, the creator and the closing handlers
\* write their statuses in.
CreditedAfterDeposit == credited # 0 => deposited

\* A row that records a refund stands for a credit the auth service made, even
\* after a lost answer, a crash, or a second claimant.
RecordedRefundWasMade == escrow.refunded # 0 => credited # 0

\* No refund while the deployment runs or its chain close is unresolved, unless
\* an activation under way revived it: every path to refundEscrow goes through
\* a deployment that was ended or suspended, whoever else closes, suspends,
\* resumes or sweeps it.
NoRefundWhileLive == credited # 0 => HasLeft

\* The escrow implements EscrowContract: the deposit is announced by the row, taken
\* once, asked back after the deployment has left once, and paid out and recorded in that
\* order, whatever the jobs overwrite.
Contract == INSTANCE EscrowContract
              WITH opened <- escrow.status # "ABSENT", funded <- deposited, left <- HasLeft,
                   asked <- refundSent, returned <- credited, recorded <- escrow.refunded
ImplementsContract == Contract!Spec

\* No row stays in the write-ahead state of the deposit.
DepositIsResolved ==
  escrow.status = "PENDING_DEPOSIT" ~> escrow.status # "PENDING_DEPOSIT"

\* The sweeps drain the escrow of an ended deployment: it reaches REFUNDED,
\* unless it falls into one of the two states no sweep looks at, or a late
\* suspension or activation is written over the ended deployment.
EndedIsDrained ==
  deployment = "ENDED" /\ escrow.status \in {"ACTIVE", "DEPLETED", "REFUNDING"}
    ~> \/ escrow.status \in {"REFUNDED", "PAUSED", "FAILED"}
       \/ deployment # "ENDED"

\* What createEscrow promises: a row is FAILED only if the deposit will never
\* complete.
FailedWasNotDeposited == escrow.status = "FAILED" => ~deposited

\* What the rollback promises: a refund that failed is picked up again by the
\* reconciler, so an ended deployment does not keep a paused escrow.
PausedIsRefunded ==
  deployment = "ENDED" /\ escrow.status = "PAUSED" ~> escrow.status = "REFUNDED"

\* What activation means to do: a deployment that runs has an escrow to charge.
RunningIsFunded == deployment = "ACTIVE" => escrow.status \notin {"REFUNDING", "REFUNDED"}
=============================================================================

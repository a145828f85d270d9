----------------------------- MODULE EscrowProofs -----------------------------
(***************************************************************************)
(* The safety of one escrow, for any number of jobs, any deposit, charges  *)
(* and faults.                                                             *)
(*                                                                         *)
(* The argument: that the deposit was taken, that the deployment was ended *)
(* or suspended and that a refund was made are facts which no step undoes: *)
(* an activation that revives the deployment leaves behind that it did.    *)
(* So it is enough that each job, by the stage it has reached, and the     *)
(* row, by its status, vouch for the facts they rest on.                   *)
(*                                                                         *)
(* With that, the escrow implements EscrowContract: a step of a job is at  *)
(* most one step of the contract, once it is known that a row is there     *)
(* before its deposit is, and that what a job is to record was asked for.  *)
(***************************************************************************)
EXTENDS Escrow, TLAPS

Paying == {"claim", "credit", "recredit", "rollback", "finish"}

\* What a job j at its stage relies on: d, the deposit was taken; l, the
\* deployment has left; c, what was credited.
Vouches(j, d, l, c) ==
  /\ j.pc \in Paying \union {"promote", "charge"} => d
  /\ j.pc \in Paying \union {"settle", "settleWrite", "pause", "refund", "end"} => l
  /\ j.pc \in {"create", "retry", "promote"} => j.then \in {"idle", "activate"}
  /\ j.pc = "claim" => j.amount # 0
  /\ j.pc = "finish" /\ j.amount # 0 => c # 0

JobsVouch == \A w \in Worker : Vouches(job[w], deposited, HasLeft, credited)

RowVouches ==
  /\ escrow.status \in Refundable \union {"REFUNDING", "REFUNDED"} => deposited
  /\ escrow.status \in {"PAUSED", "REFUNDING"} => HasLeft
  /\ escrow.refunded # 0 => credited # 0

RefundsVouch == refundSent # {} \/ credited # 0 => deposited /\ HasLeft

IInv == TypeOK /\ JobsVouch /\ RowVouches /\ RefundsVouch

\* Part of a deposit: none of it, and what the row has left of it.
LEMMA Parts ==
  /\ 0 \in 0..Deposit
  /\ escrow \in Row => Remaining(escrow) \in 0..Deposit
BY EscrowAssumption DEF Row, Remaining

\* Writing a row moves its age only.
LEMMA Writes ==
  ASSUME NEW r \in Row
  PROVE  /\ Written(r) \in Row
         /\ Written(r).status = r.status /\ Written(r).refunded = r.refunded
BY DEF Written, Row

LEMMA RowWrites ==
  ASSUME escrow \in Row
  PROVE  /\ \A st : Write([escrow EXCEPT !.status = st]) =>
                   escrow'.status = st /\ escrow'.refunded = escrow.refunded
         /\ \A n : Write([escrow EXCEPT !.consumed = n]) =>
                  escrow'.status = escrow.status /\ escrow'.refunded = escrow.refunded
         /\ \A n, st : Write([escrow EXCEPT !.consumed = n, !.status = st]) =>
                      escrow'.status = st /\ escrow'.refunded = escrow.refunded
         /\ \A st, a : Write([escrow EXCEPT !.status = st, !.refunded = a]) =>
                      escrow'.status = st /\ escrow'.refunded = a
BY DEF Write, Written, Row

\* A job that is idle is a job, whatever stage it starts at or goes on to, and
\* an idle job relies on nothing.
LEMMA Idle ==
  /\ IdleJob \in Job
  /\ IdleJob.pc = "idle"
  /\ IdleJob.amount = 0
  /\ \A d, l, c : Vouches(IdleJob, d, l, c)
<1>1. IdleJob \in Job
  BY Parts DEF IdleJob, Job, Status
<1>2. IdleJob.pc = "idle" /\ IdleJob.amount = 0
  BY DEF IdleJob
<1>3. ASSUME NEW d, NEW l, NEW c PROVE Vouches(IdleJob, d, l, c)
  BY <1>2 DEF Vouches, Paying
<1> QED
  BY <1>1, <1>2, <1>3

\* Before createEscrow there is no row, no job and no request.
LEMMA InitIInv == Init => IInv
<1> SUFFICES ASSUME Init PROVE IInv
  OBVIOUS
<1>1. escrow \in Row /\ escrow.status = "ABSENT" /\ escrow.refunded = 0
  BY Parts DEF Init, Row, Status
<1>2. \A w \in Worker : job[w] = IdleJob
  BY DEF Init
<1>3. job \in [Worker -> Job]
  BY Idle DEF Init
<1>4. deposited = FALSE /\ credited = 0 /\ depositSent = FALSE /\ refundSent = {}
      /\ faults = 0 /\ deployment = "DEPLOYING" /\ revived = FALSE
  BY DEF Init
<1>5. TypeOK
  <2>1. credited \in 0..Deposit /\ refundSent \subseteq 1..Deposit
    BY <1>4, Parts
  <2>2. faults \in 0..MaxFaults
    BY <1>4, EscrowAssumption
  <2> QED
    BY <1>1, <1>3, <1>4, <2>1, <2>2 DEF TypeOK, DeploymentStatus
<1>6. JobsVouch
  BY <1>2, Idle DEF JobsVouch
<1>7. RowVouches /\ RefundsVouch
  BY <1>1, <1>4 DEF RowVouches, RefundsVouch, Refundable
<1> QED
  BY <1>5, <1>6, <1>7 DEF IInv

\* What a step keeps: the facts that the jobs rest on.
Kept ==
  /\ deposited => deposited'
  /\ HasLeft => HasLeft'
  /\ credited # 0 => credited' # 0

\* One job moves on, to a stage that it may reach.
LEMMA JobMoves ==
  ASSUME IInv, Kept, NEW w \in Worker, NEW j \in Job, Goto(w, j),
         Vouches(j, deposited', HasLeft', credited')
  PROVE  job' \in [Worker -> Job] /\ JobsVouch'
<1>1. job' = [job EXCEPT ![w] = j] /\ job \in [Worker -> Job]
  BY DEF Goto, IInv, TypeOK
<1>2. ASSUME NEW v \in Worker PROVE Vouches(job'[v], deposited', HasLeft', credited')
  <2>1. CASE v = w
    BY <1>1, <2>1
  <2>2. CASE v # w
    <3>1. job'[v] = job[v] /\ Vouches(job[v], deposited, HasLeft, credited)
      BY <1>1, <2>2 DEF IInv, JobsVouch
    <3> QED
      BY <3>1 DEF Kept, Vouches
  <2> QED
    BY <2>1, <2>2
<1> QED
  BY <1>1, <1>2 DEF JobsVouch

\* ... and writes nothing.
LEMMA JobOnly ==
  ASSUME IInv, NEW w \in Worker, NEW j \in Job, Goto(w, j),
         UNCHANGED <<escrow, deployment, revived, wallet>>, faults' \in 0..MaxFaults,
         Vouches(j, deposited, HasLeft, credited)
  PROVE  IInv'
<1>1. Kept /\ HasLeft' = HasLeft
  BY DEF Kept, HasLeft, Left, wallet
<1>2. Vouches(j, deposited', HasLeft', credited')
  BY <1>1 DEF wallet
<1>3. job' \in [Worker -> Job] /\ JobsVouch'
  BY <1>1, <1>2, JobMoves
<1> QED
  BY <1>1, <1>3 DEF IInv, TypeOK, RowVouches, RefundsVouch, wallet

\* ... and writes the row.
LEMMA JobWrites ==
  ASSUME IInv, NEW w \in Worker, NEW j \in Job, Goto(w, j),
         NEW r \in Row, escrow' = r,
         r.status \in Refundable \union {"REFUNDING", "REFUNDED"} => deposited,
         r.status \in {"PAUSED", "REFUNDING"} => HasLeft,
         r.refunded # 0 => credited # 0,
         UNCHANGED <<deployment, revived, deposited, credited, depositSent, faults>>,
         refundSent' \subseteq 1..Deposit,
         refundSent' # refundSent => deposited /\ HasLeft,
         Vouches(j, deposited, HasLeft, credited)
  PROVE  IInv'
<1>1. Kept /\ HasLeft' = HasLeft
  BY DEF Kept, HasLeft, Left
<1>2. Vouches(j, deposited', HasLeft', credited')
  BY <1>1
<1>3. job' \in [Worker -> Job] /\ JobsVouch'
  BY <1>1, <1>2, JobMoves
<1>4. TypeOK'
  BY <1>3 DEF IInv, TypeOK
<1>5. RowVouches' /\ RefundsVouch'
  BY <1>1 DEF IInv, RowVouches, RefundsVouch
<1> QED
  BY <1>3, <1>4, <1>5 DEF IInv

\* ... and moves the deployment on.
LEMMA JobMovesDeployment ==
  ASSUME IInv, NEW w \in Worker, NEW j \in Job, Goto(w, j),
         UNCHANGED <<escrow, revived, wallet, faults>>, deployment' \in {"SUSPENDED", "ENDED"},
         Vouches(j, deposited, TRUE, credited)
  PROVE  IInv'
<1>1. Kept /\ HasLeft'
  BY DEF Kept, HasLeft, Left, wallet
<1>2. Vouches(j, deposited', HasLeft', credited')
  BY <1>1 DEF wallet, Vouches
<1>3. job' \in [Worker -> Job] /\ JobsVouch'
  BY <1>1, <1>2, JobMoves
<1>4. TypeOK'
  BY <1>3 DEF IInv, TypeOK, wallet, DeploymentStatus
<1>5. RowVouches' /\ RefundsVouch'
  BY <1>1 DEF IInv, RowVouches, RefundsVouch, wallet
<1> QED
  BY <1>3, <1>4, <1>5 DEF IInv

\* What follows a settlement or a refund may follow once the deployment left.
LEMMA Continued ==
  ASSUME NEW w \in Worker, job[w] \in Job, NEW d, NEW c
  PROVE  Continue(w) \in Job /\ Vouches(Continue(w), d, TRUE, c)
<1>1. job[w].then \in {"idle", "activate", "refund", "pause", "end"}
  BY DEF Job
<1>2. Continue(w) \in Job /\ Continue(w).pc = job[w].then
  BY <1>1, Idle DEF Continue, Job
<1> QED
  BY <1>1, <1>2 DEF Vouches, Paying

\* What every step of a job may use.
LEMMA JobFacts ==
  ASSUME IInv, NEW w \in Worker
  PROVE  /\ job[w] \in Job /\ Vouches(job[w], deposited, HasLeft, credited)
         /\ HasLeft => Continue(w) \in Job /\ Vouches(Continue(w), deposited, HasLeft, credited)
         /\ escrow.status \in Status /\ escrow.consumed \in 0..Deposit
         /\ Remaining(escrow) \in 0..Deposit
         /\ faults \in 0..MaxFaults
         /\ faults < MaxFaults => faults + 1 \in 0..MaxFaults
<1>1. job[w] \in Job /\ Vouches(job[w], deposited, HasLeft, credited)
  BY DEF IInv, TypeOK, JobsVouch
<1>2. HasLeft => Continue(w) \in Job /\ Vouches(Continue(w), deposited, HasLeft, credited)
  <2>1. ASSUME HasLeft PROVE HasLeft = TRUE
    BY <2>1 DEF HasLeft, Left
  <2> QED
    BY <1>1, <2>1, Continued
<1>3. escrow.status \in Status /\ escrow.consumed \in 0..Deposit
      /\ Remaining(escrow) \in 0..Deposit
  BY Parts DEF IInv, TypeOK, Row
<1>4. faults \in 0..MaxFaults /\ (faults < MaxFaults => faults + 1 \in 0..MaxFaults)
  BY EscrowAssumption DEF IInv, TypeOK
<1> QED
  BY <1>1, <1>2, <1>3, <1>4

\* A job that stops, or that dies, keeps the invariant.
LEMMA Stops ==
  ASSUME IInv, NEW w \in Worker, Finished(w), UNCHANGED <<escrow, deployment, revived, wallet>>,
         faults' \in 0..MaxFaults
  PROVE  IInv'
BY Idle, JobOnly DEF Finished

\* The deposit: the answer promotes the row only once the wallet was debited.
LEMMA DepositKeepsIInv ==
  ASSUME IInv, NEW w \in Worker, DepositReply(w) \/ DepositError(w) \/ Promote(w) \/ Fail(w)
  PROVE  IInv'
<1>1. CASE DepositReply(w)
  <2> DEFINE j == [job[w] EXCEPT !.pc = "promote"]
  <2>1. j \in Job /\ j.pc = "promote" /\ j.then = job[w].then
    BY JobFacts DEF Job
  <2>2. Vouches(j, deposited, HasLeft, credited)
    <3>1. deposited /\ job[w].then \in {"idle", "activate"}
      BY <1>1, JobFacts DEF DepositReply, At, Vouches
    <3> HIDE DEF j
    <3> QED
      BY <2>1, <3>1 DEF Vouches, Paying
  <2> HIDE DEF j
  <2>3. Goto(w, j)
    BY <1>1 DEF DepositReply, j
  <2> QED
    BY <1>1, <2>1, <2>2, <2>3, JobOnly, JobFacts DEF DepositReply
<1>2. CASE DepositError(w)
  <2>1. UNCHANGED <<escrow, deployment, revived, wallet>> /\ faults' \in 0..MaxFaults
    BY <1>2, JobFacts DEF DepositError
  <2>2. CASE Finished(w)
    BY <2>1, <2>2, Stops
  <2>3. CASE Goto(w, [IdleJob EXCEPT !.pc = "fail"])
    <3> DEFINE j == [IdleJob EXCEPT !.pc = "fail"]
    <3>1. j \in Job /\ j.pc = "fail"
      BY Idle DEF Job
    <3>2. Vouches(j, deposited, HasLeft, credited)
      BY <3>1 DEF Vouches, Paying
    <3> HIDE DEF j
    <3>3. Goto(w, j)
      BY <2>3 DEF j
    <3> QED
      BY <2>1, <3>1, <3>2, <3>3, JobOnly
  <2> QED
    BY <1>2, <2>2, <2>3 DEF DepositError
<1>3. CASE Promote(w) \/ Fail(w)
  <2>1. ASSUME NEW st \in {"ACTIVE", "FAILED"}, escrow' = Written([escrow EXCEPT !.status = st]),
               st = "ACTIVE" => deposited,
               NEW j \in Job, Goto(w, j), Vouches(j, deposited, HasLeft, credited)
        PROVE  IInv'
    <3> DEFINE q == [escrow EXCEPT !.status = st]
               r == Written(q)
    <3>1. escrow \in Row /\ (escrow.refunded # 0 => credited # 0)
      BY DEF IInv, TypeOK, RowVouches
    <3>2. q \in Row /\ q.status = st /\ q.refunded = escrow.refunded
      BY <3>1 DEF Row, Status
    <3>3. escrow' = r
      BY <2>1
    <3> HIDE DEF q
    <3>4. r \in Row /\ r.status = st /\ r.refunded = escrow.refunded
      BY <3>2, Writes
    <3> HIDE DEF r
    <3>5. UNCHANGED <<deployment, revived, wallet, faults>>
      BY <1>3 DEF Promote, Fail
    <3> QED
      BY <2>1, <3>1, <3>3, <3>4, <3>5, JobWrites DEF wallet, IInv, TypeOK, Refundable
  <2>2. CASE Promote(w)
    <3>1. deposited /\ job[w] \in Job /\ job[w].then \in {"idle", "activate"}
      BY <2>2, JobFacts DEF Promote, At, Vouches
    <3>2. Continue(w) \in Job /\ Vouches(Continue(w), deposited, HasLeft, credited)
      <4>1. Continue(w) \in Job /\ Continue(w).pc = job[w].then
        BY <3>1, Idle DEF Continue, Job
      <4> QED
        BY <3>1, <4>1 DEF Vouches, Paying
    <3> QED
      BY <2>1, <2>2, <3>1, <3>2 DEF Promote, Write
  <2>3. CASE Fail(w)
    BY <2>1, <2>3, Idle DEF Fail, Write, Finished
  <2> QED
    BY <1>3, <2>2, <2>3
<1> QED
  BY <1>1, <1>2, <1>3

\* Consumption: the cycle charges a row that was ACTIVE, a settlement runs for
\* a deployment that has left,
LEMMA ReadsKeepIInv ==
  ASSUME IInv, NEW w \in Worker, ConsumptionRead(w) \/ SettleRead(w)
  PROVE  IInv'
<1>1. CASE ConsumptionRead(w)
  <2>1. UNCHANGED <<escrow, deployment, revived, wallet>> /\ faults' \in 0..MaxFaults
    BY <1>1, JobFacts DEF ConsumptionRead
  <2>2. CASE Finished(w)
    BY <2>1, <2>2, Stops
  <2>3. CASE /\ escrow.status = "ACTIVE"
             /\ Goto(w, [IdleJob EXCEPT !.pc = "charge", !.amount = escrow.consumed])
    <3> DEFINE j == [IdleJob EXCEPT !.pc = "charge", !.amount = escrow.consumed]
    <3>1. j \in Job /\ j.pc = "charge"
      <4>1. escrow.consumed \in 0..Deposit /\ IdleJob \in Job
        BY Idle, JobFacts
      <4> QED
        BY <4>1 DEF Job
    <3>2. Vouches(j, deposited, HasLeft, credited)
      BY <2>3, <3>1 DEF Vouches, Paying, IInv, RowVouches, Refundable
    <3> HIDE DEF j
    <3>3. Goto(w, j)
      BY <2>3 DEF j
    <3> QED
      BY <2>1, <3>1, <3>2, <3>3, JobOnly
  <2> QED
    BY <1>1, <2>2, <2>3 DEF ConsumptionRead
<1>2. CASE SettleRead(w)
  <2>1. UNCHANGED <<escrow, deployment, revived, wallet>> /\ faults' \in 0..MaxFaults /\ HasLeft
    BY <1>2, JobFacts DEF SettleRead, At, Vouches
  <2>2. CASE Goto(w, Continue(w))
    BY <2>1, <2>2, JobFacts, JobOnly
  <2>3. CASE Goto(w, [job[w] EXCEPT !.pc = "settleWrite", !.amount = escrow.consumed])
    <3> DEFINE j == [job[w] EXCEPT !.pc = "settleWrite", !.amount = escrow.consumed]
    <3>1. j \in Job /\ j.pc = "settleWrite"
      <4>1. escrow.consumed \in 0..Deposit /\ job[w] \in Job
        BY Idle, JobFacts
      <4> QED
        BY <4>1 DEF Job
    <3>2. Vouches(j, deposited, HasLeft, credited)
      BY <2>1, <3>1 DEF Vouches, Paying
    <3> HIDE DEF j
    <3>3. Goto(w, j)
      BY <2>3 DEF j
    <3> QED
      BY <2>1, <3>1, <3>2, <3>3, JobOnly
  <2> QED
    BY <1>2, <2>2, <2>3 DEF SettleRead
<1> QED
  BY <1>1, <1>2

\* and what either writes stays within the deposit.
LEMMA ConsumptionKeepsIInv ==
  ASSUME IInv, NEW w \in Worker, NEW c \in Charge, Consume(w, c) \/ SettleWrite(w, c)
  PROVE  IInv'
<1>1. escrow \in Row /\ job[w].amount \in 0..Deposit /\ c \in Nat /\ Deposit \in Nat
  BY JobFacts, EscrowAssumption DEF IInv, TypeOK, Job
<1>2. ASSUME NEW r, escrow' = r, r \in Row, r.refunded = escrow.refunded,
             r.status = escrow.status \/ (r.status = "DEPLETED" /\ deposited),
             NEW j \in Job, Goto(w, j), Vouches(j, deposited, HasLeft, credited)
      PROVE  IInv'
  <2>1. UNCHANGED <<deployment, revived, wallet, faults>>
    BY DEF Consume, SettleWrite
  <2>2. /\ r.status \in Refundable \union {"REFUNDING", "REFUNDED"} => deposited
        /\ r.status \in {"PAUSED", "REFUNDING"} => HasLeft
        /\ r.refunded # 0 => credited # 0
    BY <1>2 DEF IInv, RowVouches
  <2> QED
    BY <1>2, <2>1, <2>2, JobWrites DEF wallet, IInv, TypeOK
<1>3. CASE Consume(w, c)
  <2> DEFINE n == job[w].amount + c
             rest == [escrow EXCEPT !.consumed = Deposit, !.status = "DEPLETED"]
             more == [escrow EXCEPT !.consumed = n]
             full == Written(rest)
             part == Written(more)
  <2>1. deposited /\ Goto(w, IdleJob)
    BY <1>3, JobFacts DEF Consume, Finished, At, Vouches
  <2>2. full \in Row /\ full.refunded = escrow.refunded /\ full.status = "DEPLETED"
    <3>1. Deposit \in 0..Deposit
      BY <1>1
    <3>2. rest \in Row /\ rest.refunded = escrow.refunded /\ rest.status = "DEPLETED"
      BY <1>1, <3>1 DEF Row, Status
    <3> HIDE DEF rest
    <3> QED
      BY <3>2, Writes
  <2>3. n <= Deposit => part \in Row /\ part.refunded = escrow.refunded
                        /\ part.status = escrow.status
    <3>1. n <= Deposit => n \in 0..Deposit
      BY <1>1
    <3> HIDE DEF n
    <3>2. n <= Deposit => more \in Row /\ more.refunded = escrow.refunded
                          /\ more.status = escrow.status
      BY <1>1, <3>1 DEF Row
    <3> HIDE DEF more
    <3> QED
      BY <3>2, Writes
  <2>4. escrow' = full \/ (n <= Deposit /\ escrow' = part)
    <3>1. n \in Nat /\ (~(n > Deposit) => n <= Deposit)
      BY <1>1
    <3>2. n > Deposit => escrow' = full
      BY <1>3 DEF Consume, Write
    <3>3. ~(n > Deposit) => escrow' = part
      BY <1>3 DEF Consume, Write
    <3> QED
      BY <3>1, <3>2, <3>3
  <2> HIDE DEF full, part, n
  <2> QED
    BY <1>2, <2>1, <2>2, <2>3, <2>4, Idle
<1>4. CASE SettleWrite(w, c)
  <2> DEFINE n == IF job[w].amount + c > Deposit THEN Deposit ELSE job[w].amount + c
             q == [escrow EXCEPT !.consumed = n]
             r == Written(q)
  <2>1. HasLeft /\ Goto(w, Continue(w)) /\ escrow' = r
    BY <1>4, JobFacts DEF SettleWrite, At, Vouches, Write
  <2>2. n \in 0..Deposit
    BY <1>1
  <2>3. r \in Row /\ r.refunded = escrow.refunded /\ r.status = escrow.status
    <3> HIDE DEF n
    <3>1. q \in Row /\ q.refunded = escrow.refunded /\ q.status = escrow.status
      BY <1>1, <2>2 DEF Row
    <3> HIDE DEF q
    <3> QED
      BY <3>1, Writes
  <2> HIDE DEF r
  <2> QED
    BY <1>2, <2>1, <2>3, JobFacts
<1> QED
  BY <1>3, <1>4

\* The jobs that only read as they start: the cycle, the closing handlers, the
\* resumption, the webhook and the sweep of orphans.
LEMMA StartersKeepIInv ==
  ASSUME IInv, NEW w \in Worker,
         Cycle(w) \/ Close(w) \/ Resume(w) \/ WebhookSuspend(w) \/ SweepOrphan(w)
  PROVE  IInv'
<1>1. CASE Cycle(w)
  <2> DEFINE j == [IdleJob EXCEPT !.pc = "cycle"]
  <2>1. j \in Job /\ j.pc = "cycle"
    BY Idle, JobFacts DEF Job
  <2>2. Vouches(j, deposited, HasLeft, credited)
    BY <1>1, <2>1 DEF Vouches, Paying
  <2> HIDE DEF j
  <2>3. Goto(w, j)
    BY <1>1 DEF Cycle, j
  <2> QED
    BY <1>1, <2>1, <2>2, <2>3, JobOnly, JobFacts DEF Cycle
<1>2. CASE Close(w)
  <2> DEFINE j == [IdleJob EXCEPT !.pc = "close",
                   !.then = IF deployment = "SUSPENDED" THEN "idle" ELSE "refund"]
  <2>1. j \in Job /\ j.pc = "close"
    BY Idle, JobFacts DEF Job
  <2>2. Vouches(j, deposited, HasLeft, credited)
    BY <1>2, <2>1 DEF Vouches, Paying
  <2> HIDE DEF j
  <2>3. Goto(w, j)
    BY <1>2 DEF Close, j
  <2> QED
    BY <1>2, <2>1, <2>2, <2>3, JobOnly, JobFacts DEF Close
<1>3. CASE Resume(w)
  <2> DEFINE j == [IdleJob EXCEPT !.pc = "refund", !.then = "end"]
  <2>1. j \in Job /\ j.pc = "refund"
    BY Idle, JobFacts DEF Job
  <2>2. Vouches(j, deposited, HasLeft, credited)
    <3>1. HasLeft
      BY <1>3 DEF Resume, IInv, RowVouches
    <3> HIDE DEF j
    <3> QED
      BY <2>1, <3>1 DEF Vouches, Paying
  <2> HIDE DEF j
  <2>3. Goto(w, j)
    BY <1>3 DEF Resume, j
  <2> QED
    BY <1>3, <2>1, <2>2, <2>3, JobOnly, JobFacts DEF Resume
<1>4. CASE WebhookSuspend(w)
  <2> DEFINE j == [IdleJob EXCEPT !.pc = "suspend", !.seen = escrow.status]
  <2>1. j \in Job /\ j.pc = "suspend"
    BY Idle, JobFacts DEF Job
  <2>2. Vouches(j, deposited, HasLeft, credited)
    BY <1>4, <2>1 DEF Vouches, Paying
  <2> HIDE DEF j
  <2>3. Goto(w, j)
    BY <1>4 DEF WebhookSuspend, j
  <2> QED
    BY <1>4, <2>1, <2>2, <2>3, JobOnly, JobFacts DEF WebhookSuspend
<1>5. CASE SweepOrphan(w)
  <2> DEFINE j == [IdleJob EXCEPT !.pc = "settle", !.then = "refund"]
  <2>1. j \in Job /\ j.pc = "settle"
    BY Idle, JobFacts DEF Job
  <2>2. Vouches(j, deposited, HasLeft, credited)
    BY <1>5, <2>1 DEF SweepOrphan, HasLeft, Left, Vouches, Paying
  <2> HIDE DEF j
  <2>3. Goto(w, j)
    BY <1>5 DEF SweepOrphan, j
  <2> QED
    BY <1>5, <2>1, <2>2, <2>3, JobOnly, JobFacts DEF SweepOrphan
<1> QED
  BY <1>1, <1>2, <1>3, <1>4, <1>5

\* The write-ahead of the deposit and its sweep: a request is sent, and no
\* status that a refund starts from is written.
LEMMA WriteAheadKeepsIInv ==
  ASSUME IInv, NEW w \in Worker, Create(w) \/ SweepDeposit(w)
  PROVE  IInv'
<1> DEFINE j(pc, next) == [IdleJob EXCEPT !.pc = pc, !.then = next]
<1>1. ASSUME NEW pc \in {"create", "retry", "fail"}, NEW next \in {"activate", "idle"}
      PROVE  j(pc, next) \in Job /\ Vouches(j(pc, next), deposited, HasLeft, credited)
  <2>1. j(pc, next) \in Job /\ j(pc, next).pc = pc /\ j(pc, next).then = next
    BY Idle DEF Job
  <2> HIDE DEF j
  <2> QED
    BY <2>1 DEF Vouches, Paying
<1>2. \E pc \in {"create", "retry", "fail"}, next \in {"activate", "idle"} : Goto(w, j(pc, next))
  <2>1. CASE Create(w)
    <3>1. \A next : [IdleJob EXCEPT !.pc = "create", !.then = next] = j("create", next)
      OBVIOUS
    <3>2. \E next \in {"activate", "idle"} : Goto(w, [IdleJob EXCEPT !.pc = "create", !.then = next])
      BY <2>1 DEF Create
    <3> HIDE DEF j
    <3> QED
      BY <3>1, <3>2
  <2>2. CASE SweepDeposit(w)
    <3>1. \A pc \in {"retry", "fail"} : [IdleJob EXCEPT !.pc = pc] = j(pc, "idle")
      <4>1. IdleJob.then = "idle"
        BY DEF IdleJob
      <4> QED
        BY <4>1, Idle DEF Job
    <3>2. \E pc \in {"retry", "fail"} : Goto(w, [IdleJob EXCEPT !.pc = pc])
      BY <2>2 DEF SweepDeposit
    <3> HIDE DEF j
    <3> QED
      BY <3>1, <3>2
  <2> QED
    BY <2>1, <2>2
<1>3. depositSent' \in BOOLEAN
      /\ UNCHANGED <<deployment, revived, deposited, credited, refundSent, faults>>
  BY DEF Create, SweepDeposit, IInv, TypeOK
<1>4. escrow' = escrow \/ (/\ escrow' \in Row /\ escrow'.status = "PENDING_DEPOSIT"
                          /\ escrow'.refunded = escrow.refunded)
  <2>1. escrow \in Row
    BY DEF IInv, TypeOK
  <2>2. CASE Create(w)
    <3> DEFINE q == [escrow EXCEPT !.status = "PENDING_DEPOSIT"]
    <3>1. q \in Row /\ q.status = "PENDING_DEPOSIT" /\ q.refunded = escrow.refunded
      BY <2>1 DEF Row, Status
    <3>2. escrow' = Written(q)
      BY <2>2 DEF Create, Write
    <3> HIDE DEF q
    <3> QED
      BY <3>1, <3>2, Writes
  <2>3. CASE SweepDeposit(w)
    BY <2>3 DEF SweepDeposit
  <2> QED
    BY <2>2, <2>3
<1> HIDE DEF j
<1>5. Kept /\ HasLeft' = HasLeft
  BY <1>3 DEF Kept, HasLeft, Left
<1>6. job' \in [Worker -> Job] /\ JobsVouch'
  <2>1. PICK pc \in {"create", "retry", "fail"}, next \in {"activate", "idle"} : Goto(w, j(pc, next))
    BY <1>2
  <2>2. j(pc, next) \in Job /\ Vouches(j(pc, next), deposited', HasLeft', credited')
    BY <1>1, <1>3, <1>5
  <2> QED
    BY <1>5, <2>1, <2>2, JobMoves
<1>7. TypeOK'
  BY <1>3, <1>4, <1>6 DEF IInv, TypeOK
<1>8. RowVouches' /\ RefundsVouch'
  BY <1>3, <1>4, <1>5 DEF IInv, RowVouches, RefundsVouch, Refundable
<1> QED
  BY <1>6, <1>7, <1>8 DEF IInv

\* A refund reads the row, asks, and hears: it goes on only from a row that
\* shows the deposit was taken, and finishes only what was credited.
LEMMA RefundKeepsIInv ==
  ASSUME IInv, NEW w \in Worker,
         RefundRead(w) \/ ClaimLost(w) \/ RefundReply(w) \/ RefundError(w)
  PROVE  IInv'
<1>1. CASE RefundRead(w)
  <2>1. UNCHANGED <<escrow, deployment, revived, wallet>> /\ faults' \in 0..MaxFaults /\ HasLeft
    BY <1>1, JobFacts DEF RefundRead, At, Vouches
  <2>2. CASE Goto(w, Continue(w))
    BY <2>1, <2>2, JobFacts, JobOnly
  <2>3. CASE escrow.status \notin {"ABSENT", "REFUNDED", "PENDING_DEPOSIT", "FAILED"}
    <3> DEFINE pc == IF Remaining(escrow) = 0 THEN "finish" ELSE "claim"
               j == [job[w] EXCEPT !.pc = pc, !.seen = escrow.status,
                                   !.amount = Remaining(escrow)]
    <3>1. deposited
      BY <2>3, JobFacts DEF Status, IInv, RowVouches, Refundable
    <3>2. j \in Job /\ j.pc = pc /\ j.amount = Remaining(escrow)
      <4>1. /\ job[w] \in Job /\ escrow.status \in Status
            /\ Remaining(escrow) \in 0..Deposit
        BY JobFacts
      <4> QED
        BY <4>1 DEF Job
    <3>3. Goto(w, j)
      BY <1>1, <2>3 DEF RefundRead
    <3> HIDE DEF j
    <3>4. Vouches(j, deposited, HasLeft, credited)
      BY <2>1, <3>1, <3>2 DEF Vouches, Paying
    <3> QED
      BY <2>1, <3>2, <3>3, <3>4, JobOnly
  <2> QED
    BY <1>1, <2>2, <2>3 DEF RefundRead
<1>2. CASE ClaimLost(w)
  <2>1. UNCHANGED <<escrow, deployment, revived, wallet>> /\ faults' \in 0..MaxFaults /\ HasLeft
        /\ Goto(w, Continue(w))
    BY <1>2, JobFacts DEF ClaimLost, At, Vouches, Paying
  <2> QED
    BY <2>1, JobFacts, JobOnly
<1>3. CASE RefundReply(w) \/ RefundError(w)
  <2>1. /\ UNCHANGED <<escrow, deployment, revived, wallet>>
        /\ faults' \in 0..MaxFaults
        /\ deposited /\ HasLeft
    BY <1>3, JobFacts DEF RefundReply, RefundError, At, Vouches, Paying
  <2>2. CASE Finished(w)
    BY <2>1, <2>2, Stops
  <2>3. ASSUME NEW pc \in {"finish", "rollback"}, pc = "finish" => credited # 0,
               Goto(w, [job[w] EXCEPT !.pc = pc])
        PROVE  IInv'
    <3> DEFINE j == [job[w] EXCEPT !.pc = pc]
    <3>1. j \in Job /\ j.pc = pc
      BY JobFacts DEF Job
    <3>2. Goto(w, j)
      BY <2>3
    <3> HIDE DEF j
    <3>3. Vouches(j, deposited, HasLeft, credited)
      BY <2>1, <2>3, <3>1 DEF Vouches, Paying
    <3> QED
      BY <2>1, <3>1, <3>2, <3>3, JobOnly
  <2> QED
    BY <1>3, <2>2, <2>3 DEF RefundReply, RefundError
<1> QED
  BY <1>1, <1>2, <1>3

\* A refund writes the row: the claim, its rollback, the REFUNDED that may land
\* on anything, and the pause.
LEMMA RefundWritesKeepIInv ==
  ASSUME IInv, NEW w \in Worker, Claim(w) \/ Rollback(w) \/ Finish(w) \/ Pause(w)
  PROVE  IInv'
<1>1. /\ escrow \in Row /\ job[w] \in Job /\ HasLeft
      /\ Vouches(job[w], deposited, HasLeft, credited)
      /\ RowVouches
  BY JobFacts DEF IInv, TypeOK, Claim, Rollback, Finish, Pause, At, Vouches, Paying
<1>2. CASE Claim(w)
  <2> DEFINE j == [job[w] EXCEPT !.pc = "credit"]
             q == [escrow EXCEPT !.status = "REFUNDING"]
             r == Written(q)
  <2>1. /\ deposited /\ job[w].amount \in 1..Deposit
        /\ refundSent' = refundSent \union {job[w].amount}
        /\ UNCHANGED <<deployment, revived, deposited, credited, depositSent, faults>>
        /\ Goto(w, j) /\ escrow' = r
    BY <1>1, <1>2, EscrowAssumption DEF Claim, At, Vouches, Paying, Job, Write
  <2>2. j \in Job /\ j.pc = "credit"
    BY <1>1 DEF Job
  <2>3. r \in Row /\ r.status = "REFUNDING" /\ r.refunded = escrow.refunded
    <3>1. q \in Row /\ q.status = "REFUNDING" /\ q.refunded = escrow.refunded
      BY <1>1 DEF Row, Status
    <3> HIDE DEF q
    <3> QED
      BY <3>1, Writes
  <2>4. refundSent' \subseteq 1..Deposit
    BY <2>1 DEF IInv, TypeOK
  <2> HIDE DEF j, r
  <2>5. Vouches(j, deposited, HasLeft, credited)
    BY <1>1, <2>1, <2>2 DEF Vouches, Paying
  <2> QED
    BY <1>1, <2>1, <2>2, <2>3, <2>4, <2>5, JobWrites DEF RowVouches
<1>3. ASSUME NEW j \in Job, Goto(w, j), Vouches(j, deposited, HasLeft, credited),
             NEW st \in Status, NEW a \in 0..Deposit,
             st \in Refundable \union {"REFUNDING", "REFUNDED"} => deposited,
             a # 0 => credited # 0,
             escrow' = Written([escrow EXCEPT !.status = st, !.refunded = a]),
             UNCHANGED <<deployment, revived, wallet, faults>>
      PROVE  IInv'
  <2> DEFINE q == [escrow EXCEPT !.status = st, !.refunded = a]
             r == Written(q)
  <2>1. r \in Row /\ r.status = st /\ r.refunded = a
    <3>1. q \in Row /\ q.status = st /\ q.refunded = a
      BY <1>1 DEF Row
    <3> HIDE DEF q
    <3> QED
      BY <3>1, Writes
  <2>2. escrow' = r
    BY <1>3
  <2> HIDE DEF r
  <2> QED
    BY <1>1, <1>3, <2>1, <2>2, JobWrites DEF wallet, IInv, TypeOK
<1>4. CASE Finish(w)
  <2>1. /\ deposited /\ job[w].amount \in 0..Deposit
        /\ (job[w].amount # 0 => credited # 0)
        /\ Goto(w, Continue(w))
        /\ UNCHANGED <<deployment, revived, wallet, faults>>
    BY <1>1, <1>4 DEF Finish, At, Vouches, Paying, Job
  <2>2. Continue(w) \in Job /\ Vouches(Continue(w), deposited, HasLeft, credited)
    BY <1>1, JobFacts
  <2>3. "REFUNDED" \in Status
    BY DEF Status
  <2>4. escrow' = Written([escrow EXCEPT !.status = "REFUNDED", !.refunded = job[w].amount])
    BY <1>4 DEF Finish, Write
  <2> QED
    BY <2>1, <2>2, <2>3, <2>4, <1>3
<1>5. CASE Rollback(w) \/ Pause(w)
  <2>1. Goto(w, IdleJob) /\ UNCHANGED <<deployment, revived, wallet, faults>>
    BY <1>5 DEF Rollback, Pause, Finished
  <2>2. faults' \in 0..MaxFaults
    BY <2>1, JobFacts
  <2>3. CASE escrow' = escrow
    BY <2>1, <2>2, <2>3, Idle, JobOnly
  <2>4. ASSUME NEW st \in Status, deposited,
               escrow' = Written([escrow EXCEPT !.status = st])
        PROVE  IInv'
    <3>1. escrow.refunded \in 0..Deposit /\ (escrow.refunded # 0 => credited # 0)
      BY <1>1 DEF Row, RowVouches
    <3>2. escrow' = Written([escrow EXCEPT !.status = st, !.refunded = escrow.refunded])
      <4>1. [escrow EXCEPT !.status = st, !.refunded = escrow.refunded] = [escrow EXCEPT !.status = st]
        BY <1>1 DEF Row
      <4> QED
        BY <2>4, <4>1
    <3> QED
      BY <2>1, <2>4, <3>1, <3>2, <1>3, Idle
  <2>5. CASE Rollback(w) /\ escrow' # escrow
    <3>1. deposited /\ job[w].seen \in Status
      BY <1>1, <2>5 DEF Rollback, At, Vouches, Paying, Job
    <3>2. escrow' = Written([escrow EXCEPT !.status = job[w].seen])
      BY <2>5 DEF Rollback, Write
    <3> QED
      BY <3>1, <3>2, <2>4
  <2>6. CASE Pause(w) /\ escrow' # escrow
    <3>1. deposited /\ "PAUSED" \in Status
      BY <1>1, <2>6 DEF Pause, RowVouches, Refundable, Status
    <3>2. escrow' = Written([escrow EXCEPT !.status = "PAUSED"])
      BY <2>6 DEF Pause, Write
    <3> QED
      BY <3>1, <3>2, <2>4
  <2> QED
    BY <1>5, <2>3, <2>5, <2>6
<1> QED
  BY <1>2, <1>4, <1>5

\* The sweep of write-ahead refunds asks again for what a claimed row has left.
LEMMA SweepRefundKeepsIInv ==
  ASSUME IInv, NEW w \in Worker, SweepRefund(w)
  PROVE  IInv'
<1>1. /\ escrow \in Row /\ deposited /\ HasLeft /\ Remaining(escrow) \in 0..Deposit
      /\ faults' \in 0..MaxFaults
      /\ UNCHANGED <<escrow, deployment, revived, deposited, credited, depositSent, faults>>
  BY JobFacts DEF SweepRefund, IInv, TypeOK, RowVouches
<1>2. CASE Remaining(escrow) = 0
  <2> DEFINE j == [IdleJob EXCEPT !.pc = "finish"]
  <2>1. j \in Job /\ j.pc = "finish" /\ j.amount = 0
    BY Idle DEF Job
  <2>2. Goto(w, j) /\ UNCHANGED <<escrow, deployment, revived, wallet>>
    BY <1>2 DEF SweepRefund, wallet
  <2> HIDE DEF j
  <2>3. Vouches(j, deposited, HasLeft, credited)
    BY <1>1, <2>1 DEF Vouches, Paying
  <2> QED
    BY <1>1, <2>1, <2>2, <2>3, JobOnly
<1>3. CASE Remaining(escrow) # 0
  <2> DEFINE j == [IdleJob EXCEPT !.pc = "recredit", !.amount = Remaining(escrow)]
  <2>1. j \in Job /\ j.pc = "recredit"
    <3>1. IdleJob \in Job /\ Remaining(escrow) \in 0..Deposit
      BY <1>1, Idle
    <3> QED
      BY <3>1 DEF Job
  <2>2. Goto(w, j) /\ refundSent' = refundSent \union {Remaining(escrow)}
    BY <1>3 DEF SweepRefund
  <2>3. refundSent' \subseteq 1..Deposit
    BY <1>1, <1>3, <2>2, EscrowAssumption DEF IInv, TypeOK
  <2> HIDE DEF j
  <2>4. Vouches(j, deposited, HasLeft, credited)
    BY <1>1, <2>1 DEF Vouches, Paying
  <2> QED
    BY <1>1, <2>1, <2>2, <2>3, <2>4, JobWrites DEF IInv, RowVouches
<1> QED
  BY <1>2, <1>3

\* The jobs that end or suspend the deployment.
LEMMA MoversKeepIInv ==
  ASSUME IInv, NEW w \in Worker,
         MarkClosed(w) \/ MarkSuspended(w) \/ SchedulerSuspend(w) \/ End(w)
  PROVE  IInv'
<1>1. UNCHANGED <<escrow, revived, wallet, faults>> /\ deployment' \in {"SUSPENDED", "ENDED"}
  BY DEF MarkClosed, MarkSuspended, SchedulerSuspend, End
<1>2. ASSUME NEW j \in Job, Goto(w, j), j.pc \in {"idle", "settle", "refund"}
      PROVE  IInv'
  <2>1. Vouches(j, deposited, TRUE, credited)
    BY <1>2 DEF Vouches, Paying
  <2> QED
    BY <1>1, <1>2, <2>1, JobMovesDeployment
<1>3. CASE Finished(w)
  BY <1>2, <1>3, Idle DEF Finished
<1>4. CASE Goto(w, [IdleJob EXCEPT !.pc = "settle", !.then = "pause"])
  <2> DEFINE j == [IdleJob EXCEPT !.pc = "settle", !.then = "pause"]
  <2>1. j \in Job /\ j.pc = "settle"
    BY Idle DEF Job
  <2> QED
    BY <1>2, <1>4, <2>1
<1>5. CASE \E pc \in {"settle", "refund"} : Goto(w, [job[w] EXCEPT !.pc = pc])
  <2>1. PICK pc \in {"settle", "refund"} : Goto(w, [job[w] EXCEPT !.pc = pc])
    BY <1>5
  <2> DEFINE j == [job[w] EXCEPT !.pc = pc]
  <2>2. j \in Job /\ j.pc = pc
    BY JobFacts DEF Job
  <2> QED
    BY <1>2, <2>1, <2>2
<1> QED
  BY <1>3, <1>4, <1>5 DEF MarkClosed, MarkSuspended, SchedulerSuspend, End

\* The activation: a deployment that has left is remembered as revived.
LEMMA ActivateKeepsIInv ==
  ASSUME IInv, NEW w \in Worker, Activate(w)
  PROVE  IInv'
<1>1. HasLeft' = HasLeft
  <2>1. deployment' = "ACTIVE" /\ revived' = HasLeft
    BY DEF Activate
  <2>2. HasLeft \in BOOLEAN
    BY DEF HasLeft, Left, IInv, TypeOK
  <2> QED
    BY <2>1, <2>2 DEF HasLeft, Left
<1>2. UNCHANGED <<escrow, wallet, faults>> /\ Goto(w, IdleJob)
  BY DEF Activate, Finished
<1>3. Kept
  BY <1>1, <1>2 DEF Kept, wallet
<1>4. job' \in [Worker -> Job] /\ JobsVouch'
  BY <1>2, <1>3, Idle, JobMoves
<1>5. TypeOK'
  <2>1. deployment' \in DeploymentStatus /\ revived' \in BOOLEAN
    BY DEF Activate, DeploymentStatus, HasLeft, Left, IInv, TypeOK
  <2> QED
    BY <1>2, <1>4, <2>1 DEF IInv, TypeOK, wallet
<1>6. RowVouches' /\ RefundsVouch'
  BY <1>1, <1>2 DEF IInv, RowVouches, RefundsVouch, wallet
<1> QED
  BY <1>4, <1>5, <1>6 DEF IInv

\* The auth service, a failing deployment, and the clock.
LEMMA EnvironmentKeepsIInv ==
  ASSUME IInv,
         \/ AuthDeposit
         \/ \E a \in 1..Deposit : AuthRefund(a)
         \/ DeploymentFails
         \/ Tick
         \/ UNCHANGED vars
  PROVE  IInv'
<1> SUFFICES ASSUME Kept, UNCHANGED job, TypeOK', RowVouches', RefundsVouch'
             PROVE  IInv'
  <2>1. Kept
    BY DEF Kept, HasLeft, Left, AuthDeposit, AuthRefund, DeploymentFails, Tick, vars, wallet
  <2>2. UNCHANGED job
    BY DEF AuthDeposit, AuthRefund, DeploymentFails, Tick, vars
  <2>3. TypeOK'
    <3>1. CASE Tick
      <4>1. escrow' \in Row
        BY <3>1 DEF Tick, Older, IInv, TypeOK, Row
      <4> QED
        BY <3>1, <4>1 DEF Tick, IInv, TypeOK, wallet
    <3>2. CASE ~Tick
      <4>1. UNCHANGED <<escrow, revived, depositSent, refundSent, job, faults>>
        BY <3>2 DEF AuthDeposit, AuthRefund, DeploymentFails, vars, wallet
      <4>2. deployment' \in DeploymentStatus
        BY <3>2 DEF AuthDeposit, AuthRefund, DeploymentFails, vars, IInv, TypeOK,
                    DeploymentStatus
      <4>3. deposited' \in BOOLEAN
        BY <3>2 DEF AuthDeposit, AuthRefund, DeploymentFails, vars, wallet, IInv, TypeOK
      <4>4. credited' \in 0..Deposit
        <5>1. credited' = credited \/ credited' \in 1..Deposit
          BY <3>2 DEF AuthDeposit, AuthRefund, DeploymentFails, vars, wallet
        <5> QED
          BY <5>1, EscrowAssumption DEF IInv, TypeOK
      <4> QED
        BY <4>1, <4>2, <4>3, <4>4 DEF IInv, TypeOK
    <3> QED
      BY <3>1, <3>2
  <2>4. RowVouches'
    <3>1. /\ escrow'.status = escrow.status /\ escrow'.refunded = escrow.refunded
      BY DEF AuthDeposit, AuthRefund, DeploymentFails, Tick, vars, wallet, IInv, TypeOK, Row
    <3> QED
      BY <2>1, <3>1 DEF Kept, IInv, RowVouches
  <2>5. RefundsVouch'
    <3>1. UNCHANGED refundSent /\ (credited' # 0 => credited # 0 \/ refundSent # {})
      BY DEF AuthDeposit, AuthRefund, DeploymentFails, Tick, vars, wallet
    <3> QED
      BY <2>1, <3>1 DEF Kept, IInv, RefundsVouch
  <2> QED
    BY <2>1, <2>2, <2>3, <2>4, <2>5
<1>1. ASSUME NEW v \in Worker PROVE Vouches(job'[v], deposited', HasLeft', credited')
  BY DEF IInv, JobsVouch, Vouches, Kept
<1> QED
  BY <1>1 DEF IInv, JobsVouch

\* Every step of the escrow keeps the inductive invariant.
LEMMA NextIInv == IInv /\ [Next]_vars => IInv'
<1> SUFFICES ASSUME IInv, [Next]_vars PROVE IInv'
  OBVIOUS
<1>1. ASSUME NEW w \in Worker, Start(w) PROVE IInv'
  BY <1>1, StartersKeepIInv, WriteAheadKeepsIInv, SweepRefundKeepsIInv, MoversKeepIInv
     DEF Start
<1>2. ASSUME NEW w \in Worker, Step(w) PROVE IInv'
  <2>1. ASSUME NEW c \in Charge, Consume(w, c) \/ SettleWrite(w, c) PROVE IInv'
    BY <2>1, ConsumptionKeepsIInv
  <2>2. CASE ConsumptionRead(w) \/ SettleRead(w)
    BY <2>2, ReadsKeepIInv
  <2> QED
    BY <1>2, <2>1, <2>2, DepositKeepsIInv, ActivateKeepsIInv, RefundKeepsIInv,
       RefundWritesKeepIInv, MoversKeepIInv DEF Step
<1>3. ASSUME NEW w \in Worker, Crash(w) PROVE IInv'
  <2>1. Finished(w) /\ UNCHANGED <<escrow, deployment, revived, wallet>> /\ faults' \in 0..MaxFaults
    BY <1>3, JobFacts DEF Crash
  <2> QED
    BY <2>1, Stops
<1> QED
  BY <1>1, <1>2, <1>3, EnvironmentKeepsIInv DEF Next

-----------------------------------------------------------------------------

\* The inductive invariant holds in every state of every run of the escrow.
THEOREM Invariant == Spec => []IInv
<1>1. Init => IInv
  BY InitIInv
<1>2. IInv /\ [Next]_vars => IInv'
  BY NextIInv
<1> QED
  BY <1>1, <1>2, PTL DEF Spec

\* Type correctness: above all, neither settleAkashEscrowToTime nor
\* processDailyConsumption takes consumedCents past the deposit, though each
\* adds to what it read earlier, and every refund asked for is a part of it.
THEOREM TypeCorrect == Spec => []TypeOK
<1>1. IInv => TypeOK
  BY DEF IInv
<1> QED
  BY <1>1, Invariant, PTL

\* The wallet gets money back only after the deposit was taken from it, whatever
\* refundEscrow, the orphan sweep and the deposit reconciler overwrite.
THEOREM NoFreeCredit == Spec => []CreditedAfterDeposit
<1>1. IInv => CreditedAfterDeposit
  BY DEF IInv, RefundsVouch, CreditedAfterDeposit
<1> QED
  BY <1>1, Invariant, PTL

\* A row to which refundEscrow or its reconciler wrote a refund stands for a
\* credit that the auth service made.
THEOREM RefundsAreReal == Spec => []RecordedRefundWasMade
<1>1. IInv => RecordedRefundWasMade
  BY DEF IInv, RowVouches, RecordedRefundWasMade
<1> QED
  BY <1>1, Invariant, PTL

\* No refund before the deployment has left: every caller of refundEscrow acts on one
\* that was ended or suspended, although finalizeDeployment may run it again meanwhile.
THEOREM RefundsAfterTheEnd == Spec => []NoRefundWhileLive
<1>1. IInv => NoRefundWhileLive
  BY DEF IInv, RefundsVouch, HasLeft, Left, NoRefundWhileLive
<1> QED
  BY <1>1, Invariant, PTL

-----------------------------------------------------------------------------
(* The contract: what a step does to the account. *)

Opened == escrow.status # "ABSENT"

\* The row is written before the deposit is asked for, and what a job is to record it
\* has asked for.
Asking == {"credit", "recredit", "finish"}
Restoring == {"claim", "credit", "rollback"}
Knows(j, asked) ==
  /\ j.pc \in Asking => j.amount = 0 \/ j.amount \in asked
  /\ j.pc \in Restoring => j.seen # "ABSENT"

CInv ==
  /\ depositSent \/ deposited => Opened
  /\ \A w \in Worker : Knows(job[w], refundSent)

RowKept == (Opened => Opened') /\ escrow'.refunded = escrow.refunded
MoneyKept == UNCHANGED <<deposited, credited, refundSent>>
Complies == [Contract!Next]_Contract!vars

\* What a step does, as far as the contract can tell.
LEMMA KeepsComply ==
  ASSUME IInv, RowKept, MoneyKept, HasLeft' = HasLeft
  PROVE  Complies
<1>1. CASE Opened' = Opened
  BY <1>1 DEF Complies, Contract!vars, RowKept, MoneyKept, Opened
<1>2. CASE Opened' # Opened
  <2>1. ~Opened /\ Opened'
    BY <1>2 DEF RowKept, Opened
  <2>2. Contract!Open
    BY <2>1 DEF Contract!Open, RowKept, MoneyKept, Opened
  <2> QED
    BY <2>2 DEF Complies, Contract!Next
<1> QED
  BY <1>1, <1>2

LEMMA LeavesComply ==
  ASSUME IInv, UNCHANGED escrow, MoneyKept, HasLeft => HasLeft'
  PROVE  Complies
<1>1. CASE HasLeft' = HasLeft
  BY <1>1, KeepsComply DEF RowKept, Opened
<1>2. CASE HasLeft' # HasLeft
  <2>1. ~HasLeft /\ HasLeft'
    BY <1>2 DEF HasLeft, Left
  <2>2. Contract!Leave
    BY <2>1 DEF Contract!Leave, MoneyKept, HasLeft, Left
  <2> QED
    BY <2>2 DEF Complies, Contract!Next
<1> QED
  BY <1>1, <1>2

LEMMA AsksComply ==
  ASSUME IInv, CInv, NEW a \in 1..Deposit, deposited, HasLeft, RowKept, HasLeft' = HasLeft,
         refundSent' = refundSent \union {a}, UNCHANGED <<deposited, credited>>
  PROVE  Complies
<1>1. Opened' = Opened
  BY DEF CInv, RowKept, Opened
<1>2. Contract!Ask(a)
  BY <1>1 DEF Contract!Ask, RowKept, Opened
<1> QED
  BY <1>2 DEF Complies, Contract!Next

LEMMA RecordsComply ==
  ASSUME IInv, CInv, NEW a \in 0..Deposit, a = 0 \/ a \in refundSent, a # 0 => credited # 0,
         escrow'.refunded = a, Opened', deposited, MoneyKept, HasLeft' = HasLeft
  PROVE  Complies
<1>1. Opened' = Opened
  BY DEF CInv, Opened
<1>2. CASE credited # 0
  <2>1. Contract!Record(a)
    BY <1>1, <1>2 DEF Contract!Record, MoneyKept, Opened
  <2> QED
    BY <2>1 DEF Complies, Contract!Next
<1>3. CASE credited = 0
  <2>1. escrow'.refunded = escrow.refunded
    BY <1>3 DEF IInv, RowVouches
  <2> QED
    BY <1>1, <2>1, KeepsComply DEF RowKept
<1> QED
  BY <1>2, <1>3

\* One job moves on, knowing what it has to.
LEMMA JobKnows ==
  ASSUME IInv, CInv, NEW w \in Worker, NEW j, Goto(w, j), Knows(j, refundSent'),
         refundSent \subseteq refundSent', Opened => Opened',
         depositSent' \/ deposited' => depositSent \/ deposited \/ Opened'
  PROVE  CInv'
<1>1. job' = [job EXCEPT ![w] = j] /\ job \in [Worker -> Job]
  BY DEF Goto, IInv, TypeOK
<1>2. ASSUME NEW v \in Worker PROVE Knows(job'[v], refundSent')
  <2>1. CASE v = w
    BY <1>1, <2>1
  <2>2. CASE v # w
    <3>1. job'[v] = job[v] /\ Knows(job[v], refundSent)
      BY <1>1, <2>2 DEF CInv
    <3> QED
      BY <3>1 DEF Knows
  <2> QED
    BY <2>1, <2>2
<1> QED
  BY <1>2 DEF CInv

LEMMA JobStarts ==
  ASSUME IInv, CInv, NEW w \in Worker, NEW j, Goto(w, j), j.pc \notin Asking \union Restoring,
         UNCHANGED <<deposited, refundSent>>, depositSent' => depositSent \/ Opened', Opened => Opened'
  PROVE  CInv'
BY JobKnows DEF Knows

\* Stages that ask for and record nothing.
LEMMA Harmless ==
  ASSUME IInv, NEW w \in Worker
  PROVE  /\ Finished(w) => \E j : Goto(w, j) /\ j.pc \notin Asking \union Restoring
         /\ Goto(w, Continue(w)) => \E j : Goto(w, j) /\ j.pc \notin Asking \union Restoring
<1>1. IdleJob.pc \notin Asking \union Restoring
  BY Idle DEF Asking, Restoring
<1>2. Continue(w).pc = job[w].then /\ job[w].then \in {"idle", "activate", "refund", "pause", "end"}
  BY JobFacts DEF Continue, IdleJob, Job
<1> QED
  BY <1>1, <1>2 DEF Finished, Asking, Restoring

\* The jobs that write no refund.
LEMMA OthersComply ==
  ASSUME IInv, CInv, NEW w \in Worker,
         \/ Create(w) \/ SweepDeposit(w) \/ DepositReply(w) \/ Promote(w) \/ DepositError(w) \/ Fail(w)
         \/ Cycle(w) \/ ConsumptionRead(w) \/ SettleRead(w) \/ (\E c \in Charge : Consume(w, c) \/ SettleWrite(w, c))
         \/ Close(w) \/ Resume(w) \/ WebhookSuspend(w) \/ SweepOrphan(w) \/ ClaimLost(w) \/ Pause(w) \/ Crash(w)
  PROVE  Complies /\ CInv'
<1>1. escrow \in Row /\ job[w] \in Job
  BY JobFacts DEF IInv, TypeOK
<1>2. MoneyKept /\ UNCHANGED <<deployment, revived>>
  BY DEF Create, SweepDeposit, DepositReply, Promote, DepositError, Fail, Cycle, ConsumptionRead, SettleRead,
         Consume, SettleWrite, Close, Resume, WebhookSuspend, SweepOrphan, ClaimLost, Pause, Crash, MoneyKept, wallet
<1>3. RowKept
  <2>1. CASE UNCHANGED escrow
    BY <2>1 DEF RowKept, Opened
  <2>2. CASE Create(w) \/ Promote(w) \/ Fail(w) \/ Pause(w)
    <3>1. RowKept \/ \E st \in {"PENDING_DEPOSIT", "ACTIVE", "FAILED", "PAUSED"} :
                       Write([escrow EXCEPT !.status = st])
      BY <2>1, <2>2 DEF Create, Promote, Fail, Pause
    <3> QED
      BY <1>1, <3>1, RowWrites DEF RowKept, Opened
  <2>3. ASSUME NEW c \in Charge, Consume(w, c) \/ SettleWrite(w, c)
        PROVE  RowKept
    <3>1. CASE Consume(w, c)
      <4>1. \/ Write([escrow EXCEPT !.consumed = Deposit, !.status = "DEPLETED"])
            \/ Write([escrow EXCEPT !.consumed = job[w].amount + c])
        BY <3>1, Zenon DEF Consume
      <4>2. escrow'.refunded = escrow.refunded /\ escrow'.status \in {escrow.status, "DEPLETED"}
        BY <1>1, <4>1, RowWrites
      <4> QED
        BY <4>2 DEF RowKept, Opened
    <3>2. CASE SettleWrite(w, c)
      <4>1. PICK n : Write([escrow EXCEPT !.consumed = n])
        BY <3>2, Zenon DEF SettleWrite
      <4>2. escrow'.refunded = escrow.refunded /\ escrow'.status = escrow.status
        BY <1>1, <4>1, RowWrites
      <4> QED
        BY <4>2 DEF RowKept, Opened
    <3> QED
      BY <2>3, <3>1, <3>2
  <2> QED
    BY <2>1, <2>2, <2>3 DEF SweepDeposit, DepositReply, DepositError, Cycle, ConsumptionRead, SettleRead, Close,
       Resume, WebhookSuspend, SweepOrphan, ClaimLost, Crash
<1>4. depositSent' => depositSent \/ Opened'
  <2>1. CASE Create(w)
    <3>1. escrow'.status = "PENDING_DEPOSIT"
      BY <1>1, <2>1, RowWrites DEF Create
    <3> QED
      BY <3>1 DEF Opened
  <2>2. CASE SweepDeposit(w)
    BY <1>3, <2>2 DEF SweepDeposit, RowKept, Opened
  <2>3. CASE ~Create(w) /\ ~SweepDeposit(w)
    BY <2>3 DEF DepositReply, Promote, DepositError, Fail, Cycle, ConsumptionRead, SettleRead,
         Consume, SettleWrite, Close, Resume, WebhookSuspend, SweepOrphan, ClaimLost, Pause, Crash, wallet
  <2> QED
    BY <2>1, <2>2, <2>3
<1>5. \E j : Goto(w, j) /\ j.pc \notin Asking \union Restoring
  <2>1. CASE Finished(w) \/ Goto(w, Continue(w))
    BY <2>1, Harmless
  <2>2. ASSUME NEW pc \in {"retry", "fail", "cycle"}, Goto(w, [IdleJob EXCEPT !.pc = pc])
        PROVE  \E j : Goto(w, j) /\ j.pc \notin Asking \union Restoring
    BY <2>2 DEF IdleJob, Asking, Restoring
  <2>3. CASE SweepDeposit(w) \/ DepositError(w) \/ Cycle(w)
    BY <2>1, <2>2, <2>3 DEF SweepDeposit, DepositError, Cycle
  <2>7. CASE Create(w) \/ DepositReply(w)
    <3>1. /\ \A t : [IdleJob EXCEPT !.pc = "create", !.then = t].pc = "create"
          /\ [job[w] EXCEPT !.pc = "promote"].pc = "promote"
      BY <1>1 DEF IdleJob, Job
    <3> QED
      BY <2>7, <3>1 DEF Create, DepositReply, Asking, Restoring
  <2>4. CASE ConsumptionRead(w) \/ SettleRead(w)
    <3>1. /\ [IdleJob EXCEPT !.pc = "charge", !.amount = escrow.consumed].pc = "charge"
          /\ [job[w] EXCEPT !.pc = "settleWrite", !.amount = escrow.consumed].pc = "settleWrite"
      BY <1>1 DEF IdleJob, Job
    <3> QED
      BY <2>1, <2>4, <3>1 DEF ConsumptionRead, SettleRead, Asking, Restoring
  <2>5. CASE Close(w) \/ Resume(w) \/ WebhookSuspend(w) \/ SweepOrphan(w)
    <3>1. \A s, t : /\ [IdleJob EXCEPT !.pc = "close", !.then = t].pc = "close"
                    /\ [IdleJob EXCEPT !.pc = "refund", !.then = t].pc = "refund"
                    /\ [IdleJob EXCEPT !.pc = "settle", !.then = t].pc = "settle"
                    /\ [IdleJob EXCEPT !.pc = "suspend", !.seen = s].pc = "suspend"
      BY DEF IdleJob
    <3> QED
      BY <2>5, <3>1 DEF Close, Resume, WebhookSuspend, SweepOrphan, Asking, Restoring
  <2>6. CASE Promote(w) \/ Fail(w) \/ (\E c \in Charge : Consume(w, c) \/ SettleWrite(w, c)) \/ ClaimLost(w) \/ Pause(w) \/ Crash(w)
    BY <2>1, <2>6 DEF Promote, Fail, Consume, SettleWrite, ClaimLost, Pause, Crash
  <2> QED
    BY <2>3, <2>4, <2>5, <2>6, <2>7
<1>6. HasLeft' = HasLeft
  BY <1>2 DEF HasLeft, Left
<1> QED
  BY <1>2, <1>3, <1>4, <1>5, <1>6, KeepsComply, JobStarts DEF MoneyKept, RowKept

\* A refund reads the row, is claimed, and hears.
LEMMA RefundComplies ==
  ASSUME IInv, CInv, NEW w \in Worker,
         RefundRead(w) \/ RefundReply(w) \/ RefundError(w) \/ Rollback(w)
  PROVE  Complies /\ CInv'
<1>1. /\ escrow \in Row /\ job[w] \in Job /\ Knows(job[w], refundSent)
      /\ UNCHANGED <<deployment, revived, depositSent>> /\ MoneyKept
  BY JobFacts DEF CInv, IInv, TypeOK, RefundRead, RefundReply, RefundError, Rollback, MoneyKept, wallet
<1>2. RowKept
  <2>1. CASE UNCHANGED escrow
    BY <2>1 DEF RowKept, Opened
  <2>2. CASE Rollback(w)
    <3>1. job[w].seen # "ABSENT"
      BY <1>1, <2>2 DEF Rollback, At, Knows, Restoring
    <3> QED
      BY <1>1, <2>1, <2>2, <3>1, RowWrites DEF Rollback, RowKept, Opened
  <2> QED
    BY <2>1, <2>2 DEF RefundRead, RefundReply, RefundError
<1>3. \E j : Goto(w, j) /\ Knows(j, refundSent)
  <2>1. CASE Finished(w) \/ Goto(w, Continue(w))
    BY <2>1, Harmless DEF Knows
  <2>2. CASE RefundRead(w) /\ ~Goto(w, Continue(w))
    <3> DEFINE pc == IF Remaining(escrow) = 0 THEN "finish" ELSE "claim"
               j == [job[w] EXCEPT !.pc = pc, !.seen = escrow.status, !.amount = Remaining(escrow)]
    <3>1. j.pc = pc /\ j.seen = escrow.status /\ j.amount = Remaining(escrow)
      BY <1>1 DEF Job
    <3>2. Goto(w, j) /\ escrow.status # "ABSENT"
      BY <2>2 DEF RefundRead
    <3> HIDE DEF j
    <3>3. Knows(j, refundSent)
      BY <3>1, <3>2 DEF Knows, Asking, Restoring
    <3> QED
      BY <3>2, <3>3
  <2>3. CASE (RefundReply(w) \/ RefundError(w)) /\ ~Finished(w)
    <3>1. PICK pc \in {"finish", "rollback"} :
            Goto(w, [job[w] EXCEPT !.pc = pc]) /\ (pc = "rollback" => job[w].pc = "credit")
      BY <2>3 DEF RefundReply, RefundError, At
    <3>2. job[w].pc \in {"credit", "recredit"}
      BY <2>3 DEF RefundReply, RefundError, At
    <3> DEFINE j == [job[w] EXCEPT !.pc = pc]
    <3>3. j.pc = pc /\ j.seen = job[w].seen /\ j.amount = job[w].amount
      BY <1>1 DEF Job
    <3>4. Goto(w, j)
      BY <3>1
    <3> HIDE DEF j
    <3>5. Knows(j, refundSent)
      BY <1>1, <3>1, <3>2, <3>3 DEF Knows, Asking, Restoring
    <3> QED
      BY <3>4, <3>5
  <2> QED
    BY <2>1, <2>2, <2>3 DEF Rollback
<1>4. HasLeft' = HasLeft
  BY <1>1 DEF HasLeft, Left
<1> QED
  BY <1>1, <1>2, <1>3, <1>4, KeepsComply, JobKnows DEF MoneyKept, RowKept

\* The amount that is asked for.
LEMMA AsksKnow ==
  ASSUME IInv, CInv, NEW w \in Worker, NEW j, Goto(w, j), NEW a \in 1..Deposit, j.amount = a,
         j.pc \in Restoring => j.seen # "ABSENT", deposited, HasLeft, HasLeft' = HasLeft, RowKept,
         refundSent' = refundSent \union {a}, UNCHANGED <<deposited, credited, depositSent>>
  PROVE  Complies /\ CInv'
<1>1. Complies
  BY AsksComply
<1>2. Knows(j, refundSent')
  BY DEF Knows
<1> QED
  BY <1>1, <1>2, JobKnows DEF RowKept

LEMMA ClaimComplies ==
  ASSUME IInv, CInv, NEW w \in Worker, Claim(w)
  PROVE  Complies /\ CInv'
<1>1. /\ escrow \in Row /\ job[w] \in Job /\ Knows(job[w], refundSent)
      /\ Vouches(job[w], deposited, HasLeft, credited)
  BY JobFacts DEF CInv, IInv, TypeOK
<1>2. deposited /\ HasLeft /\ job[w].amount \in 1..Deposit /\ job[w].seen # "ABSENT"
  BY <1>1, EscrowAssumption DEF Claim, At, Vouches, Paying, Knows, Restoring, Job
<1> DEFINE j == [job[w] EXCEPT !.pc = "credit"]
<1>3. j.amount = job[w].amount /\ j.seen = job[w].seen
  BY <1>1 DEF Job
<1>4. RowKept /\ HasLeft' = HasLeft
  <2>1. RowKept
    BY <1>1, RowWrites DEF Claim, RowKept, Opened
  <2> QED
    BY <2>1 DEF Claim, HasLeft, Left
<1>5. Goto(w, j)
  BY DEF Claim
<1> HIDE DEF j
<1> QED
  BY <1>2, <1>3, <1>4, <1>5, AsksKnow DEF Claim

LEMMA SweepRefundComplies ==
  ASSUME IInv, CInv, NEW w \in Worker, SweepRefund(w)
  PROVE  Complies /\ CInv'
<1>1. /\ escrow \in Row /\ deposited /\ HasLeft /\ HasLeft' = HasLeft /\ Remaining(escrow) \in 0..Deposit
      /\ UNCHANGED <<escrow, deployment, revived, deposited, credited, depositSent>>
  BY JobFacts DEF SweepRefund, IInv, TypeOK, RowVouches, HasLeft, Left
<1>2. RowKept
  BY <1>1 DEF RowKept, Opened
<1>3. CASE Remaining(escrow) = 0
  <2> DEFINE j == [IdleJob EXCEPT !.pc = "finish"]
  <2>1. j.pc = "finish" /\ j.amount = 0
    BY DEF IdleJob
  <2>2. Goto(w, j) /\ UNCHANGED refundSent
    BY <1>3 DEF SweepRefund
  <2> HIDE DEF j
  <2>3. Knows(j, refundSent)
    BY <2>1 DEF Knows, Restoring
  <2> QED
    BY <1>1, <1>2, <2>2, <2>3, KeepsComply, JobKnows DEF MoneyKept, RowKept
<1>4. CASE Remaining(escrow) # 0
  <2> DEFINE j == [IdleJob EXCEPT !.pc = "recredit", !.amount = Remaining(escrow)]
  <2>1. j.pc = "recredit" /\ j.amount = Remaining(escrow)
    BY DEF IdleJob
  <2>2. Goto(w, j) /\ refundSent' = refundSent \union {Remaining(escrow)}
    BY <1>4 DEF SweepRefund
  <2> HIDE DEF j
  <2>3. Remaining(escrow) \in 1..Deposit
    BY <1>1, <1>4, EscrowAssumption
  <2> QED
    BY <1>1, <1>2, <2>1, <2>2, <2>3, AsksKnow DEF Restoring
<1> QED
  BY <1>3, <1>4

\* REFUNDED is recorded of an account that was opened and paid in.
LEMMA FinishComplies ==
  ASSUME IInv, CInv, NEW w \in Worker, Finish(w)
  PROVE  Complies /\ CInv'
<1>1. /\ escrow \in Row /\ job[w] \in Job /\ Knows(job[w], refundSent)
      /\ Vouches(job[w], deposited, HasLeft, credited)
  BY JobFacts DEF CInv, IInv, TypeOK
<1>2. /\ deposited /\ job[w].amount \in 0..Deposit
      /\ job[w].amount = 0 \/ job[w].amount \in refundSent
      /\ job[w].amount # 0 => credited # 0
  BY <1>1 DEF Finish, At, Vouches, Paying, Knows, Asking, Job
<1>3. escrow'.refunded = job[w].amount /\ Opened'
  BY <1>1, RowWrites DEF Finish, Opened
<1>4. MoneyKept /\ HasLeft' = HasLeft /\ UNCHANGED depositSent
  BY DEF Finish, MoneyKept, HasLeft, Left, wallet
<1>5. Complies
  BY <1>2, <1>3, <1>4, RecordsComply
<1>6. \E j : Goto(w, j) /\ j.pc \notin Asking \union Restoring
  BY Harmless DEF Finish
<1> QED
  BY <1>3, <1>4, <1>5, <1>6, JobStarts DEF MoneyKept

\* The activation is no step of the contract, which does not ask what runs.
LEMMA ActivateComplies ==
  ASSUME IInv, CInv, NEW w \in Worker, Activate(w)
  PROVE  Complies /\ CInv'
<1>1. HasLeft' = HasLeft
  <2>1. deployment' = "ACTIVE" /\ revived' = HasLeft
    BY DEF Activate
  <2>2. HasLeft \in BOOLEAN
    BY DEF HasLeft, Left, IInv, TypeOK
  <2> QED
    BY <2>1, <2>2 DEF HasLeft, Left
<1>2. UNCHANGED <<escrow, depositSent>> /\ MoneyKept
  BY DEF Activate, MoneyKept, wallet
<1>3. RowKept
  BY <1>2 DEF RowKept, Opened
<1>4. \E j : Goto(w, j) /\ j.pc \notin Asking \union Restoring
  BY Harmless DEF Activate
<1> QED
  BY <1>1, <1>2, <1>3, <1>4, KeepsComply, JobStarts DEF MoneyKept, RowKept

LEMMA MoversComply ==
  ASSUME IInv, CInv, NEW w \in Worker,
         MarkClosed(w) \/ MarkSuspended(w) \/ SchedulerSuspend(w) \/ End(w)
  PROVE  Complies /\ CInv'
<1>1. UNCHANGED <<escrow, depositSent>> /\ MoneyKept /\ HasLeft' /\ job[w] \in Job
  BY JobFacts DEF MarkClosed, MarkSuspended, SchedulerSuspend, End, MoneyKept, HasLeft, Left, wallet
<1>2. \E j : Goto(w, j) /\ j.pc \notin Asking \union Restoring
  <2>1. CASE Finished(w)
    BY <2>1, Harmless
  <2>2. [IdleJob EXCEPT !.pc = "settle", !.then = "pause"].pc = "settle"
    BY DEF IdleJob
  <2>3. \A pc : [job[w] EXCEPT !.pc = pc].pc = pc
    BY <1>1 DEF Job
  <2> QED
    BY <2>1, <2>2, <2>3 DEF MarkClosed, MarkSuspended, SchedulerSuspend, End, Asking, Restoring
<1>3. Complies
  BY <1>1, LeavesComply
<1> QED
  BY <1>1, <1>2, <1>3, JobStarts DEF MoneyKept, Opened

LEMMA EnvironmentComplies ==
  ASSUME IInv, CInv,
         AuthDeposit \/ (\E a \in 1..Deposit : AuthRefund(a)) \/ DeploymentFails \/ Tick \/ UNCHANGED vars
  PROVE  Complies /\ CInv'
<1>1. UNCHANGED <<job, refundSent, depositSent>>
  BY DEF AuthDeposit, AuthRefund, DeploymentFails, Tick, vars, wallet
<1>2. RowKept /\ (deposited' => deposited \/ depositSent)
  <2>1. escrow'.status = escrow.status /\ escrow'.refunded = escrow.refunded
    BY DEF AuthDeposit, AuthRefund, DeploymentFails, Tick, vars, IInv, TypeOK, Row
  <2>2. deposited' => deposited \/ depositSent
    BY DEF AuthDeposit, AuthRefund, DeploymentFails, Tick, vars, wallet
  <2> QED
    BY <2>1, <2>2 DEF RowKept, Opened
<1>3. CInv'
  BY <1>1, <1>2 DEF CInv, RowKept
<1>4. CASE AuthDeposit
  <2>1. Contract!Fund
    BY <1>4 DEF AuthDeposit, CInv, Opened, HasLeft, Left, Contract!Fund
  <2> QED
    BY <1>3, <2>1 DEF Complies, Contract!Next
<1>5. CASE \E a \in 1..Deposit : AuthRefund(a)
  <2>1. PICK a \in 1..Deposit : AuthRefund(a)
    BY <1>5
  <2>2. Contract!Return(a)
    BY <2>1 DEF AuthRefund, HasLeft, Left, Contract!Return
  <2> QED
    BY <1>3, <2>2 DEF Complies, Contract!Next
<1>6. CASE DeploymentFails
  <2>1. UNCHANGED escrow /\ MoneyKept /\ (HasLeft => HasLeft')
    BY <1>6 DEF DeploymentFails, MoneyKept, HasLeft, Left, wallet
  <2> QED
    BY <1>3, <2>1, LeavesComply
<1>7. CASE Tick \/ UNCHANGED vars
  <2>1. MoneyKept /\ HasLeft' = HasLeft
    BY <1>7 DEF Tick, vars, MoneyKept, HasLeft, Left, wallet
  <2> QED
    BY <1>2, <1>3, <2>1, KeepsComply
<1> QED
  BY <1>4, <1>5, <1>6, <1>7

LEMMA NextComplies ==
  ASSUME IInv, CInv, [Next]_vars
  PROVE  Complies /\ CInv'
<1>1. ASSUME NEW w \in Worker, Start(w) \/ Step(w) \/ Crash(w)
      PROVE  Complies /\ CInv'
  BY <1>1, OthersComply, ActivateComplies, RefundComplies, ClaimComplies, SweepRefundComplies, FinishComplies, MoversComply, Zenon
  DEF Start, Step
<1>2. ASSUME AuthDeposit \/ (\E a \in 1..Deposit : AuthRefund(a)) \/ DeploymentFails \/ Tick \/ UNCHANGED vars
      PROVE  Complies /\ CInv'
  BY <1>2, EnvironmentComplies, Zenon
<1> QED
  BY <1>1, <1>2, Zenon DEF Next

\* The escrow implements EscrowContract: the initial states are the contract's, and
\* every step of a job, the auth service or the clock is a step of the contract, or none.
THEOREM Implementation == Spec => ImplementsContract
<1>1. Init => Contract!Init /\ CInv
  <2> SUFFICES ASSUME Init PROVE Contract!Init /\ CInv
    OBVIOUS
  <2>1. \A w \in Worker : job[w].pc = "idle"
    BY Idle DEF Init
  <2> QED
    BY <2>1 DEF Init, Contract!Init, CInv, Knows, Asking, Restoring, HasLeft, Left
<1>2. IInv /\ CInv /\ [Next]_vars => [Contract!Next]_Contract!vars /\ CInv'
  BY NextComplies DEF Complies
<1> QED
  BY Invariant, <1>1, <1>2, PTL DEF Spec, ImplementsContract, Contract!Spec
=============================================================================

----------------------------- MODULE MCServices -----------------------------
(***************************************************************************)
(* Six services that share no state, checked side by side: a behaviour     *)
(* starts in one of Parts, and only that one moves.                        *)
(***************************************************************************)
EXTENDS Integers, Sequences, FiniteSets, TLC

CONSTANTS
  Parts,
  Jobs, HourTicks, FloorTicks, StartedAt, MaxNow, MaxFault,                 \* HostedBilling
  Rows, First, MaxOthers, MaxMissed,                                        \* Suspension
  Probes, Others, Pods, NoOne, TxRetries, LongSettle, MaxSlips,             \* Wallet
  Providers, NoProvider, Threshold, MaxAttempts, MaxRetry, MaxRows, MaxUpset, \* Failover
  Shas, Deliveries, MaxJobs, SlowBuilds, MaxMishap,                         \* Builds
  Hour, Prices, Ppb, Deposits, MinRefill, Fleet, MaxMiss, MaxHours          \* Runway

VARIABLES
  part,
  clock, adapter, minimum, status, watermark, charged, hoursPaid, owed, cycle, job, endedAt,
  gap, excess, disturbed, failures,
  kind, dep, task, missed,
  queue, lock, call, mempool, open, refused, slips,
  row, lease, message, leader, streak, pass, userClosed, overlaps, threw, upset,
  build, push, spawner, builders, calls, image, deploying, recent, deployed, mishaps,
  now, price, deposit, account, phase, billedTo, due, misses, streaks, worst, thin, chain

\* Everybody but one caller is in the first pod.
LastOther == CHOOSE c \in Others : TRUE
pod == [c \in Probes \cup Others |-> IF c = LastOther THEN 2 ELSE 1]

B == INSTANCE HostedBilling
S == INSTANCE Suspension
W == INSTANCE Wallet
F == INSTANCE Failover
D == INSTANCE Builds
R == INSTANCE Runway WITH lease <- chain, streak <- streaks, MaxNow <- MaxHours * Hour

\* The sizes of things.
HostedAssumption ==
  /\ HourTicks \in Nat \ {0} /\ FloorTicks \in Nat /\ MaxNow \in Nat /\ MaxFault \in Nat
  /\ StartedAt \in 0..MaxNow
FailoverAssumption ==
  /\ IsFiniteSet(Pods) /\ MaxRows \in Nat \ {0} /\ {MaxRetry, MaxAttempts, MaxUpset, Threshold} \subseteq Nat
  /\ NoProvider \notin Providers
SuspensionAssumption == First \in Rows /\ MaxMissed \in Nat
WalletAssumption ==
  /\ TxRetries \in Nat \ {0} /\ MaxSlips \in Nat /\ NoOne \notin Probes
  /\ \A c \in Probes \cup Others : pod[c] \in Pods
BuildsAssumption == MaxJobs \in Nat /\ MaxMishap \in Nat
RunwayAssumption ==
  /\ Hour \in Nat \ {0} /\ Hour % 2 = 0 /\ Prices \cup Deposits \subseteq Nat
  /\ {Ppb, MinRefill, MaxMiss} \subseteq Nat /\ MaxHours \in Nat \ {0}

ASSUME ServicesAssumption ==
  /\ HostedAssumption /\ SuspensionAssumption /\ WalletAssumption /\ FailoverAssumption
  /\ BuildsAssumption /\ RunwayAssumption

bvars == <<clock, adapter, minimum, status, watermark, charged, hoursPaid, owed, cycle, job,
           endedAt, gap, excess, disturbed, failures>>
svars == <<kind, dep, task, missed>>
wvars == <<queue, lock, call, mempool, open, refused, slips>>
fvars == <<row, lease, message, leader, streak, pass, userClosed, overlaps, threw, upset>>
dvars == <<build, push, spawner, builders, calls, image, deploying, recent, deployed, mishaps>>
rvars == <<now, price, deposit, account, chain, phase, billedTo, due, misses, streaks, worst, thin>>
vars  == <<part, bvars, svars, wvars, fvars, dvars, rvars>>

AnyOf(set) == CHOOSE x \in set : TRUE

\* The parts that rest do so in one of their initial states.
Init ==
  /\ part \in Parts
  /\ B!Init /\ (part # "billing" => adapter = "phala" /\ minimum = 0)
  /\ S!Init /\ (part # "suspension" => kind = "phala")
  /\ W!Init
  /\ F!Init /\ (part # "failover" => leader = 1)
  /\ D!Init
  /\ R!Init /\ (part # "runway" => now = 0 /\ price = AnyOf(Prices) /\ deposit = AnyOf(Deposits))

Billing    == part = "billing"    /\ B!Next /\ UNCHANGED <<part, svars, wvars, fvars, dvars, rvars>>
Suspending == part = "suspension" /\ S!Next /\ UNCHANGED <<part, bvars, wvars, fvars, dvars, rvars>>
Signing    == part = "wallet"     /\ W!Next /\ UNCHANGED <<part, bvars, svars, fvars, dvars, rvars>>
FailingOver == part = "failover"  /\ F!Next /\ UNCHANGED <<part, bvars, svars, wvars, dvars, rvars>>
Building   == part = "builds"     /\ D!Next /\ UNCHANGED <<part, bvars, svars, wvars, fvars, rvars>>
Draining   == part = "runway"     /\ R!Next /\ UNCHANGED <<part, bvars, svars, wvars, fvars, dvars>>

Next == Billing \/ Suspending \/ Signing \/ FailingOver \/ Building \/ Draining

\* The fairness of Suspension, in the behaviours of its part.
Fairness ==
  /\ \A r \in Rows : WF_svars(part = "suspension" /\ S!Enforce("check", r))
  /\ \A t \in S!Tasks : WF_svars(part = "suspension" /\ S!Proceed(t))
  /\ WF_svars(part = "suspension" /\ S!Resuming)
Spec == Init /\ [][Next]_vars /\ Fairness

-----------------------------------------------------------------------------
\* Types of the six modules.
TypeOK == B!TypeOK /\ S!TypeOK /\ W!TypeOK /\ F!TypeOK /\ D!TypeOK /\ R!TypeOK

\* Every tick of a hosted deployment up to its watermark is paid exactly once.
ChargedOnce == B!ChargedOnce

\* The time up to a hosted deployment's end is charged, however it ended.
EndedIsCharged == B!EndedIsCharged

\* enforcer.ts:21: "stop any that exceed limits".
LimitsAreEnforced == S!LimitsAreEnforced

\* A deployment that runs undisturbed is under its policy's limits.
RunningIsUnderItsPolicy == S!RunningIsUnderItsPolicy

\* The wallet's queue never stalls, and probes close what they opened.
ProbesCloseWhatTheyOpen == part = "wallet" => W!ProbesCloseWhatTheyOpen /\ W!QueueMoves

\* A chain of failovers and retries never returns to a provider it left.
KnownBadAvoided == F!KnownBadAvoided

\* Within the policy's window failovers are as few as it says, and they leave
\* one live deployment.
FailoverBounded == F!FailoverCap /\ F!OneLive

\* The success of a build job deploys at most once.
DeployedOnce == D!DeployedOnce

\* A lease that is topped up as it should be, but for one failure, lasts.
RunwayLasts == R!RunwayLasts

\* escrowHealthMonitor.ts:877: "If the list query fails, we skip this cycle":
\* the monitor closes only what is gone.
LiveIsKept == R!LiveIsKept
=============================================================================

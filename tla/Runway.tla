------------------------------- MODULE Runway -------------------------------
(***************************************************************************)
(* How long an Akash lease can pay its provider: the deposit, the top-up   *)
(* after the lease (akashSteps.ts), one top-up per hour that is billed     *)
(* (computeBillingScheduler.ts), and the monitor that refills at half past *)
(* and closes what is gone (escrowHealthMonitor.ts).  The chain settles an *)
(* escrow account only when money is paid in; in between it drains unseen. *)
(***************************************************************************)
EXTENDS Integers

CONSTANTS Hour,       \* ticks of an hour; even
          Prices,     \* what leases cost per tick
          Ppb,        \* parseInt of any of them
          Deposits,   \* what their deposits are worth
          MinRefill,  \* the monitor's smallest refill
          Fleet,      \* ACTIVE deployments
          MaxMiss,    \* bound: top-ups that fail and runs that are missed
          MaxNow      \* bound: the clock

VARIABLES
  now,       \* the time, from a full hour
  price,     \* what the lease costs
  deposit,   \* what it was created with
  account,   \* its escrow account on the chain
  lease,     \* whether it is open; the chain ends it when it cannot pay
  phase,     \* akash_deployment.status
  billedTo,  \* lastBilledAt
  due,       \* what is to run, or is running, at this time
  misses,    \* failures so far
  streak,    \* failures in a row
  worst,     \* the longest streak
  thin       \* the first top-up failed

rvars == <<now, price, deposit, account, lease, phase, billedTo, due, misses, streak, worst, thin>>

PostLeaseHours == 2

TypeOK ==
  /\ now \in 0..MaxNow /\ price \in Prices /\ deposit \in Deposits
  /\ account \in [settled : Nat, at : 0..MaxNow]
  /\ lease \in {"open", "dry", "closed"}
  /\ phase \in {"CREATING_LEASE", "DEPLOYING", "ACTIVE", "CLOSED"}
  /\ billedTo \in 0..MaxNow
  /\ due \in {"nothing", "cycle", "top-up", "monitor", "refill", "close"}
  /\ misses \in 0..MaxMiss /\ streak \in 0..MaxMiss /\ worst \in 0..MaxMiss
  /\ thin \in BOOLEAN

Init ==
  /\ now \in 0 .. Hour - 1 /\ price \in Prices /\ deposit \in Deposits
  /\ account = [settled |-> deposit, at |-> now]
  /\ lease = "open" /\ phase = "CREATING_LEASE" /\ billedTo = 0 /\ due = "nothing"
  /\ misses = 0 /\ streak = 0 /\ worst = 0 /\ thin = FALSE

Balance == account.settled - (now - account.at) * price

\* A deposit settles the account first.
PayIn(amount) == account' = [settled |-> Balance + amount, at |-> now]
Went(well) ==
  IF well THEN streak' = 0 /\ UNCHANGED <<misses, worst>>
  ELSE /\ misses < MaxMiss /\ misses' = misses + 1
       /\ streak' = streak + 1
       /\ worst' = IF streak' > worst THEN streak' ELSE worst

-----------------------------------------------------------------------------
\* handleCreateLease: a top-up that fails is logged.
PostLease ==
  /\ phase = "CREATING_LEASE" /\ phase' = "DEPLOYING"
  /\ \/ PayIn(Ppb * Hour * PostLeaseHours) /\ Went(TRUE) /\ UNCHANGED thin
     \/ UNCHANGED account /\ Went(FALSE) /\ thin' = TRUE
  /\ UNCHANGED <<now, price, deposit, lease, billedTo, due>>

\* finalizeDeployment; billing starts.
Activate ==
  /\ phase = "DEPLOYING" /\ phase' = "ACTIVE" /\ billedTo' = now
  /\ UNCHANGED <<now, price, deposit, account, lease, due, misses, streak, worst, thin>>

-----------------------------------------------------------------------------
(* The billing cycle, at the full hour. *)
TooSoon ==
  /\ due = "cycle" /\ now - billedTo < Hour
  /\ due' = "nothing"
  /\ UNCHANGED <<now, price, deposit, account, lease, phase, billedTo, misses, streak, worst, thin>>

\* Whole hours are billed, however many the cycles before it missed.
Bill ==
  /\ due = "cycle" /\ now - billedTo >= Hour
  /\ billedTo' = billedTo + ((now - billedTo) \div Hour) * Hour
  /\ due' = "top-up"
  /\ UNCHANGED <<now, price, deposit, account, lease, phase, misses, streak, worst, thin>>

\* One hour is topped up.  A failure is reported, and the monitor relied on.
TopUp ==
  /\ due = "top-up" /\ due' = "nothing"
  /\ \/ lease = "open" /\ PayIn(Ppb * Hour) /\ Went(TRUE)
     \/ UNCHANGED account /\ Went(FALSE)
  /\ UNCHANGED <<now, price, deposit, lease, phase, billedTo, thin>>

\* No pod leads, the cycle before is still running, the key is known, or the
\* wallet in the auth service is empty.
MissCycle ==
  /\ due = "cycle" /\ now - billedTo >= Hour
  /\ due' = "nothing" /\ Went(FALSE)
  /\ UNCHANGED <<now, price, deposit, account, lease, phase, billedTo, thin>>

-----------------------------------------------------------------------------
(* The monitor, at half past. *)

\* Mutant: the settled balance is taken for the balance.
LooksLow == account.settled < Hour * Ppb

\* Less than MIN_ESCROW_HOURS, of what the code takes for an hour.
RunsLow == account.settled - (now - account.at) * Ppb < Hour * Ppb

\* The list of deployments; a failure of the query is an empty list, in which
\* everything is missing: too many to close, if the fleet has five or more.
MonitorReads ==
  /\ due = "monitor"
  /\ \/ lease # "open" /\ due' = "close" /\ UNCHANGED <<misses, streak, worst>>
     \/ lease = "open" /\ RunsLow /\ due' = "refill" /\ UNCHANGED <<misses, streak, worst>>
     \/ lease = "open" /\ ~RunsLow /\ due' = "nothing" /\ Went(TRUE)
     \/ due' = (IF Fleet >= 5 THEN "nothing" ELSE "close") /\ Went(FALSE)
  /\ UNCHANGED <<now, price, deposit, account, lease, phase, billedTo, thin>>

\* No pod leads, or the query of the wallet's address or the height fails.
MissMonitor ==
  /\ due = "monitor"
  /\ due' = "nothing" /\ Went(FALSE)
  /\ UNCHANGED <<now, price, deposit, account, lease, phase, billedTo, thin>>

Refill ==
  LET hour == Ppb * Hour IN
  /\ due = "refill" /\ due' = "nothing"
  /\ \/ PayIn(IF hour > MinRefill THEN hour ELSE MinRefill) /\ Went(TRUE)
     \/ UNCHANGED account /\ Went(FALSE)
  /\ UNCHANGED <<now, price, deposit, lease, phase, billedTo, thin>>

\* closeAndSettleDeployment: closed on the chain, if it is open there.
MonitorCloses ==
  /\ due = "close" /\ due' = "nothing"
  /\ phase' = "CLOSED"
  /\ lease' = IF lease = "open" THEN "closed" ELSE lease
  /\ UNCHANGED <<now, price, deposit, account, billedTo, misses, streak, worst, thin>>

-----------------------------------------------------------------------------
\* A lease is paid for every block, and ends when it cannot be.  Cycle and
\* monitor take less than a tick, as does a start.
Tick ==
  LET left == Balance - price IN
  /\ now < MaxNow /\ phase = "ACTIVE" /\ due = "nothing"
  /\ now' = now + 1
  /\ lease' = IF lease = "open" /\ left < 0 THEN "dry" ELSE lease
  /\ account' = IF lease = "open" /\ left < 0 THEN [settled |-> 0, at |-> now] ELSE account
  /\ due' = CASE now' % Hour = 0 -> "cycle" [] now' % Hour = Hour \div 2 -> "monitor" [] OTHER -> "nothing"
  /\ UNCHANGED <<price, deposit, phase, billedTo, misses, streak, worst, thin>>

Next ==
  \/ PostLease \/ Activate \/ TooSoon \/ Bill \/ TopUp \/ MissCycle
  \/ MonitorReads \/ MissMonitor \/ Refill \/ MonitorCloses \/ Tick

Spec == Init /\ [][Next]_rvars

-----------------------------------------------------------------------------
(* Properties. *)

\* config/akash.ts:57: "2 hours guarantees the billing scheduler gets at least
\* one successful top-up before the escrow enters the danger zone", whenever
\* the lease begins.  A lease runs dry only after two failures in a row; or
\* after failures each of which was made good, if the price was truncated, or
\* if the first top-up failed and the deposit is worth less than two hours.
RunwayLasts ==
  lease = "dry" => \/ worst >= 2
                   \/ worst = 1 /\ (price # Ppb \/ (thin /\ deposit < 2 * Hour * price))

\* escrowHealthMonitor.ts:877: "If the list query fails, we skip this cycle":
\* the monitor closes only what is gone.
LiveIsKept == phase = "CLOSED" => lease = "dry"
=============================================================================

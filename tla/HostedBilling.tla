--------------------------- MODULE HostedBilling ---------------------------
(***************************************************************************)
(* What a Phala or Spheron deployment is charged: the hourly cycle         *)
(* (computeBillingScheduler.ts, processPhalaDebits, processSpheronDebits), *)
(* the final settlement with its minimum runtime (deploymentSettlement.ts, *)
(* processFinal*Billing), the jobs that end the deployment, the ledger's   *)
(* reconciler, and a top-up that starts a CVM again.  One deployment;      *)
(* charges are spans of time.                                              *)
(***************************************************************************)
EXTENDS Integers

CONSTANTS Jobs,        \* bound: runs of the jobs that end the deployment, 1..n
          HourTicks,   \* ticks of an hour
          FloorTicks,  \* MINIMUM_RUNTIME_FLOOR_MS.gpu; less than an hour
          StartedAt,   \* activeStartedAt, within the first hour
          MaxNow,      \* bound: the clock
          MaxFault     \* bound: crashes and failed debits

VARIABLES
  clock,      \* the time
  adapter,    \* the provider
  minimum,    \* the deployment's minimum runtime: the floor, or none
  status,     \* status of its row
  watermark,  \* lastBilledAt
  charged,    \* ticks the auth service debited
  hoursPaid,  \* hours whose idempotency key it knows
  owed,       \* ticks in PENDING rows of the ledger
  cycle,      \* the billing cycle's work on this row
  job,        \* the jobs that end it
  endedAt,    \* the time up to which its end was settled
  gap,        \* ticks it was stopped before a top-up
  excess,     \* ticks the minimum runtime added
  disturbed,  \* a failure or an overlap happened
  failures    \* faults so far

bvars == <<clock, adapter, minimum, status, watermark, charged, hoursPaid, owed,
           cycle, job, endedAt, gap, excess, disturbed, failures>>

Longer(a, b)  == IF a > b THEN a ELSE b
Shorter(a, b) == IF a < b THEN a ELSE b
Time  == 0..MaxNow
Kinds == {"close", "pause", "suspend", "policy"}
Idle  == [pc |-> "idle", from |-> 0, at |-> 0, hours |-> 0]
Waiting == [pc |-> "new", kind |-> "close", from |-> 0, at |-> 0, due |-> 0, again |-> FALSE]

TypeOK ==
  /\ clock \in Time /\ adapter \in {"phala", "spheron"} /\ minimum \in {0, FloorTicks}
  /\ status \in {"ACTIVE", "STOPPED", "DELETED"}
  /\ {watermark, endedAt} \subseteq Time
  /\ {charged, owed, gap, excess} \subseteq Nat
  /\ hoursPaid \subseteq Time
  /\ cycle \in [pc : {"idle", "debit", "mirror"}, from : Time, at : Time, hours : Time]
  /\ job \in [Jobs -> [pc : {"new", "read", "debit", "write", "stop", "mark", "done"}, kind : Kinds,
                       from : Time, at : Time, due : Nat, again : BOOLEAN]]
  /\ disturbed \in BOOLEAN /\ failures \in 0..MaxFault

Init ==
  /\ adapter \in {"phala", "spheron"}
  /\ minimum \in IF adapter = "spheron" THEN {FloorTicks} ELSE {0, FloorTicks}
  /\ clock = StartedAt /\ status = "ACTIVE" /\ watermark = StartedAt
  /\ charged = 0 /\ hoursPaid = {} /\ owed = 0
  /\ cycle = Idle /\ job = [j \in Jobs |-> Waiting]
  /\ endedAt = StartedAt /\ gap = 0 /\ excess = 0
  /\ disturbed = FALSE /\ failures = 0

Done == [Waiting EXCEPT !.pc = "done"]
Fail == failures < MaxFault /\ failures' = failures + 1
Settling == \E j \in Jobs : job[j].pc \in {"debit", "write"}

-----------------------------------------------------------------------------
(* The cycle, on the hour.  It takes a row less than an hour past its      *)
(* watermark for billed already, and bills whole hours otherwise.          *)
CycleReads ==
  LET hours == (clock - watermark) \div HourTicks IN
  /\ cycle.pc = "idle" /\ status = "ACTIVE"
  /\ clock % HourTicks = 0 /\ hours >= 1
  /\ cycle' = [pc |-> "debit", from |-> watermark, at |-> clock, hours |-> hours]
  /\ disturbed' = (disturbed \/ Settling)
  /\ UNCHANGED <<clock, adapter, minimum, status, watermark, charged, hoursPaid, owed,
                 job, endedAt, gap, excess, failures>>

\* The key is the clock hour; a key the auth service knows changes nothing.
CycleDebits ==
  LET hour == cycle.at \div HourTicks IN
  /\ cycle.pc = "debit"
  /\ cycle' = [cycle EXCEPT !.pc = "mirror"]
  /\ charged' = charged + IF hour \in hoursPaid THEN 0 ELSE cycle.hours * HourTicks
  /\ hoursPaid' = hoursPaid \cup {hour}
  /\ UNCHANGED <<clock, adapter, minimum, status, watermark, owed, job, endedAt, gap,
                 excess, disturbed, failures>>

\* INSUFFICIENT_BALANCE, or an error before the debit: caught, and the next
\* cycle bills the hours that this one did not.
CycleRefused ==
  /\ cycle.pc = "debit"
  /\ cycle' = Idle
  /\ UNCHANGED <<clock, adapter, minimum, status, watermark, charged, hoursPaid, owed, job,
                 endedAt, gap, excess, disturbed, failures>>

\* Mutant: the watermark moves to the time of the cycle.
CycleMirrorsToNow ==
  /\ cycle.pc = "mirror"
  /\ watermark' = cycle.at /\ cycle' = Idle
  /\ UNCHANGED <<clock, adapter, minimum, status, charged, hoursPaid, owed, job, endedAt,
                 gap, excess, disturbed, failures>>

CycleMirrors ==
  /\ cycle.pc = "mirror"
  /\ watermark' = Shorter(cycle.at, cycle.from + cycle.hours * HourTicks)
  /\ cycle' = Idle
  /\ UNCHANGED <<clock, adapter, minimum, status, charged, hoursPaid, owed, job, endedAt,
                 gap, excess, disturbed, failures>>

\* A crash, or a lost answer, after the debit.
CycleBreaks ==
  /\ cycle.pc = "mirror" /\ Fail
  /\ cycle' = Idle /\ disturbed' = TRUE
  /\ UNCHANGED <<clock, adapter, minimum, status, watermark, charged, hoursPaid, owed, job,
                 endedAt, gap, excess>>

-----------------------------------------------------------------------------
(* A job that ends the deployment: the user's close or stop, the low       *)
(* balance pause, the suspension of the organisation, a policy's stop.     *)
(* All of them settle first, then stop upstream, then write the row.       *)
Begin(j) ==
  /\ job[j].pc = "new" /\ status = "ACTIVE"
  /\ \A i \in Jobs : i < j => job[i].pc # "new"
  /\ \E kind \in Kinds :
       job' = [job EXCEPT ![j] = [Waiting EXCEPT !.pc = "read", !.kind = kind, !.at = clock,
                                    !.again = (kind = "policy" /\ adapter = "spheron")]]
  /\ UNCHANGED <<clock, adapter, minimum, status, watermark, charged, hoursPaid, owed,
                 cycle, endedAt, gap, excess, disturbed, failures>>

\* What is left of the lifetime, or of the minimum runtime.
Settle(j) ==
  LET life == Longer(job[j].at - StartedAt, minimum)
      due  == Longer(0, life - (watermark - StartedAt)) IN
  /\ job[j].pc = "read"
  /\ job' = [job EXCEPT ![j].from = watermark, ![j].due = due,
                        ![j].pc = IF due = 0 THEN "stop" ELSE "debit"]
  /\ disturbed' = (disturbed \/ cycle.pc # "idle" \/ Settling)
  /\ UNCHANGED <<clock, adapter, minimum, status, watermark, charged, hoursPaid, owed,
                 cycle, endedAt, gap, excess, failures>>

(* settleViaLedger under a key of this job: debited, or left PENDING for   *)
(* the reconciler and logged, in which case the watermark does not move.   *)
Debit(j) ==
  /\ job[j].pc = "debit"
  /\ charged' = charged + job[j].due
  /\ job' = [job EXCEPT ![j].pc = "write"]
  /\ excess' = excess + job[j].due - (job[j].at - job[j].from)
  /\ UNCHANGED <<clock, adapter, minimum, status, watermark, hoursPaid, owed, cycle,
                 endedAt, gap, disturbed, failures>>

\* Mutant: the failed debit is logged and forgotten.
DebitForgotten(j) ==
  /\ job[j].pc = "debit" /\ Fail
  /\ job' = [job EXCEPT ![j].pc = "stop"]
  /\ disturbed' = TRUE
  /\ UNCHANGED <<clock, adapter, minimum, status, watermark, charged, hoursPaid, owed,
                 cycle, endedAt, gap, excess>>

DebitFails(j) ==
  /\ job[j].pc = "debit" /\ Fail
  /\ owed' = owed + job[j].due
  /\ job' = [job EXCEPT ![j].pc = "stop"]
  /\ disturbed' = TRUE
  /\ UNCHANGED <<clock, adapter, minimum, status, watermark, charged, hoursPaid, cycle,
                 endedAt, gap, excess>>

MoveWatermark(j) ==
  /\ job[j].pc = "write"
  /\ watermark' = job[j].at
  /\ job' = [job EXCEPT ![j].pc = "stop"]
  /\ UNCHANGED <<clock, adapter, minimum, status, charged, hoursPaid, owed, cycle, endedAt,
                 gap, excess, disturbed, failures>>

\* stopForPolicy settles a Spheron deployment and then calls its close, which
\* settles again if the row is ACTIVE.
SettleAgain(j) ==
  /\ job[j].pc = "stop" /\ job[j].again
  /\ job' = [job EXCEPT ![j] =
       CASE status = "ACTIVE"  -> [@ EXCEPT !.again = FALSE, !.at = clock, !.pc = "read"]
         [] status = "STOPPED" -> [@ EXCEPT !.again = FALSE, !.at = clock]
         [] OTHER              -> Done]
  /\ UNCHANGED <<clock, adapter, minimum, status, watermark, charged, hoursPaid, owed,
                 cycle, endedAt, gap, excess, disturbed, failures>>

\* The upstream stops the machine (or will, past the floor), or it refuses:
\* then the row stays as it is, except that a policy writes a CVM's anyway.
StopUpstream(j) ==
  /\ job[j].pc = "stop" /\ ~job[j].again
  /\ \/ job' = [job EXCEPT ![j].pc = "mark"]
     \/ /\ job[j].kind # "policy" \/ adapter = "spheron"
        /\ job' = [job EXCEPT ![j] = Done]
  /\ UNCHANGED <<clock, adapter, minimum, status, watermark, charged, hoursPaid, owed,
                 cycle, endedAt, gap, excess, disturbed, failures>>

\* Only the low balance pause looks at the status it replaces.
Ends(j) == CASE job[j].kind = "close" -> {"DELETED"} \cup IF adapter = "phala" THEN {"STOPPED"} ELSE {}
             [] job[j].kind = "policy" /\ adapter = "spheron" -> {"DELETED"}
             [] OTHER -> {"STOPPED"}

Mark(j) ==
  /\ job[j].pc = "mark"
  /\ job' = [job EXCEPT ![j] = Done]
  /\ IF job[j].kind = "pause" /\ status # "ACTIVE"
       THEN UNCHANGED <<status, endedAt>>
       ELSE /\ status' \in Ends(j)
            /\ endedAt' = IF status = "ACTIVE" THEN job[j].at ELSE endedAt
  /\ UNCHANGED <<clock, adapter, minimum, watermark, charged, hoursPaid, owed, cycle, gap,
                 excess, disturbed, failures>>

\* A crash of the process that runs the job.
JobBreaks(j) ==
  /\ job[j].pc \notin {"new", "done"} /\ Fail
  /\ job' = [job EXCEPT ![j] = Done]
  /\ owed' = owed + IF job[j].pc = "debit" THEN job[j].due ELSE 0   \* the row is written ahead
  /\ disturbed' = (disturbed \/ job[j].pc \in {"debit", "write"})
  /\ UNCHANGED <<clock, adapter, minimum, status, watermark, charged, hoursPaid, cycle,
                 endedAt, gap, excess>>

-----------------------------------------------------------------------------
\* handleComputeResumeCheck: the CVM starts again, billed from now on.
Resume ==
  /\ adapter = "phala" /\ status = "STOPPED"
  /\ status' = "ACTIVE" /\ watermark' = clock
  /\ gap' = gap + clock - watermark
  /\ disturbed' = (disturbed \/ cycle.pc # "idle" \/ Settling)
  /\ UNCHANGED <<clock, adapter, minimum, charged, hoursPaid, owed, cycle, job, endedAt,
                 excess, failures>>

Reconcile ==
  /\ owed > 0
  /\ charged' = charged + owed /\ owed' = 0
  /\ UNCHANGED <<clock, adapter, minimum, status, watermark, hoursPaid, cycle, job, endedAt,
                 gap, excess, disturbed, failures>>

\* A cycle and a job take less than a tick; between a policy's two settlements
\* there may be one.
Tick ==
  /\ clock < MaxNow /\ cycle.pc = "idle"
  /\ \A j \in Jobs : job[j].pc \in {"new", "done"} \/ (job[j].pc = "stop" /\ job[j].again)
  /\ clock' = clock + 1
  /\ UNCHANGED <<adapter, minimum, status, watermark, charged, hoursPaid, owed, cycle, job,
                 endedAt, gap, excess, disturbed, failures>>

CycleStep == CycleDebits \/ CycleRefused \/ CycleMirrors
JobStep(j) == \/ Settle(j) \/ Debit(j) \/ MoveWatermark(j) \/ SettleAgain(j)
              \/ StopUpstream(j) \/ Mark(j)

Next ==
  \/ CycleReads \/ CycleStep \/ CycleBreaks \/ Resume \/ Reconcile \/ Tick
  \/ \E j \in Jobs : Begin(j) \/ JobStep(j) \/ DebitFails(j) \/ JobBreaks(j)

Spec == Init /\ [][Next]_bvars

-----------------------------------------------------------------------------
(* Properties. *)

\* Between jobs every tick up to the watermark is paid once, but for those it
\* was stopped, and for the minimum runtime on top: the fraction of an hour
\* that a cycle leaves is neither lost nor charged twice by what follows.
ChargedOnce ==
  ~disturbed /\ cycle.pc = "idle" /\ ~Settling
    => charged + owed = watermark - StartedAt - gap + excess

\* However it ended, and whatever failed on the way, the time up to the end is
\* debited or announced in the ledger (which debits it, see SettlementLedger):
\* every job settles before it writes the row.
EndedIsCharged ==
  status # "ACTIVE" => charged + owed >= endedAt - StartedAt - gap

\* deploymentSettlement.ts:375: "The floor only fires on the FIRST settlement".
\* Nobody pays for more than the lifetime, or the minimum runtime.
FloorChargedOnce ==
  ~disturbed => charged <= Longer(minimum, clock - StartedAt - gap)
=============================================================================

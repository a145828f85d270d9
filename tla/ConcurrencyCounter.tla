-------------------------- MODULE ConcurrencyCounter --------------------------
(***************************************************************************)
(* The slots of one organisation: the counter row                          *)
(* (services/concurrency/concurrencyService.ts), the launches that claim a *)
(* slot under its row lock (resolvers/launchGuards.ts), the paths that end *)
(* a deployment and release a slot or forget to, and the reconciler that   *)
(* counts the deployments and overwrites the counter.                      *)
(*                                                                         *)
(* A launch creates one deployment and goes by its name; retries and       *)
(* resumptions create deployments that claimed nothing.  CREATING through  *)
(* ACTIVE, the statuses that take up a slot, are "active".                 *)
(***************************************************************************)
EXTENDS Integers, FiniteSets

CONSTANTS Deployment,
          Closer,        \* jobs that end or replace a deployment
          NoOne,
          Cap,           \* the tier's cap
          MaxFaults      \* bound on lost statements and crashes

ASSUME ConcurrencyAssumption ==
  /\ NoOne \notin Deployment
  /\ IsFiniteSet(Deployment)
  /\ Cap \in Nat \ {0}
  /\ MaxFaults \in Nat

VARIABLES row,      \* "none", "inserting" (not committed) or "present"
          counter,  \* active_count
          lock,     \* the launch that holds the row's lock
          pc, seen, \* [Deployment -> where its launch is, the count it read]
          status,   \* [Deployment -> status]
          job,      \* [Closer -> where it is]
          target,   \* [Closer -> the deployment it works on]
          counted,  \* what the reconciler counted and has yet to write
          faults

table == <<row, counter, lock>>
launches == <<pc, seen>>
jobs == <<job, target>>
vars == <<table, launches, status, jobs, counted, faults>>

Status == {"none", "active", "suspended", "failed", "closed"}

Init ==
  /\ row = "none"
  /\ counter = 0
  /\ lock = NoOne
  /\ pc = [d \in Deployment |-> "idle"]
  /\ seen = [d \in Deployment |-> 0]
  /\ status = [d \in Deployment |-> "none"]
  /\ job = [c \in Closer |-> "idle"]
  /\ target = [c \in Closer |-> NoOne]
  /\ counted = {}
  /\ faults = 0

\* countActiveDeploymentsForOrg
Occupied == Cardinality({d \in Deployment : status[d] = "active"})

-----------------------------------------------------------------------------
(* assertAndIncrementOrgConcurrency, and the fallback of launchGuards *)

\* Mutant: the row is read without FOR UPDATE.
ReadUnlocked(d) ==
  /\ pc[d] = "idle"
  /\ IF row = "present"
       THEN /\ seen' = [seen EXCEPT ![d] = counter]
            /\ pc' = [pc EXCEPT ![d] = "locked"]
       ELSE /\ pc' = [pc EXCEPT ![d] = "missing"]
            /\ UNCHANGED seen
  /\ UNCHANGED <<table, status, jobs, counted, faults>>

\* SELECT FOR UPDATE waits for the row's lock; a row not committed is not seen.
Read(d) ==
  /\ pc[d] = "idle"
  /\ IF row = "present"
       THEN /\ lock = NoOne
            /\ lock' = d
            /\ seen' = [seen EXCEPT ![d] = counter]
            /\ pc' = [pc EXCEPT ![d] = "locked"]
       ELSE /\ pc' = [pc EXCEPT ![d] = "missing"]
            /\ UNCHANGED <<lock, seen>>
  /\ UNCHANGED <<row, counter, status, jobs, counted, faults>>

\* The insert of a missing row waits for another one under way.  The unique
\* key rejects the loser; its transaction is aborted, the read that follows
\* fails with it, and the guard falls back to counting deployments.
Insert(d) ==
  /\ pc[d] = "missing"
  /\ \/ /\ row = "none"
        /\ row' = "inserting"
        /\ lock' = d
        /\ seen' = [seen EXCEPT ![d] = 0]
        /\ pc' = [pc EXCEPT ![d] = "locked"]
     \/ /\ row = "present"
        /\ pc' = [pc EXCEPT ![d] = "fallback"]
        /\ UNCHANGED <<row, lock, seen>>
  /\ UNCHANGED <<counter, status, jobs, counted, faults>>

\* The transaction commits the claim, or throws and rolls back.
Claim(d) ==
  /\ pc[d] = "locked"
  /\ lock' = NoOne
  /\ seen' = [seen EXCEPT ![d] = 0]
  /\ IF seen[d] + 1 > Cap
       THEN /\ row' = IF row = "inserting" THEN "none" ELSE row
            /\ pc' = [pc EXCEPT ![d] = "over"]
            /\ UNCHANGED counter
       ELSE /\ row' = "present"
            /\ counter' = seen[d] + 1
            /\ pc' = [pc EXCEPT ![d] = "launching"]
  /\ UNCHANGED <<status, jobs, counted, faults>>

\* The transaction dies: it is rolled back, and if its process lives the guard
\* falls back to counting.
Abort(d) ==
  /\ faults < MaxFaults
  /\ pc[d] = "locked"
  /\ lock' = NoOne
  /\ row' = IF row = "inserting" THEN "none" ELSE row
  /\ \E to \in {"fallback", "over"} : pc' = [pc EXCEPT ![d] = to]
  /\ seen' = [seen EXCEPT ![d] = 0]
  /\ faults' = faults + 1
  /\ UNCHANGED <<counter, status, jobs, counted>>

\* recomputeOrgConcurrency counts, then upserts.
Recount(d) ==
  /\ pc[d] = "fallback"
  /\ seen' = [seen EXCEPT ![d] = Occupied]
  /\ pc' = [pc EXCEPT ![d] = "recounted"]
  /\ UNCHANGED <<table, status, jobs, counted, faults>>

Recompute(d) ==
  /\ pc[d] = "recounted"
  /\ lock = NoOne
  /\ row' = "present"
  /\ counter' = seen[d]
  /\ seen' = [seen EXCEPT ![d] = 0]
  /\ pc' = [pc EXCEPT ![d] = "counting"]
  /\ UNCHANGED <<lock, status, jobs, counted, faults>>

\* It fails, and the guard goes on to the raw count.
RecomputeFails(d) ==
  /\ faults < MaxFaults
  /\ pc[d] = "recounted"
  /\ pc' = [pc EXCEPT ![d] = "counting"]
  /\ seen' = [seen EXCEPT ![d] = 0]
  /\ faults' = faults + 1
  /\ UNCHANGED <<table, status, jobs, counted>>

\* The raw count decides, and a launch it lets through has claimed no slot.
RawCount(d) ==
  /\ pc[d] = "counting"
  /\ pc' = [pc EXCEPT ![d] = IF Occupied >= Cap THEN "over" ELSE "launching"]
  /\ UNCHANGED <<table, seen, status, jobs, counted, faults>>

\* The orchestrator creates the deployment.
Launch(d) ==
  /\ pc[d] = "launching"
  /\ pc' = [pc EXCEPT ![d] = "over"]
  /\ status' = [status EXCEPT ![d] = "active"]
  /\ UNCHANGED <<table, seen, jobs, counted, faults>>

\* The balance check refuses, the submission fails, or the process dies: no
\* path gives the slot back.
LaunchFails(d) ==
  /\ pc[d] = "launching"
  /\ pc' = [pc EXCEPT ![d] = "over"]
  /\ UNCHANGED <<table, seen, status, jobs, counted, faults>>

-----------------------------------------------------------------------------
(* The paths that end a deployment *)

\* A pipeline step fails for good, or a retry e follows that claims no slot.
Fail(d) ==
  /\ status[d] = "active"
  /\ status' = [status EXCEPT ![d] = "failed"]
  /\ \/ UNCHANGED pc
     \/ \E e \in Deployment :
          /\ pc[e] = "idle"
          /\ pc' = [pc EXCEPT ![e] = "launching"]
  /\ UNCHANGED <<table, seen, jobs, counted, faults>>

Begin(c, d, to) ==
  /\ job[c] = "idle"
  /\ job' = [job EXCEPT ![c] = to]
  /\ target' = [target EXCEPT ![c] = d]

\* A user closes what is not CLOSED; the row is written after the chain
\* answered, whatever its status is by then.
OpenClose(c, d) ==
  /\ status[d] \in {"active", "suspended", "failed"}
  /\ Begin(c, d, "closing")
  /\ UNCHANGED <<table, launches, status, counted, faults>>

\* The suspension webhook, likewise.
OpenSuspend(c, d) ==
  /\ status[d] = "active"
  /\ Begin(c, d, "suspending")
  /\ UNCHANGED <<table, launches, status, counted, faults>>

\* The billing scheduler, the escrow monitor and the stale sweeper move a row
\* that still has the status they read.
GuardedEnd(c, d) ==
  /\ status[d] = "active"
  /\ Begin(c, d, "releasing")
  /\ \E to \in {"suspended", "closed", "failed"} :
       status' = [status EXCEPT ![d] = to]
  /\ UNCHANGED <<table, launches, counted, faults>>

\* The resumption webhook deploys e in place of the suspended d.
Resume(c, d) ==
  /\ status[d] = "suspended"
  /\ Begin(c, d, "replacing")
  /\ \E e \in Deployment :
       /\ pc[e] = "idle"
       /\ pc' = [pc EXCEPT ![e] = "over"]
       /\ status' = [status EXCEPT ![e] = "active"]
  /\ UNCHANGED <<table, seen, counted, faults>>

Mark(c) ==
  /\ job[c] \in {"closing", "suspending", "replacing"}
  /\ status' = [status EXCEPT ![target[c]] =
                  IF job[c] = "suspending" THEN "suspended" ELSE "closed"]
  /\ job' = [job EXCEPT ![c] = IF @ = "closing" THEN "releasing" ELSE "done"]
  /\ UNCHANGED <<table, launches, target, counted, faults>>

\* The process dies, or a call of its throws.
MarkFails(c) ==
  /\ job[c] \in {"closing", "suspending", "replacing"}
  /\ faults < MaxFaults
  /\ job' = [job EXCEPT ![c] = "done"]
  /\ faults' = faults + 1
  /\ UNCHANGED <<table, launches, status, target, counted>>

\* Mutant: no floor.
ReleaseUnclamped(c) ==
  /\ job[c] = "releasing"
  /\ row = "present" => lock = NoOne
  /\ counter' = IF row = "present" THEN counter - 1 ELSE counter
  /\ job' = [job EXCEPT ![c] = "released"]
  /\ UNCHANGED <<row, lock, launches, status, target, counted, faults>>

\* decrementOrgConcurrency: one UPDATE, which waits for the row's lock.
Release(c) ==
  /\ job[c] = "releasing"
  /\ row = "present" => lock = NoOne
  /\ counter' = IF row = "present" /\ counter > 0 THEN counter - 1 ELSE counter
  /\ job' = [job EXCEPT ![c] = "released"]
  /\ UNCHANGED <<row, lock, launches, status, target, counted, faults>>

\* It throws and is only logged, or the process dies before it.
ReleaseLost(c) ==
  /\ faults < MaxFaults
  /\ job[c] = "releasing"
  /\ job' = [job EXCEPT ![c] = "done"]
  /\ faults' = faults + 1
  /\ UNCHANGED <<table, launches, status, target, counted>>

-----------------------------------------------------------------------------
(* reconcileAll, once per billing cycle *)

\* Mutant: only organisations without a counter row are recounted.
CountMissing ==
  /\ counted = {}
  /\ row # "present"
  /\ Occupied > 0
  /\ counted' = {Occupied}
  /\ UNCHANGED <<table, launches, status, jobs, faults>>

\* Organisations with a counter row or a deployment are counted...
Count ==
  /\ counted = {}
  /\ row = "present" \/ Occupied > 0
  /\ counted' = {Occupied}
  /\ UNCHANGED <<table, launches, status, jobs, faults>>

\* ... and the count overwrites the counter.
Overwrite ==
  /\ lock = NoOne
  /\ \E n \in counted : counter' = n
  /\ row' = "present"
  /\ counted' = {}
  /\ UNCHANGED <<lock, launches, status, jobs, faults>>

-----------------------------------------------------------------------------

LaunchStep(d) ==
  \/ Insert(d) \/ Claim(d) \/ Abort(d)
  \/ Recount(d) \/ Recompute(d) \/ RecomputeFails(d) \/ RawCount(d)
  \/ Launch(d) \/ LaunchFails(d)

CloserStep(c) == Mark(c) \/ MarkFails(c) \/ Release(c) \/ ReleaseLost(c)

Next ==
  \/ \E d \in Deployment : Read(d) \/ LaunchStep(d) \/ Fail(d)
  \/ \E c \in Closer : CloserStep(c)
  \/ \E c \in Closer, d \in Deployment :
       OpenClose(c, d) \/ OpenSuspend(c, d) \/ GuardedEnd(c, d) \/ Resume(c, d)
  \/ Count
  \/ Overwrite

Spec == Init /\ [][Next]_vars

\* What has started goes on, and the billing cycle comes round again.
FairSpec ==
  /\ Spec
  /\ \A d \in Deployment : WF_vars(LaunchStep(d))
  /\ \A c \in Closer : WF_vars(CloserStep(c))
  /\ WF_vars(Count)
  /\ WF_vars(Overwrite)

-----------------------------------------------------------------------------
(* Properties *)

TypeOK ==
  /\ row \in {"none", "inserting", "present"}
  /\ counter \in 0..Cardinality(Deployment)
  /\ lock \in Deployment \union {NoOne}
  /\ pc \in [Deployment -> {"idle", "missing", "locked", "fallback", "recounted",
                            "counting", "launching", "over"}]
  /\ seen \in [Deployment -> 0..Cardinality(Deployment)]
  /\ status \in [Deployment -> Status]
  /\ job \in [Closer -> {"idle", "closing", "suspending", "replacing",
                         "releasing", "released", "done"}]
  /\ target \in [Closer -> Deployment \union {NoOne}]
  /\ counted \in {{}} \union {{n} : n \in 0..Cardinality(Deployment)}
  /\ faults \in 0..MaxFaults

\* Concurrent claimants serialise: whatever a launch, a release or the
\* reconciler does between its read and its commit, a claim adds one slot to
\* the counter as it stands, and never one beyond the cap.
ClaimsSerialize ==
  [][\A d \in Deployment :
       pc[d] = "locked" /\ pc'[d] = "launching" =>
         counter' = counter + 1 /\ counter' <= Cap]_vars

\* Drift does not last: whichever releases were lost, doubled or forgotten,
\* once launches and closes come to rest the counter is the number of
\* deployments that take up a slot.
DriftIsRepaired == <>[](counter = Occupied)

\* What the comment on decrementOrgConcurrency says: a second release of the
\* slot of one deployment changes nothing.
ReleaseIsIdempotent ==
  [][\A c \in Closer :
       /\ job[c] = "releasing" /\ job'[c] = "released"
       /\ \E b \in Closer : job[b] = "released" /\ target[b] = target[c]
       => counter' = counter]_vars
=============================================================================

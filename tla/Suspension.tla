----------------------------- MODULE Suspension -----------------------------
(***************************************************************************)
(* Why a Phala or Spheron deployment is stopped, and what starts it again: *)
(* the policy enforcer (services/policy), the low balance pause and the    *)
(* organisation's suspension (services/billing), the user, and the top-up  *)
(* webhook.  They share the row's status and its policy's stopReason, and  *)
(* write both without a look at what the others did.                       *)
(***************************************************************************)
EXTENDS Naturals, FiniteSets

CONSTANTS Rows,       \* rows of one service: a deployment and what it is resumed to
          First,      \* the row that is deployed
          MaxOthers,  \* bound: requests under way beside the enforcer
          MaxMissed   \* bound: refused policy stops, failed updates, crashes

VARIABLES
  kind,    \* "phala" or "spheron"
  dep,     \* the rows, with the policy of each
  task,    \* what each kind of job is doing
  missed   \* such failures so far

svars == <<kind, dep, task, missed>>

Requests == {"expire", "pause", "suspend", "stop", "delete", "resume"}
Tasks    == {"check"} \cup Requests
Policing == {"check", "expire"}
Reasons  == {"null", "BALANCE_LOW", "MANUAL_STOP", "LIMIT", "NO_POLICY"}
Pcs      == {"idle", "reason", "upstream", "mark", "after", "start", "activate", "clear", "schedule"}
Quiet    == [pc |-> "idle", row |-> First, todo |-> {}]

TypeOK ==
  /\ kind \in {"phala", "spheron"}
  /\ dep \in [Rows -> [status : {"none", "ACTIVE", "STOPPED", "DELETED"}, reason : Reasons,
                       over : BOOLEAN, machine : {"on", "off", "gone"}, crossed : BOOLEAN]]
  /\ task \in [Tasks -> [pc : Pcs, row : Rows, todo : SUBSET Rows]]
  /\ missed \in 0..MaxMissed

\* Its history: a stop had yet to record its reason when the row last became ACTIVE.
Unborn == [status |-> "none", reason |-> "null", over |-> FALSE, machine |-> "gone",
           crossed |-> FALSE]

Init ==
  /\ kind \in {"phala", "spheron"}
  /\ dep = [r \in Rows |->
       IF r = First THEN [Unborn EXCEPT !.status = "ACTIVE", !.machine = "on"] ELSE Unborn]
  /\ task = [t \in Tasks |-> Quiet]
  /\ missed = 0

Go(t, pc)  == task' = [task EXCEPT ![t].pc = pc]
Finish(t)  == task' = [task EXCEPT ![t] = Quiet]
At(t, pc)  == task[t].pc = pc
Row(t)     == task[t].row
HasSlot(t) == \/ t = "check"
              \/ Cardinality({u \in Requests : ~At(u, "idle")}) < MaxOthers
Failure    == missed < MaxMissed /\ missed' = missed + 1
Take(t, r, pc) == /\ At(t, "idle") /\ HasSlot(t)
                  /\ task' = [task EXCEPT ![t] = [Quiet EXCEPT !.pc = pc, !.row = r]]

-----------------------------------------------------------------------------
\* Time or charges take the deployment past its policy's limit.
Exceed(r) ==
  /\ dep[r].status = "ACTIVE" /\ ~dep[r].over
  /\ dep' = [dep EXCEPT ![r].over = TRUE]
  /\ UNCHANGED <<kind, task, missed>>

(* checkPolicyLimits after each billing cycle, handlePolicyExpiry and the  *)
(* start-up pass: an ACTIVE deployment, past a limit, not yet stopped for  *)
(* any reason.                                                             *)
Enforceable(r) == dep[r].status = "ACTIVE" /\ dep[r].over /\ dep[r].reason = "null"

Enforce(t, r) ==
  /\ t \in Policing /\ Enforceable(r)
  /\ Take(t, r, "reason")
  /\ UNCHANGED <<kind, dep, missed>>

\* stopForPolicy records the reason before it stops anything.
RecordReason(t) ==
  /\ At(t, "reason")
  /\ dep' = [dep EXCEPT ![Row(t)].reason = "LIMIT"]
  /\ Go(t, "upstream")
  /\ UNCHANGED <<kind, missed>>

(* pauseOrgDeployments, handleSuspendOrg, stopPhalaDeployment, and the     *)
(* delete mutations: the row must be ACTIVE for the first two, and may be  *)
(* STOPPED for the user's.                                                 *)
Request(t, r) ==
  /\ t \in {"pause", "suspend", "stop", "delete"}
  /\ t = "stop" => kind = "phala"
  /\ dep[r].status = "ACTIVE" \/ (t \in {"stop", "delete"} /\ dep[r].status = "STOPPED")
  /\ Take(t, r, "upstream")
  /\ UNCHANGED <<kind, dep, missed>>

\* Spheron has no stop: its machine is deleted, at once or after the floor.
Off(t) == IF t = "delete" \/ kind = "spheron" THEN "gone" ELSE "off"

\* spheronProvider.close returns if the row is DELETED already.
StopUpstream(t) ==
  LET r == Row(t)
      skip == t \in Policing /\ kind = "spheron" /\ dep[r].status = "DELETED" IN
  /\ At(t, "upstream")
  /\ IF skip THEN Finish(t) /\ UNCHANGED dep
     ELSE /\ dep' = [dep EXCEPT ![r].machine = IF @ = "gone" THEN @ ELSE Off(t)]
          /\ Go(t, "mark")
  /\ UNCHANGED <<kind, missed>>

\* The upstream refuses: the row stays as it is and the error is returned or
\* logged.  For a policy, stopReason is set by then, and nobody tries again.
StopRefused(t) ==
  /\ At(t, "upstream")
  /\ IF t \in Policing
       THEN /\ Failure
            /\ IF kind = "phala" THEN Go(t, "mark") ELSE Finish(t)
       ELSE Finish(t) /\ UNCHANGED missed
  /\ UNCHANGED <<kind, dep>>

\* A process dies at its job, and nobody takes it up.
Dies(t) ==
  /\ ~At(t, "idle") /\ Failure
  /\ Finish(t)
  /\ UNCHANGED <<kind, dep>>

\* Only the pause looks at the status that it replaces.
Target(t) == IF t = "delete" \/ (t \in Policing /\ kind = "spheron") THEN "DELETED" ELSE "STOPPED"
Mark(t) ==
  /\ At(t, "mark")
  /\ IF t = "pause" /\ dep[Row(t)].status # "ACTIVE"
       THEN Finish(t) /\ UNCHANGED dep
       ELSE dep' = [dep EXCEPT ![Row(t)].status = Target(t)] /\ Go(t, "after")
  /\ UNCHANGED <<kind, missed>>

\* The user's and the adapter's close record MANUAL_STOP, also for a policy
\* that closes a Spheron deployment; the suspension's update may fail, and the
\* pause records a reason only if funds are reserved.
StopReason(t) ==
  CASE dep[Row(t)].reason = "NO_POLICY" -> {"NO_POLICY"}
    [] t \in {"stop", "delete"}         -> {"MANUAL_STOP"}
    [] t \in {"pause", "suspend"}       -> {"BALANCE_LOW", dep[Row(t)].reason}
    [] t \in Policing                   -> {IF kind = "spheron" THEN "MANUAL_STOP" ELSE dep[Row(t)].reason}

RecordStop(t) ==
  /\ At(t, "after")
  /\ \E reason \in StopReason(t) : dep' = [dep EXCEPT ![Row(t)].reason = reason]
  /\ Finish(t)
  /\ UNCHANGED <<kind, missed>>

-----------------------------------------------------------------------------
(* handleComputeResumeCheck reads the STOPPED rows of the organisation and *)
(* goes through them; an error goes on with the next.                      *)
Resume ==
  LET stopped == {r \in Rows : dep[r].status = "STOPPED"} IN
  /\ At("resume", "idle") /\ HasSlot("resume") /\ stopped # {}
  /\ task' = [task EXCEPT !["resume"] = [Quiet EXCEPT !.pc = "start", !.todo = stopped]]
  /\ UNCHANGED <<kind, dep, missed>>

Following(todo) == IF todo = {} THEN Quiet ELSE [Quiet EXCEPT !.pc = "start", !.todo = todo]

\* Phala: the CVM starts again.
StartCvm(r) ==
  /\ kind = "phala" /\ At("resume", "start") /\ r \in task["resume"].todo
  /\ LET rest == task["resume"].todo \ {r} IN
     IF dep[r].machine = "gone"
       THEN task' = [task EXCEPT !["resume"] = Following(rest)] /\ UNCHANGED dep
       ELSE /\ dep' = [dep EXCEPT ![r].machine = "on"]
            /\ task' = [task EXCEPT !["resume"] = [pc |-> "activate", row |-> r, todo |-> rest]]
  /\ UNCHANGED <<kind, missed>>

\* Whatever the row's status, and whoever is at work on it.
ActivateCvm ==
  LET r == Row("resume") IN
  /\ At("resume", "activate")
  /\ dep' = [dep EXCEPT ![r].status = "ACTIVE",
                        ![r].crossed = \E t \in Tasks : At(t, "after") /\ Row(t) = r]
  /\ Go("resume", "clear")
  /\ UNCHANGED <<kind, missed>>

\* Mutant: the reason is left on the policy.
KeepReason ==
  /\ At("resume", "clear")
  /\ Go("resume", "schedule")
  /\ UNCHANGED <<kind, dep, missed>>

\* Whatever the reason is; a failed update is logged.
ClearReason ==
  /\ At("resume", "clear")
  /\ \/ dep' = [dep EXCEPT ![Row("resume")].reason = IF @ = "NO_POLICY" THEN @ ELSE "null"]
        /\ UNCHANGED missed
     \/ UNCHANGED dep /\ Failure
  /\ Go("resume", "schedule")
  /\ UNCHANGED kind

\* scheduleOrEnforcePolicyExpiry: past the limit, the policy stops it here.
ScheduleExpiry ==
  LET r == Row("resume") IN
  /\ At("resume", "schedule")
  /\ \/ /\ Enforceable(r) /\ At("expire", "idle")
        /\ task' = [task EXCEPT !["expire"] = [Quiet EXCEPT !.pc = "reason", !.row = r],
                                !["resume"] = Following(@.todo)]
     \/ task' = [task EXCEPT !["resume"] = Following(@.todo)]   \* a job is published
  /\ UNCHANGED <<kind, dep, missed>>

\* Spheron: a new row and machine, with a policy whose time starts anew and
\* whose spending is copied, or with none if the copy fails; the old row stays
\* STOPPED.
Redeploy(r, new) ==
  /\ kind = "spheron" /\ At("resume", "start") /\ r \in task["resume"].todo
  /\ dep[new].status = "none"
  /\ LET born == [Unborn EXCEPT !.status = "ACTIVE", !.machine = "on"] IN
     \/ \E over \in {FALSE, dep[r].over} : dep' = [dep EXCEPT ![new] = [born EXCEPT !.over = over]]
        /\ UNCHANGED missed
     \/ dep' = [dep EXCEPT ![new] = [born EXCEPT !.reason = "NO_POLICY"]] /\ Failure
  /\ task' = [task EXCEPT !["resume"] = Following(@.todo \ {r})]
  /\ UNCHANGED kind

ResumeFails(r) ==
  /\ At("resume", "start") /\ r \in task["resume"].todo
  /\ task' = [task EXCEPT !["resume"] = Following(@.todo \ {r})]
  /\ UNCHANGED <<kind, dep, missed>>

-----------------------------------------------------------------------------
Proceed(t) == RecordReason(t) \/ StopUpstream(t) \/ Mark(t) \/ RecordStop(t)
Resuming ==
  \/ ActivateCvm \/ ClearReason \/ ScheduleExpiry
  \/ \E r \in Rows : StartCvm(r) \/ ResumeFails(r) \/ \E new \in Rows : Redeploy(r, new)

Next ==
  \/ \E r \in Rows : Exceed(r) \/ \E t \in Tasks : Enforce(t, r) \/ Request(t, r)
  \/ \E t \in Tasks : Proceed(t) \/ StopRefused(t) \/ Dies(t)
  \/ Resume \/ Resuming

\* The enforcer runs after every billing cycle; what was started goes on.
\* Whether an expiry job is delivered, and what users do, is not obliged.
Fairness == /\ \A r \in Rows : WF_svars(Enforce("check", r))
            /\ \A t \in Tasks : WF_svars(Proceed(t))
            /\ WF_svars(Resuming)
Spec == Init /\ [][Next]_svars /\ Fairness

-----------------------------------------------------------------------------
(* Properties. *)

\* enforcer.ts:21: "stop any that exceed limits".  A deployment past its limit
\* is stopped.
LimitsAreEnforced ==
  \A r \in Rows : dep[r].over /\ dep[r].status = "ACTIVE" ~> dep[r].status # "ACTIVE"

\* The enforcer passes over a policy that has a stopReason.  A deployment that
\* runs, with nobody at work on it, is under its policy's limits, whatever
\* stopped and resumed it before and in whatever order, unless something failed,
\* or its last resumption came between a stop's write of the row and the same
\* stop's write of the reason.
Busy(r) == \E t \in Tasks : ~At(t, "idle") /\ Row(t) = r
RunningIsUnderItsPolicy ==
  \A r \in Rows :
    dep[r].status = "ACTIVE" /\ missed = 0 /\ ~dep[r].crossed /\ ~Busy(r) => dep[r].reason = "null"

\* resumeHandler.ts:276 clears "BALANCE_LOW stopReason on policy if resuming":
\* no resumption undoes a stop for another reason.
OnlyLowBalanceResumes ==
  [][\A r \in Rows : dep[r].status = "STOPPED" /\ dep'[r].status = "ACTIVE"
                       => dep[r].reason \in {"null", "BALANCE_LOW"}]_svars
=============================================================================

------------------------------ MODULE Failover ------------------------------
(***************************************************************************)
(* The sweep of active Akash deployments (staleDeploymentSweeper.ts,       *)
(* reconcileActiveDeployments) and the failover it starts                  *)
(* (failover/failoverService.ts), for one service that opted in: each pass *)
(* probes the leases, counts bad answers in the pod's memory, and closes   *)
(* what is gone or redeploys what is unhealthy on another provider.  The   *)
(* deployment pipeline is one step here (AkashPipeline has its parts).     *)
(***************************************************************************)
EXTENDS Naturals, FiniteSets

CONSTANTS Providers,    \* providers that bid
          NoProvider,   \* a row before its lease
          Pods,         \* replicas; one of them leads
          Threshold,    \* GONE_THRESHOLD, UNHEALTHY_THRESHOLD
          MaxAttempts,  \* failoverPolicy.maxAttempts
          MaxRetry,     \* MAX_RETRY_COUNT
          MaxRows,      \* bound: rows of the service
          MaxUpset      \* bound: handovers, failed closes, lost messages

VARIABLES
  row,       \* the service's rows of akash_deployment
  lease,     \* what the provider would say of each row's container
  message,   \* rows whose SUBMIT_TX job is to be delivered
  leader,    \* the pod that leads
  streak,    \* goneCounters and unhealthyCounters, per pod
  pass,      \* the sweep in each pod
  userClosed,\* history: the user closed a deployment
  overlaps,  \* history: a pass was still running when another pod took over
  threw,     \* history: a failover's close threw
  upset      \* disturbances so far

fvars == <<row, lease, message, leader, streak, pass, userClosed, overlaps, threw, upset>>

ServiceRows  == 1..MaxRows
\* The flag tells the rows that a failover created within the policy's window.
Absent == [status |-> "ABSENT", provider |-> NoProvider, excluded |-> {}, failover |-> FALSE,
           tries |-> 0, lineage |-> {}, why |-> "none"]
NoPass == [pc |-> "idle", todo |-> {}, gone |-> {}, sick |-> {}, at |-> 1, excluded |-> {}]
Quiet  == [r \in ServiceRows |-> [gone |-> 0, sick |-> 0]]

Is(status) == {r \in ServiceRows : row[r].status \in status}
Live == Is({"CREATING", "ACTIVE"})
Used == ServiceRows \ Is({"ABSENT"})

TypeOK ==
  /\ row \in [ServiceRows ->
       [status : {"ABSENT", "CREATING", "ACTIVE", "CLOSED", "FAILED", "PERMANENTLY_FAILED"},
        provider : Providers \cup {NoProvider}, excluded : SUBSET Providers,
        failover : BOOLEAN, tries : 0..MaxRetry, lineage : SUBSET ServiceRows,
        why : {"none", "deterministic", "cancelled", "exhausted"}]]
  /\ lease \in [ServiceRows -> {"up", "down", "gone"}] /\ message \subseteq Used
  /\ leader \in Pods
  /\ streak \in [Pods -> [ServiceRows -> [gone : Nat, sick : Nat]]]
  /\ pass \in [Pods ->
       [pc : {"idle", "probe", "act", "close", "spawn", "publish"}, todo : SUBSET ServiceRows,
        gone : SUBSET ServiceRows, sick : SUBSET ServiceRows, at : ServiceRows,
        excluded : SUBSET Providers]]
  /\ {userClosed, threw} \subseteq BOOLEAN
  /\ overlaps \in 0..MaxUpset /\ upset \in 0..MaxUpset

Init ==
  /\ row = [r \in ServiceRows |-> IF r = 1 THEN [Absent EXCEPT !.status = "CREATING"] ELSE Absent]
  /\ lease = [r \in ServiceRows |-> "up"] /\ message = {1}
  /\ leader \in Pods /\ streak = [p \in Pods |-> Quiet] /\ pass = [p \in Pods |-> NoPass]
  /\ userClosed = FALSE /\ overlaps = 0 /\ threw = FALSE /\ upset = 0

Upset == upset < MaxUpset /\ upset' = upset + 1
NextRow == Cardinality(Used) + 1

-----------------------------------------------------------------------------
(* The pipeline. *)

\* It ends on a provider that bid and is not excluded.
Placed(r, p) ==
  /\ r \in message /\ row[r].status = "CREATING" /\ p \notin row[r].excluded
  /\ row' = [row EXCEPT ![r].status = "ACTIVE", ![r].provider = p]
  /\ message' = message \ {r}
  /\ UNCHANGED <<lease, leader, streak, pass, userClosed, overlaps, threw, upset>>

GiveUp(r, p, why) ==
  row' = [row EXCEPT ![r].status = "PERMANENTLY_FAILED", ![r].provider = p, ![r].why = why]

\* Mutant: the retry excludes what its row excluded, and not its provider.
RetryForgetsProvider(r, p) ==
  row' = [row EXCEPT ![r].status = "FAILED", ![r].provider = p,
                     ![NextRow] = [Absent EXCEPT !.status = "CREATING", !.excluded = row[r].excluded,
                                    !.tries = row[r].tries + 1, !.lineage = row[r].lineage \cup {r}]]

Retry(r, p) ==
  row' = [row EXCEPT ![r].status = "FAILED", ![r].provider = p,
                     ![NextRow] = [Absent EXCEPT !.status = "CREATING",
                                    !.excluded = row[r].excluded \cup ({p} \ {NoProvider}),
                                    !.tries = row[r].tries + 1, !.lineage = row[r].lineage \cup {r}]]

\* Or it fails, with or without a lease: HANDLE_FAILURE.  A deterministic
\* failure, one after a CLOSED sibling, and the last one are final.
HandleFailure(r, p, deterministic) ==
  /\ r \in message /\ row[r].status = "CREATING" /\ p \notin row[r].excluded
  /\ IF row[r].tries < MaxRetry /\ ~deterministic /\ Is({"CLOSED"}) = {}
       THEN NextRow \in ServiceRows /\ Retry(r, p) /\ message' = (message \ {r}) \cup {NextRow}
       ELSE /\ GiveUp(r, p, CASE deterministic -> "deterministic"
                              [] row[r].tries = MaxRetry -> "exhausted"
                              [] OTHER -> "cancelled")
            /\ message' = message \ {r}
  /\ UNCHANGED <<lease, leader, streak, pass, userClosed, overlaps, threw, upset>>

\* A row whose message was never published: sweepStaleDeployments.
Stale(r) ==
  /\ r \in Is({"CREATING"}) \ message
  /\ row' = [row EXCEPT ![r].status = "FAILED"]
  /\ UNCHANGED <<lease, message, leader, streak, pass, userClosed, overlaps, threw, upset>>

\* closeAkashDeployment: the row, and its siblings in progress.
UserCloses(r) ==
  /\ r \in Live /\ ~userClosed /\ userClosed' = TRUE
  /\ row' = [s \in ServiceRows |->
               IF s = r \/ s \in Is({"CREATING"}) THEN [row[s] EXCEPT !.status = "CLOSED"]
               ELSE row[s]]
  /\ UNCHANGED <<lease, message, leader, streak, pass, overlaps, threw, upset>>

\* The container stops, or the provider ends the lease.
Breaks(r, how) ==
  /\ r \in Is({"ACTIVE"}) /\ lease[r] = "up"
  /\ lease' = [lease EXCEPT ![r] = how]
  /\ UNCHANGED <<row, message, leader, streak, pass, userClosed, overlaps, threw, upset>>

-----------------------------------------------------------------------------
(* The pass. *)

\* The lease of leadership moves; a pass in flight goes on in its pod.
Handover(p) ==
  /\ p # leader /\ Upset
  /\ leader' = p
  /\ overlaps' = overlaps + IF pass[leader].pc = "idle" THEN 0 ELSE 1
  /\ UNCHANGED <<row, lease, message, streak, pass, userClosed, threw>>

StartPass(p) ==
  /\ p = leader /\ pass[p].pc = "idle" /\ Is({"ACTIVE"}) # {}
  /\ pass' = [pass EXCEPT ![p] = [NoPass EXCEPT !.pc = "probe", !.todo = Is({"ACTIVE"})]]
  /\ UNCHANGED <<row, lease, message, leader, streak, userClosed, overlaps, threw, upset>>

\* getHealth: by the row's status if that says it all, otherwise by the
\* provider's answer, or no answer.
Readings(r) ==
  CASE row[r].status = "CLOSED" -> {"unknown"}
    [] row[r].status \in {"FAILED", "PERMANENTLY_FAILED"} -> {"gone"}
    [] row[r].status = "ACTIVE" -> {"unknown", lease[r]}
    [] OTHER -> {"up"}

\* An answer of one kind ends the streaks of the others.
Counted(old, reading) ==
  LET capped(n) == IF n < Threshold THEN n + 1 ELSE n IN
  [gone |-> IF reading = "gone" THEN capped(old.gone) ELSE 0,
   sick |-> IF reading = "down" THEN capped(old.sick) ELSE 0]

Probe(p, reading) ==
  LET r   == CHOOSE r \in pass[p].todo : TRUE   \* in the order of the query, which has none
      now == Counted(streak[p][r], reading) IN
  /\ pass[p].pc = "probe" /\ pass[p].todo # {} /\ reading \in Readings(r)
  /\ streak' = [streak EXCEPT ![p][r] = now]
  /\ pass' = [pass EXCEPT ![p].todo = @ \ {r},
                          ![p].gone = IF now.gone = Threshold THEN @ \cup {r} ELSE @,
                          ![p].sick = IF now.sick = Threshold THEN @ \cup {r} ELSE @]
  /\ UNCHANGED <<row, lease, message, leader, userClosed, overlaps, threw, upset>>

\* Half of the fleet is to be closed or moved: this pass does nothing, and
\* the streaks begin anew.
MassEvent(p) ==
  LET hit == pass[p].gone \cup pass[p].sick IN
  /\ pass[p].pc = "probe" /\ pass[p].todo = {} /\ hit # {}
  /\ streak' = [streak EXCEPT ![p] = [r \in ServiceRows |->
                  [gone |-> IF r \in pass[p].gone THEN 0 ELSE @[r].gone,
                   sick |-> IF r \in pass[p].sick THEN 0 ELSE @[r].sick]]]
  /\ pass' = [pass EXCEPT ![p] = NoPass]
  /\ UNCHANGED <<row, lease, message, leader, userClosed, overlaps, threw, upset>>

Act(p) ==
  /\ pass[p].pc = "probe" /\ pass[p].todo = {}
  /\ pass' = [pass EXCEPT ![p].pc = "act"]
  /\ UNCHANGED <<row, lease, message, leader, streak, userClosed, overlaps, threw, upset>>

EndPass(p) ==
  /\ pass[p].pc = "act" /\ pass[p].gone \cup pass[p].sick = {}
  /\ pass' = [pass EXCEPT ![p] = NoPass]
  /\ UNCHANGED <<row, lease, message, leader, streak, userClosed, overlaps, threw, upset>>

\* provider.close settles, refunds and marks the row, unless it is CLOSED.
Closed(r) == row' = [row EXCEPT ![r].status = "CLOSED"]

\* A lease that is gone.  Whether or not the close threw, its streaks end.
CloseGone(p, r) ==
  /\ pass[p].pc = "act" /\ r \in pass[p].gone
  /\ \/ Closed(r) /\ UNCHANGED upset
     \/ UNCHANGED row /\ Upset
  /\ streak' = [streak EXCEPT ![p][r] = [gone |-> 0, sick |-> 0]]
  /\ pass' = [pass EXCEPT ![p].gone = @ \ {r}]
  /\ UNCHANGED <<lease, message, leader, userClosed, overlaps, threw>>

-----------------------------------------------------------------------------
(* A failover. *)

\* countAttemptsInWindow.
Failovers == {r \in Used : row[r].failover}

\* windowHours after a failover: the oldest one counts no more.
WindowPasses(r) ==
  /\ r \in Failovers /\ \A s \in Failovers : r <= s
  /\ row' = [row EXCEPT ![r].failover = FALSE]
  /\ UNCHANGED <<lease, message, leader, streak, pass, userClosed, overlaps, threw, upset>>

\* evaluateFailoverEligibility.  The application's own health may speak
\* against it; the row's status is not looked at.
NotEligible(p, r) ==
  /\ pass[p].pc = "act" /\ r \in pass[p].sick
  /\ pass' = [pass EXCEPT ![p].sick = @ \ {r}]
  /\ UNCHANGED <<row, lease, message, leader, streak, userClosed, overlaps, threw, upset>>

\* Mutant: only the replacements of this very row count.
EvaluateOwn(p, r) ==
  /\ pass[p].pc = "act" /\ r \in pass[p].sick
  /\ Cardinality({s \in Failovers : r \in row[s].lineage}) < MaxAttempts
  /\ pass' = [pass EXCEPT ![p].pc = "close", ![p].at = r, ![p].sick = @ \ {r},
                          ![p].excluded = row[r].excluded \cup {row[r].provider}]
  /\ UNCHANGED <<row, lease, message, leader, streak, userClosed, overlaps, threw, upset>>

Evaluate(p, r) ==
  /\ pass[p].pc = "act" /\ r \in pass[p].sick
  /\ Cardinality(Failovers) < MaxAttempts
  /\ pass' = [pass EXCEPT ![p].pc = "close", ![p].at = r, ![p].sick = @ \ {r},
                          ![p].excluded = row[r].excluded \cup {row[r].provider}]
  /\ UNCHANGED <<row, lease, message, leader, streak, userClosed, overlaps, threw, upset>>

\* executeFailover: close the old row; if that throws, go on all the same.
CloseOld(p) ==
  /\ pass[p].pc = "close"
  /\ \/ Closed(pass[p].at) /\ UNCHANGED <<threw, upset>>
     \/ UNCHANGED row /\ threw' = TRUE /\ Upset
  /\ pass' = [pass EXCEPT ![p].pc = "spawn"]
  /\ UNCHANGED <<lease, message, leader, streak, userClosed, overlaps>>

\* The row of the replacement.
Spawn(p) ==
  /\ pass[p].pc = "spawn" /\ NextRow \in ServiceRows
  /\ row' = [row EXCEPT ![NextRow] =
               [Absent EXCEPT !.status = "CREATING", !.failover = TRUE, !.excluded = pass[p].excluded,
                              !.lineage = row[pass[p].at].lineage \cup {pass[p].at}]]
  /\ pass' = [pass EXCEPT ![p].pc = "publish", ![p].at = NextRow]
  /\ UNCHANGED <<lease, message, leader, streak, userClosed, overlaps, threw, upset>>

\* Its SUBMIT_TX job; the sweep catches the error of a failed publish.
Publish(p) ==
  /\ pass[p].pc = "publish"
  /\ \/ message' = message \cup {pass[p].at} /\ UNCHANGED upset
     \/ UNCHANGED message /\ Upset
  /\ pass' = [pass EXCEPT ![p].pc = "act", ![p].at = 1, ![p].excluded = {}]
  /\ UNCHANGED <<row, lease, leader, streak, userClosed, overlaps, threw>>

\* A message that comes after its row ended is acknowledged.
Ignore(r) ==
  /\ r \in message /\ row[r].status # "CREATING"
  /\ message' = message \ {r}
  /\ UNCHANGED <<row, lease, leader, streak, pass, userClosed, overlaps, threw, upset>>

Next ==
  \/ \E r \in ServiceRows :
       \/ \E p \in Providers : Placed(r, p)
       \/ \E p \in Providers \cup {NoProvider}, d \in BOOLEAN : HandleFailure(r, p, d)
       \/ Stale(r) \/ UserCloses(r) \/ Ignore(r) \/ WindowPasses(r)
       \/ \E how \in {"down", "gone"} : Breaks(r, how)
  \/ \E p \in Pods :
       \/ Handover(p) \/ StartPass(p) \/ MassEvent(p) \/ Act(p) \/ EndPass(p)
       \/ \E reading \in {"up", "down", "gone", "unknown"} : Probe(p, reading)
       \/ CloseOld(p) \/ Spawn(p) \/ Publish(p)
       \/ \E r \in ServiceRows : CloseGone(p, r) \/ NotEligible(p, r) \/ Evaluate(p, r)

Spec == Init /\ [][Next]_fvars

-----------------------------------------------------------------------------
(* Properties. *)

\* akashSteps.ts:545: "we never fail back onto a known-bad host".  Along a
\* chain of failovers and retries, in whatever order, no provider is used twice.
KnownBadAvoided ==
  \A r \in Is({"ACTIVE"}) : \A s \in row[r].lineage : row[s].provider # row[r].provider

\* In no stretch of windowHours does the service fail over more than maxAttempts
\* times, whatever becomes of its rows; a pass that is still running when another
\* pod takes over adds at most one.
FailoverCap == Cardinality(Failovers) <= MaxAttempts + overlaps

\* failoverService.ts:88: "the cap is on TOTAL attempts in the window so a cap of
\* 3 means "the original + 2 failovers"".  The code does not hold to it, for it
\* counts the failovers alone.
AttemptsAreCapped == Cardinality(Failovers) + 1 <= MaxAttempts + overlaps

\* executeFailover closes the dead deployment before it spends escrow on the
\* next: as long as no close threw and no passes overlapped, the service has
\* at most one deployment that is live or on its way, whoever closes or fails
\* it meanwhile.
OneLive == overlaps = 0 /\ ~threw => Cardinality(Live) <= 1

\* akashSteps.ts:1507: "If the user manually closed any deployment for this
\* service, stop retrying": a row is given up as cancelled only if the user did.
RetriesUnlessUserClosed == (\E r \in Used : row[r].why = "cancelled") => userClosed
=============================================================================

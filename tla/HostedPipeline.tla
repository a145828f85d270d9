--------------------------- MODULE HostedPipeline ---------------------------
(***************************************************************************)
(* The queue-driven pipelines that rent a machine from Phala or Spheron    *)
(* (services/queue/phalaSteps.ts, spheronSteps.ts), the resolvers and the  *)
(* provider adapters that end a deployment, and the sweeper's passes over  *)
(* the same rows.  Handlers are split where they await the upstream: what  *)
(* they read before may be stale when they write, and every write of a     *)
(* status is unconditional except the sweeper's.                           *)
(***************************************************************************)
EXTENDS Naturals, FiniteSets

CONSTANTS Rows,      \* deployment rows of one service
          Machines,  \* machines the upstream can hand out
          MaxRetry,  \* MAX_RETRY_COUNT
          MaxPoll,   \* *_POLL_MAX_ATTEMPTS, and the probe's attempts
          MaxDeploy, \* bound: deployments the user asks for
          MaxFault   \* bound: crashes, redeliveries and machine deaths

NoVm == "no_vm"
ASSUME HostedAssumption ==
  /\ IsFiniteSet(Rows) /\ IsFiniteSet(Machines) /\ NoVm \notin Machines
  /\ MaxRetry \in Nat /\ MaxPoll \in Nat \ {0} /\ {MaxDeploy, MaxFault} \subseteq Nat

VARIABLES
  provider,  \* which of the two pipelines the service uses
  row,       \* the deployment rows
  machine,   \* upstream: state of each machine
  owner,     \* upstream: the row a machine is named after
  msgs,      \* steps in the queue; delivered at least once
  flight,    \* handlers between the upstream's answer and the row's update
  failing,   \* failure handlers: what they read, and whether FAILED is written
  closing,   \* user closes that called the upstream and have not written
  faults     \* faults so far

vars == <<provider, row, machine, owner, msgs, flight, failing, closing, faults>>

InProgress == {"CREATING", "STARTING"}
Terminal   == {"ACTIVE", "FAILED", "STOPPED", "DELETED", "PERMANENTLY_FAILED"}
Statuses   == InProgress \cup Terminal
Steps      == {"DEPLOY", "POLL_STATUS", "RUN_CLOUDINIT_PROBE", "HANDLE_FAILURE"}

RowRecord == [status : Statuses \cup {"none"}, vm : Machines \cup {NoVm},
              ip : BOOLEAN, retryCount : 0..MaxRetry, upstreamDeleted : BOOLEAN]
Message   == [step : Steps, row : Rows, attempt : 1..MaxPoll + 1]

TypeOK ==
  /\ provider \in {"phala", "spheron"}
  /\ row \in [Rows -> RowRecord]
  /\ machine \in [Machines -> {"unborn", "young", "old", "gone"}]
  /\ owner \in [Machines -> Rows \cup {NoVm}]
  /\ msgs \subseteq Message
  /\ flight \subseteq [row : Rows, kind : {"launch", "deploy", "activate"}, vm : Machines]
  /\ failing \subseteq [row : Rows, vm : Machines \cup {NoVm}, retryable : BOOLEAN,
                        wrote : BOOLEAN]
  /\ closing \subseteq [row : Rows, to : {"STOPPED", "DELETED", "PAUSED"}, cleaned : BOOLEAN]
  /\ faults \in 0..MaxFault

Unborn == [status |-> "none", vm |-> NoVm, ip |-> FALSE, retryCount |-> 0,
           upstreamDeleted |-> FALSE]

Init ==
  /\ provider \in {"phala", "spheron"}
  /\ row = [r \in Rows |-> Unborn]
  /\ machine = [v \in Machines |-> "unborn"]
  /\ owner = [v \in Machines |-> NoVm]
  /\ msgs = {} /\ flight = {} /\ failing = {} /\ closing = {}
  /\ faults = 0

-----------------------------------------------------------------------------
(* The queue: a step is delivered at least once and in no order, so a      *)
(* message may stay after it is handled.                                   *)
Fault == faults < MaxFault /\ faults' = faults + 1
Step(s, r, n) == [step |-> s, row |-> r, attempt |-> n]
Ack(m, new) == \/ msgs' = (msgs \ {m}) \cup new /\ UNCHANGED faults
               \/ msgs' = msgs \cup new /\ Fault

(* The upstream.  Spheron refuses a DELETE during a machine's first twenty *)
(* minutes; Phala has no such floor.  A live machine may also refuse for   *)
(* any other reason (a timeout, a 5xx), which every caller tolerates.      *)
Live(v) == machine[v] \in {"young", "old"}
\* The name of a Spheron machine is its row's, and one team cannot hold two
\* live machines of one name; Phala has no such rule.
NameIsFree(r) == provider = "phala" \/ \A v \in Machines : owner[v] = r => ~Live(v)
\* Machines and rows are interchangeable: the next one is any fresh one.
NextMachine == CHOOSE v \in Machines : machine[v] = "unborn"
NextRow     == CHOOSE r \in Rows : row[r].status = "none"
Rent(r, v) == /\ machine[v] = "unborn" /\ v = NextMachine /\ NameIsFree(r)
              /\ owner' = [owner EXCEPT ![v] = r]
              /\ machine' = [machine EXCEPT ![v] = IF provider = "spheron" THEN "young" ELSE "old"]
CanDelete(v) == machine[v] # "young"
DeleteMachine(v) == machine' = [machine EXCEPT ![v] = IF v \in Machines THEN "gone" ELSE @]

\* A best-effort DELETE: nothing to delete, deleted, or the error is logged.
TryDelete(v) == \/ v = NoVm /\ UNCHANGED machine
                \/ v \in Machines /\ CanDelete(v) /\ DeleteMachine(v)
                \/ v \in Machines /\ Live(v) /\ UNCHANGED machine

-----------------------------------------------------------------------------
(* deployToPhala, deployToSpheron and the orchestrators: the row is        *)
(* created CREATING.  Phala enqueues the first step; Spheron posts at once *)
(* in the resolver and enqueues POLL_STATUS after the row is updated.      *)
\* Mutant: the retry counts itself twice.
NewRowCountsTwice(r, n) ==
  [Unborn EXCEPT !.status = "CREATING", !.retryCount = IF n = 0 THEN 0 ELSE n + 1]
NewRow(r, n) == [Unborn EXCEPT !.status = "CREATING", !.retryCount = n]

Deploy(r) ==
  /\ row[r].status = "none" /\ r = NextRow
  /\ Cardinality({s \in Rows : row[s].status # "none" /\ row[s].retryCount = 0}) < MaxDeploy
  /\ \/ /\ row' = [row EXCEPT ![r] = NewRow(r, 0)]
        /\ msgs' = IF provider = "phala" THEN msgs \cup {Step("DEPLOY", r, 1)}
                    ELSE msgs                    \* the request dies before the POST
        /\ UNCHANGED <<machine, owner, flight>>
     \/ /\ provider = "spheron"
        /\ row' = [row EXCEPT ![r] = NewRow(r, 0)]
        /\ \E v \in Machines :
             Rent(r, v) /\ flight' = flight \cup {[row |-> r, kind |-> "launch", vm |-> v]}
        /\ UNCHANGED msgs
     \/ /\ provider = "spheron"                 \* SpheronCreateRejectedError
        /\ row' = [row EXCEPT ![r] = [NewRow(r, 0) EXCEPT !.status = "FAILED"]]
        /\ UNCHANGED <<machine, owner, msgs, flight>>
  /\ UNCHANGED <<provider, failing, closing, faults>>

\* deployServiceSpheron after its POST, then the resolver's enqueue: an error
\* on either is thrown to the user and starts no failure step.
SaveLaunched(f) ==
  /\ f \in flight /\ f.kind = "launch"
  /\ flight' = flight \ {f}
  /\ \/ UNCHANGED <<row, msgs>>
     \/ /\ row' = [row EXCEPT ![f.row].vm = f.vm, ![f.row].status = "STARTING"]
        /\ msgs' \in {msgs, msgs \cup {Step("POLL_STATUS", f.row, 1)}}
  /\ UNCHANGED <<provider, machine, owner, failing, closing, faults>>

\* failDirectly: the queue refused the failure step.
FailDirectly(r) == row' = [row EXCEPT ![r].status = "FAILED"] /\ TryDelete(row[r].vm)

\* A handler gives up: HANDLE_FAILURE is enqueued, or written directly.
GiveUp(m) ==
  \/ Ack(m, {Step("HANDLE_FAILURE", m.row, 1)}) /\ UNCHANGED <<row, machine>>
  \/ Ack(m, {}) /\ FailDirectly(m.row)

(* handleDeployVm, handleDeployCvm up to the upstream's answer. *)
RequestMachine(m) ==
  \/ GiveUp(m) /\ UNCHANGED <<owner, flight>>
  \/ /\ \E v \in Machines :
          Rent(m.row, v) /\ flight' = flight \cup {[row |-> m.row, kind |-> "deploy", vm |-> v]}
     /\ Ack(m, {}) /\ UNCHANGED row

HandleDeploy(m) ==
  /\ m \in msgs /\ m.step = "DEPLOY"
  /\ \/ /\ row[m.row].status \in Terminal
        /\ Ack(m, {}) /\ UNCHANGED <<row, machine, owner, flight>>
     \/ /\ row[m.row].status \in InProgress      \* re-entry: Spheron only
        /\ provider = "spheron" /\ row[m.row].vm # NoVm
        /\ Ack(m, {Step("POLL_STATUS", m.row, 1)})
        /\ UNCHANGED <<row, machine, owner, flight>>
     \/ /\ row[m.row].status \in InProgress
        /\ provider = "phala" \/ row[m.row].vm = NoVm
        /\ RequestMachine(m)
  /\ UNCHANGED <<provider, failing, closing>>

(* ... and from the answer on: the row is updated whatever it became. *)
SaveDeployed(f) ==
  /\ f \in flight /\ f.kind = "deploy"
  /\ flight' = flight \ {f}
  /\ \/ /\ row' = [row EXCEPT ![f.row].vm = f.vm, ![f.row].status = "STARTING"]
        /\ \/ msgs' = msgs \cup {Step("POLL_STATUS", f.row, 1)}
           \/ msgs' = msgs \cup {Step("HANDLE_FAILURE", f.row, 1)}   \* enqueue failed
        /\ UNCHANGED machine
     \/ /\ msgs' = msgs \cup {Step("HANDLE_FAILURE", f.row, 1)}      \* update failed
        /\ UNCHANGED <<row, machine>>
     \/ \E saved \in {f.vm, row[f.row].vm} :                         \* ... and that too
          /\ row' = [row EXCEPT ![f.row].vm = saved, ![f.row].status = "FAILED"]
          /\ TryDelete(saved) /\ UNCHANGED msgs
  /\ UNCHANGED <<provider, owner, failing, closing, faults>>

(* handlePollStatus.  For Phala a running machine is the end; for Spheron  *)
(* it must have an address, and the cloud-init probe follows.              *)
PollAgain(m) ==
  IF m.attempt < MaxPoll
    THEN Ack(m, {Step(m.step, m.row, m.attempt + 1)}) /\ UNCHANGED <<row, machine>>
    ELSE GiveUp(m)

SpheronRunning(m) ==
  /\ provider = "spheron"
  /\ row' = [row EXCEPT ![m.row].ip = TRUE]
  /\ Ack(m, {Step("RUN_CLOUDINIT_PROBE", m.row, 1)})
  /\ UNCHANGED <<machine, flight>>

PhalaRunning(m) ==
  /\ provider = "phala"
  /\ flight' = flight \cup {[row |-> m.row, kind |-> "activate", vm |-> row[m.row].vm]}
  /\ Ack(m, {}) /\ UNCHANGED <<row, machine>>

HandlePoll(m) ==
  LET r == m.row  v == row[m.row].vm IN
  /\ m \in msgs /\ m.step = "POLL_STATUS"
  /\ \/ /\ row[r].status \in Terminal
        /\ Ack(m, {}) /\ UNCHANGED <<row, machine, flight>>
     \/ /\ row[r].status \in InProgress
        /\ \/ PollAgain(m) /\ UNCHANGED flight                     \* not yet, or an error
           \/ v \in Machines /\ machine[v] = "gone" /\ GiveUp(m) /\ UNCHANGED flight
           \/ v \in Machines /\ Live(v) /\ (SpheronRunning(m) \/ PhalaRunning(m))
  /\ UNCHANGED <<provider, owner, failing, closing>>

(* handleRunCloudInitProbe: the ssh round trip is long, then ACTIVE. *)
HandleProbe(m) ==
  LET r == m.row IN
  /\ m \in msgs /\ m.step = "RUN_CLOUDINIT_PROBE"
  /\ \/ /\ row[r].status \in Terminal
        /\ Ack(m, {}) /\ UNCHANGED <<row, machine, flight>>
     \/ /\ row[r].status \in InProgress
        /\ \/ ~row[r].ip /\ GiveUp(m) /\ UNCHANGED flight
           \/ row[r].ip /\ PollAgain(m) /\ UNCHANGED flight
           \/ /\ row[r].ip /\ row[r].vm \in Machines /\ Live(row[r].vm)
              /\ flight' = flight \cup {[row |-> r, kind |-> "activate", vm |-> row[r].vm]}
              /\ Ack(m, {}) /\ UNCHANGED <<row, machine>>
  /\ UNCHANGED <<provider, owner, failing, closing>>

Activate(f) ==
  /\ f \in flight /\ f.kind = "activate"
  /\ flight' = flight \ {f}
  /\ row' = [row EXCEPT ![f.row].status = "ACTIVE"]
  /\ UNCHANGED <<provider, owner, machine, msgs, failing, closing, faults>>

-----------------------------------------------------------------------------
(* handlePhalaFailure, handleSpheronFailure: the guard reads a row in       *)
(* progress; FAILED is then written over whatever the row has become.  A   *)
(* redelivery after that finds a terminal row and does nothing.            *)
HandleFailure(m) ==
  /\ m \in msgs /\ m.step = "HANDLE_FAILURE"
  /\ Ack(m, {})
  /\ \/ row[m.row].status \in Terminal /\ UNCHANGED failing
     \/ /\ row[m.row].status \in InProgress
        /\ \E retryable \in BOOLEAN :
             failing' = failing \cup
               {[row |-> m.row, vm |-> row[m.row].vm, retryable |-> retryable, wrote |-> FALSE]}
  /\ UNCHANGED <<provider, owner, row, machine, flight, closing>>

WriteFailed(f) ==
  /\ f \in failing /\ ~f.wrote
  /\ failing' = (failing \ {f}) \cup {[f EXCEPT !.wrote = TRUE]}
  /\ row' = [row EXCEPT ![f.row].status = "FAILED"]
  /\ UNCHANGED <<provider, owner, machine, msgs, flight, closing, faults>>

UserCancelled == \E r \in Rows : row[r].status \in {"STOPPED", "DELETED"}

\* The user-cancelled branch of handlePhalaFailure does not delete the CVM.
KeepsMachine(f) ==
  provider = "phala" /\ f.retryable /\ row[f.row].retryCount < MaxRetry /\ UserCancelled

FailForGood(f) ==
  /\ ~f.retryable \/ row[f.row].retryCount >= MaxRetry \/ UserCancelled
  /\ row' = [row EXCEPT ![f.row].status = "PERMANENTLY_FAILED"]
  /\ IF KeepsMachine(f) THEN UNCHANGED machine ELSE TryDelete(f.vm)
  /\ UNCHANGED msgs

Retry(f) ==
  LET n == row[f.row].retryCount + 1 IN
  /\ f.retryable /\ n <= MaxRetry /\ ~UserCancelled
  /\ TryDelete(f.vm)
  /\ \E r \in Rows :
       /\ row[r].status = "none" /\ r = NextRow
       /\ \/ /\ row' = [row EXCEPT ![r] = NewRow(r, n)]
             /\ msgs' = msgs \cup {Step("DEPLOY", r, 1)}
          \/ /\ row' = [row EXCEPT ![r] = [NewRow(r, n) EXCEPT !.status = "FAILED"]]
             /\ UNCHANGED msgs

FinishFailure(f) ==
  /\ f \in failing /\ f.wrote
  /\ failing' = failing \ {f}
  /\ FailForGood(f) \/ Retry(f)
  /\ UNCHANGED <<provider, owner, flight, closing, faults>>

-----------------------------------------------------------------------------
(* stopPhalaDeployment, deletePhalaDeployment, deleteSpheronDeployment and *)
(* the adapters' close: whatever the row's status, the machine it names    *)
(* is deleted upstream, then the row is written.  Spheron's floor is no    *)
(* error: the row goes DELETED and the sweeper finishes.  Any other error  *)
(* leaves the row alone.                                                   *)
CloseTargets == IF provider = "phala" THEN {"STOPPED", "DELETED"} ELSE {"DELETED"}

StartClose(r) ==
  LET v == row[r].vm IN
  /\ row[r].status \notin {"none", "DELETED"}
  /\ closing = {}             \* bound: one close at a time, none repeated
  /\ \E to \in CloseTargets :
       LET cleaned == v # NoVm /\ CanDelete(v) IN
       /\ closing' = closing \cup {[row |-> r, to |-> to, cleaned |-> cleaned]}
       /\ IF cleaned THEN DeleteMachine(v) ELSE UNCHANGED machine
  /\ UNCHANGED <<provider, owner, row, msgs, flight, failing, faults>>

\* The Phala resolvers also delete the service's rows still in progress.
Sibling(r, c) == provider = "phala" /\ r # c.row /\ row[r].status \in InProgress

FinishClose(c) ==
  LET doomed == {row[r].vm : r \in {s \in Rows : Sibling(s, c)}} \ {NoVm} IN
  /\ c \in closing /\ c.to # "PAUSED"
  /\ closing' = closing \ {c}
  /\ row' = [r \in Rows |->
       CASE r = c.row  -> [row[r] EXCEPT !.status = c.to, !.upstreamDeleted = c.cleaned]
         [] Sibling(r, c) -> [row[r] EXCEPT !.status = "DELETED"]
         [] OTHER      -> row[r]]
  /\ \E ok \in SUBSET doomed :
       machine' = [v \in Machines |-> IF v \in ok THEN "gone" ELSE machine[v]]
  /\ UNCHANGED <<provider, owner, msgs, flight, failing, faults>>

(* pauseOrgDeployments: an organisation whose balance is low loses its     *)
(* ACTIVE deployments.  The floor counts as a stop; any other error leaves *)
(* the row ACTIVE for the next cycle.  The row is written only if it is    *)
(* ACTIVE still.                                                           *)
StartPause(r) ==
  LET v == row[r].vm  cleaned == CanDelete(v) IN
  /\ row[r].status = "ACTIVE" /\ closing = {}
  /\ closing' = {[row |-> r, to |-> "PAUSED", cleaned |-> cleaned]}
  /\ IF cleaned THEN DeleteMachine(v) ELSE UNCHANGED machine
  /\ UNCHANGED <<provider, owner, row, msgs, flight, failing, faults>>

FinishPause(c) ==
  /\ c \in closing /\ c.to = "PAUSED"
  /\ closing' = closing \ {c}
  /\ row' = IF row[c.row].status = "ACTIVE"
              THEN [row EXCEPT ![c.row].status = "STOPPED",
                               ![c.row].upstreamDeleted = @ \/ (provider = "spheron" /\ c.cleaned)]
              ELSE row
  /\ UNCHANGED <<provider, owner, machine, msgs, flight, failing, faults>>

(* staleDeploymentSweeper.ts: a row in progress that nothing touched for   *)
(* twenty-five minutes is FAILED; its machine is older than the floor.     *)
\* Mutant: the stamp is written though the DELETE failed.
SweepStaleStampsAlways(r) ==
  LET v == row[r].vm IN
  /\ row[r].status \in InProgress
  /\ ~ \E f \in flight : f.row = r
  /\ v # NoVm => machine[v] # "young"
  /\ \/ /\ v # NoVm /\ DeleteMachine(v)
        /\ row' = [row EXCEPT ![r].status = "FAILED", ![r].upstreamDeleted = TRUE]
     \/ /\ v # NoVm => Live(v)
        /\ row' = [row EXCEPT ![r].status = "FAILED", ![r].upstreamDeleted = TRUE]
        /\ UNCHANGED machine
  /\ UNCHANGED <<provider, owner, msgs, flight, failing, closing, faults>>

\* Mutant: only STARTING rows are swept.
SweepStaleStarting(r) ==
  /\ row[r].status = "STARTING" /\ ~ \E f \in flight : f.row = r
  /\ row' = [row EXCEPT ![r].status = "FAILED"]
  /\ UNCHANGED <<provider, machine, owner, msgs, flight, failing, closing, faults>>

SweepStale(r) ==
  LET v == row[r].vm IN
  /\ row[r].status \in InProgress
  /\ ~ \E f \in flight : f.row = r
  /\ v # NoVm => machine[v] # "young"
  /\ \/ /\ v # NoVm /\ DeleteMachine(v)
        /\ row' = [row EXCEPT ![r].status = "FAILED", ![r].upstreamDeleted = TRUE]
     \/ /\ v # NoVm => Live(v)
        /\ row' = [row EXCEPT ![r].status = "FAILED"]
        /\ UNCHANGED machine
  /\ UNCHANGED <<provider, owner, msgs, flight, failing, closing, faults>>

\* reconcileSpheronUpstreamCleanups: the DELETEs that the floor deferred.
NeedsCleanup(r) == /\ provider = "spheron" /\ row[r].status = "DELETED"
                   /\ ~row[r].upstreamDeleted /\ row[r].vm # NoVm
\* Mutant: the row is stamped before the DELETE, which then fails.
CleanUpstreamStampsFirst(r) ==
  /\ NeedsCleanup(r)
  /\ row' = [row EXCEPT ![r].upstreamDeleted = TRUE]
  /\ UNCHANGED <<provider, machine, owner, msgs, flight, failing, closing, faults>>

CleanUpstream(r) ==
  /\ NeedsCleanup(r) /\ CanDelete(row[r].vm)
  /\ DeleteMachine(row[r].vm)
  /\ row' = [row EXCEPT ![r].upstreamDeleted = TRUE]
  /\ UNCHANGED <<provider, owner, msgs, flight, failing, closing, faults>>

\* reconcileActiveDeployments, verdict close_gone, through provider.close.
ReconcileGone(r) ==
  /\ row[r].status = "ACTIVE" /\ machine[row[r].vm] = "gone"
  /\ row' = [row EXCEPT ![r].status = "DELETED", ![r].upstreamDeleted = TRUE]
  /\ UNCHANGED <<provider, owner, machine, msgs, flight, failing, closing, faults>>

-----------------------------------------------------------------------------
FloorPasses(v) == /\ machine[v] = "young" /\ machine' = [machine EXCEPT ![v] = "old"]
                  /\ UNCHANGED <<provider, owner, row, msgs, flight, failing, closing, faults>>
\* Terminated by the upstream, but not in the moment before its id is saved.
MachineDies(v) == /\ Live(v) /\ Fault /\ DeleteMachine(v)
                  /\ ~ \E f \in flight : f.kind # "activate" /\ f.vm = v
                  /\ UNCHANGED <<provider, owner, row, msgs, flight, failing, closing>>

\* A crash drops every handler in progress; the queue keeps its messages.
\* Spheron's resumeStuckDeployments starts the rows in progress again.
Crash ==
  /\ Fault
  /\ flight' = {} /\ failing' = {} /\ closing' = {}
  /\ msgs' = msgs \cup
       {Step(IF row[r].vm = NoVm THEN "DEPLOY"
             ELSE IF row[r].ip THEN "RUN_CLOUDINIT_PROBE" ELSE "POLL_STATUS", r, 1) :
          r \in {s \in Rows : provider = "spheron" /\ row[s].status \in InProgress}}
  /\ UNCHANGED <<provider, owner, row, machine>>

Next ==
  \/ \E r \in Rows : \/ Deploy(r) \/ StartClose(r) \/ StartPause(r) \/ SweepStale(r)
                     \/ CleanUpstream(r) \/ ReconcileGone(r)
  \/ \E m \in msgs : \/ HandleDeploy(m) \/ HandlePoll(m) \/ HandleProbe(m) \/ HandleFailure(m)
  \/ \E f \in flight : SaveLaunched(f) \/ SaveDeployed(f) \/ Activate(f)
  \/ \E f \in failing : WriteFailed(f) \/ FinishFailure(f)
  \/ \E c \in closing : FinishClose(c) \/ FinishPause(c)
  \/ \E v \in Machines : FloorPasses(v) \/ MachineDies(v)
  \/ Crash

\* A handler that started runs to its end unless the process crashes; the
\* sweeper runs every few minutes on the leader; time passes; the upstream
\* eventually accepts a DELETE.
Fairness ==
  /\ WF_vars(\E f \in flight : SaveLaunched(f) \/ SaveDeployed(f) \/ Activate(f))
  /\ WF_vars(\E c \in closing : FinishClose(c) \/ FinishPause(c))
  /\ \A r \in Rows : WF_vars(SweepStale(r)) /\ WF_vars(CleanUpstream(r))
  /\ \A v \in Machines : WF_vars(FloorPasses(v))

-----------------------------------------------------------------------------
(* Properties. *)

\* upstreamDeletedAt is the only thing the cleanup sweep looks at, so it must
\* be true: a stamped Spheron row that names a machine names a dead one,
\* whatever order the creation, the close and the sweep wrote it in.
StampIsTrue ==
  \A r \in Rows : provider = "spheron" /\ row[r].upstreamDeleted /\ row[r].vm # NoVm
                    => machine[row[r].vm] = "gone"

\* No row stays CREATING or STARTING, though every message of it be lost.
LeavesProgress == \A r \in Rows : row[r].status \in InProgress ~> row[r].status \notin InProgress

\* A deleted Spheron row whose machine the floor kept alive gets rid of it,
\* unless a handler that read the row earlier brought it back.
DeferredMachineIsDeleted ==
  \A r \in Rows : \A v \in Machines :
    NeedsCleanup(r) /\ row[r].vm = v ~> machine[v] = "gone" \/ row[r].status # "DELETED"

\* computeBillingScheduler.ts:1541 leaves a paused row STOPPED and says that
\* the sweep "still cleans the upstream VM eventually": the machine of a paused
\* Spheron row goes away.
PausedMachineIsDeleted ==
  \A r \in Rows : \A v \in Machines :
    provider = "spheron" /\ row[r].status = "STOPPED" /\ row[r].vm = v /\ Live(v)
      ~> machine[v] = "gone" \/ row[r].status # "STOPPED"

Spec == Init /\ [][Next]_vars
FairSpec == Spec /\ Fairness
=============================================================================

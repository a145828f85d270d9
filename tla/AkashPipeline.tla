--------------------------- MODULE AkashPipeline ---------------------------
(***************************************************************************)
(* The step pipeline that deploys a service on Akash                       *)
(* (services/queue/akashSteps.ts): QStash delivers one message per step,   *)
(* each handler reads the deployment's row, acts on the chain or at the    *)
(* provider, writes the row and publishes the next step.  A failure hands  *)
(* the row to HANDLE_FAILURE, which retries with a new row.  Beside the    *)
(* handlers work the user who closes a deployment, the stale-deployment    *)
(* sweeper and the escrow monitor, which reconciles the chain with the     *)
(* rows.                                                                   *)
(*                                                                         *)
(* A row is one attempt to deploy ONE service; a deployment on the chain   *)
(* has a sequence number, its dseq, and 0 stands for the temporary number  *)
(* of a row that has none yet.  Awaits are the points where another        *)
(* process may act: a handler is a sequence of actions, one per call.      *)
(***************************************************************************)
EXTENDS Naturals, FiniteSets

CONSTANTS
  Worker,     \* requests that are handled at the same time, over all pods
  MaxRetry,   \* MAX_RETRY_COUNT
  MaxPolls,   \* BID_POLL_MAX_ATTEMPTS and URL_POLL_MAX_ATTEMPTS
  MaxRows,    \* bound: rows that may be created
  MaxDseq,    \* bound: deployments the chain accepts
  MaxFaults   \* bound: crashes, duplicates, refused closes, failed calls, and the
              \* close by the user

ASSUME PipelineAssumption ==
  /\ IsFiniteSet(Worker)
  /\ MaxRetry \in Nat /\ MaxFaults \in Nat
  /\ MaxPolls \in Nat \ {0} /\ MaxRows \in Nat \ {0} /\ MaxDseq \in Nat \ {0}

VARIABLES
  row,        \* the rows of akash_deployment
  chain,      \* the deployments on the chain
  queue,      \* messages QStash has yet to deliver
  worker,     \* the handlers in progress
  user,       \* the closeAkashDeployment mutation in progress
  sweeper,    \* the stale-deployment sweep in progress
  monitor,    \* the escrow monitor's pass in progress
  stopped,    \* history: the user has closed a row of the service
  redeployed, \* the service has a CLOSED row of an earlier deployment
  faults      \* how often the pipeline was disturbed so far

vars == <<row, chain, queue, worker, user, sweeper, monitor, stopped, redeployed, faults>>
others == <<user, sweeper, monitor, stopped, redeployed>>

----------------------------------------------------------------------------
\* Data

Attempt == 1..MaxRows
Dseq == 1..MaxDseq

InProgress == {"CREATING", "WAITING_BIDS", "SELECTING_BID", "CREATING_LEASE",
               "SENDING_MANIFEST", "DEPLOYING"}
Terminal == {"ACTIVE", "CLOSED", "FAILED", "PERMANENTLY_FAILED"}
ShouldBeClosed == {"CLOSED", "PERMANENTLY_FAILED", "FAILED", "CLOSE_FAILED"}
Status == InProgress \cup Terminal
            \cup {"ABSENT", "AWAITING_REGION_RESPONSE", "CLOSE_FAILED"}

Row == [status : Status, tries : 0..MaxRetry, dseq : 0..MaxDseq]

Step == {"SUBMIT_TX", "CHECK_BIDS", "CREATE_LEASE", "SEND_MANIFEST", "POLL_URLS",
         "HANDLE_FAILURE"}
\* poll counts the attempts of a polling step; final marks an error that a
\* retry cannot mend.
Message == [step : Step, at : Attempt, poll : 1..MaxPolls, final : BOOLEAN]
Msg(s, a) == [step |-> s, at |-> a, poll |-> 1, final |-> FALSE]
Failure(a, f) == [Msg("HANDLE_FAILURE", a) EXCEPT !.final = f]

Open(d) == chain[d] \in {"open", "leased"}
Exists(a) == row[a].status # "ABSENT"
Unused == {a \in Attempt : ~Exists(a)}
IsLeast(n, S) == n \in S /\ \A m \in S : n <= m

\* A row of the service is CLOSED: the user gave the service up, or so the
\* handlers read it.
Cancelled == redeployed \/ \E a \in Attempt : row[a].status = "CLOSED"

Idle == [pc |-> "idle"]
At(w, pc) == worker[w].pc = pc
Here(w) == worker[w].at

----------------------------------------------------------------------------
\* Steps shared by the handlers

Goto(w, pc) == worker' = [worker EXCEPT ![w].pc = pc]
Finish(w) == worker' = [worker EXCEPT ![w] = Idle]
Publish(w, m) == worker' = [worker EXCEPT ![w].pc = "publish", ![w].next = m]
SetStatus(a, s) == row' = [row EXCEPT ![a].status = s]
Fault == faults < MaxFaults /\ faults' = faults + 1

\* The chain closes d, or refuses.
Closes(d) == /\ chain' = IF d = 0 THEN chain ELSE [chain EXCEPT ![d] = "closed"]
             /\ UNCHANGED faults
Refuses(d) == /\ d # 0 /\ Open(d)
              /\ Fault
              /\ UNCHANGED chain

FirstPc(m) ==
  CASE m.step = "SUBMIT_TX"      -> IF row[m.at].tries > 0 /\ Cancelled THEN "cancel" ELSE "submit"
    [] m.step = "CHECK_BIDS"     -> "bids"
    [] m.step = "CREATE_LEASE"   -> "lease"
    [] m.step = "SEND_MANIFEST"  -> "manifest"
    [] m.step = "POLL_URLS"      -> "poll"
    [] m.step = "HANDLE_FAILURE" -> "fail_row"

\* Mutant: the handler acts on a row that has ended.
ReceiveUnguarded(w, m) ==
  /\ At(w, "idle") /\ m \in queue
  /\ \/ queue' = queue \ {m} /\ UNCHANGED faults
     \/ UNCHANGED queue /\ Fault
  /\ worker' = [worker EXCEPT ![w] =
       [pc |-> FirstPc(m), msg |-> m, at |-> m.at, dseq |-> row[m.at].dseq, next |-> m]]
  /\ UNCHANGED <<row, chain, others>>

\* A message is delivered, possibly once more while it is being handled.  The
\* handler reads the row, and returns if it has ended.
Receive(w, m) ==
  /\ At(w, "idle") /\ m \in queue
  /\ \/ queue' = queue \ {m} /\ UNCHANGED faults
     \/ UNCHANGED queue /\ Fault
  /\ IF row[m.at].status \in Terminal
       THEN UNCHANGED worker
       ELSE worker' = [worker EXCEPT ![w] =
              [pc |-> FirstPc(m), msg |-> m, at |-> m.at, dseq |-> row[m.at].dseq, next |-> m]]
  /\ UNCHANGED <<row, chain, others>>

\* The handler publishes the message that follows, and its own is acknowledged.
Send(w) ==
  /\ At(w, "publish")
  /\ queue' = queue \cup {worker[w].next}
  /\ Finish(w)
  /\ UNCHANGED <<row, chain, faults, others>>

\* Publishing throws, although the message may have left: POLL_URLS polls on or
\* activates the row, a retry that was not published fails, any other step
\* reports a failure.
SendFails(w) ==
  /\ At(w, "publish") /\ Fault
  /\ queue' \in {queue, queue \cup {worker[w].next}}
  /\ LET m == worker[w].msg
     IN CASE m.step = "POLL_URLS" ->
               IF m.poll = MaxPolls THEN Goto(w, "finalize")
               ELSE Publish(w, [m EXCEPT !.poll = @ + 1])
          [] m.step = "HANDLE_FAILURE" ->
               worker' = [worker EXCEPT ![w].pc = "abandon", ![w].at = worker[w].next.at]
          [] OTHER -> Goto(w, "report")
  /\ UNCHANGED <<row, chain, others>>

\* The catch block hands the row to HANDLE_FAILURE, or fails it directly.  Only the
\* steps that read the SDL report an error of the SDL, which is final.
Report(w) ==
  /\ At(w, "report")
  /\ \/ /\ \E f \in IF worker[w].msg.step \in {"SUBMIT_TX", "SEND_MANIFEST"}
                    THEN BOOLEAN ELSE {FALSE} :
             queue' = queue \cup {Failure(Here(w), f)}
        /\ Finish(w) /\ UNCHANGED faults
     \/ UNCHANGED queue /\ Goto(w, "abandon") /\ Fault
  /\ UNCHANGED <<row, chain, others>>

Abandon(w) ==
  /\ At(w, "abandon")
  /\ Closes(row[Here(w)].dseq) \/ Refuses(row[Here(w)].dseq)
  /\ Goto(w, "write_off")
  /\ UNCHANGED <<row, queue, others>>

WriteOff(w) ==
  /\ At(w, "write_off")
  /\ SetStatus(Here(w), "FAILED")
  /\ Finish(w)
  /\ UNCHANGED <<chain, queue, faults, others>>

\* A call in the handler's try block throws.
Throws(w) ==
  /\ worker[w].pc \in {"save_dseq", "select", "choose", "save_bid", "await", "save_lease",
                      "save_manifest", "activate"}
  /\ Fault
  /\ Goto(w, "report")
  /\ UNCHANGED <<row, chain, queue, others>>

\* The process dies, or the handler answers 500: the message is delivered again,
\* unless QStash has given it up.
Crash(w) ==
  /\ ~At(w, "idle") /\ Fault
  /\ queue' \in {queue, queue \cup {worker[w].msg}}
  /\ Finish(w)
  /\ UNCHANGED <<row, chain, others>>

\* A handler's last write: the row reaches a status, and the next step is published.
Advance(w, status, step) ==
  /\ SetStatus(Here(w), status)
  /\ Publish(w, Msg(step, Here(w)))
  /\ UNCHANGED <<chain, queue, faults, others>>

----------------------------------------------------------------------------
\* SUBMIT_TX

\* A retry of a service that the user gave up is not submitted.
CancelRetry(w) ==
  /\ At(w, "cancel")
  /\ SetStatus(Here(w), "CLOSED")
  /\ Finish(w)
  /\ UNCHANGED <<chain, queue, faults, others>>

\* The chain creates a deployment, whose dseq may be missing from its answers.
Submit(w) ==
  /\ At(w, "submit")
  /\ \E d \in Dseq :
       /\ IsLeast(d, {e \in Dseq : chain[e] = "none"})
       /\ chain' = [chain EXCEPT ![d] = "open"]
       /\ \/ /\ worker' = [worker EXCEPT ![w].pc = "save_dseq", ![w].dseq = d]
             /\ UNCHANGED faults
          \/ Goto(w, "report") /\ Fault
  /\ UNCHANGED <<row, queue, others>>

\* The chain rejects the step's transaction, or its answer cannot be read.
Rejected(w) ==
  /\ worker[w].pc \in {"submit", "bids", "lease", "manifest"}
  /\ Goto(w, "report")
  /\ UNCHANGED <<row, chain, queue, faults, others>>

SaveDseq(w) ==
  /\ At(w, "save_dseq")
  /\ row' = [row EXCEPT ![Here(w)].dseq = worker[w].dseq, ![Here(w)].status = "WAITING_BIDS"]
  /\ Publish(w, Msg("CHECK_BIDS", Here(w)))
  /\ UNCHANGED <<chain, queue, faults, others>>

----------------------------------------------------------------------------
\* CHECK_BIDS

PollAgain(w) ==
  LET m == worker[w].msg
  IN m.poll < MaxPolls /\ Publish(w, [m EXCEPT !.poll = @ + 1])

\* The last poll fails the row, or leaves it to the user who chose a region.
PollsExhausted(w) ==
  /\ worker[w].msg.poll = MaxPolls
  /\ Goto(w, "await") \/ Publish(w, Failure(Here(w), FALSE))

CheckBids(w) ==
  /\ At(w, "bids")
  /\ PollAgain(w) \/ PollsExhausted(w) \/ Goto(w, "select")
  /\ UNCHANGED <<row, chain, queue, faults, others>>

SelectingBid(w) ==
  /\ At(w, "select")
  /\ SetStatus(Here(w), "SELECTING_BID")
  /\ Goto(w, "choose")
  /\ UNCHANGED <<chain, queue, faults, others>>

\* Mutant: no return after the failure of an unsafe bid is published.
ChooseBidAnyway(w) ==
  /\ At(w, "choose")
  /\ queue' \in {queue, queue \cup {Failure(Here(w), FALSE)}}
  /\ Goto(w, "save_bid")
  /\ UNCHANGED <<row, chain, faults, others>>

\* Of the bids none is safe, none matches yet, or one is chosen.
ChooseBid(w) ==
  /\ At(w, "choose")
  /\ \/ Publish(w, Failure(Here(w), FALSE))
     \/ PollAgain(w) \/ PollsExhausted(w)
     \/ Goto(w, "save_bid")
  /\ UNCHANGED <<row, chain, queue, faults, others>>

AwaitRegion(w) ==
  /\ At(w, "await")
  /\ SetStatus(Here(w), "AWAITING_REGION_RESPONSE")
  /\ Finish(w)
  /\ UNCHANGED <<chain, queue, faults, others>>

SaveBid(w) == At(w, "save_bid") /\ Advance(w, "CREATING_LEASE", "CREATE_LEASE")

----------------------------------------------------------------------------
\* CREATE_LEASE and SEND_MANIFEST

\* The chain takes one lease for a deployment, and only while it is open.
CreateLease(w) ==
  /\ At(w, "lease")
  /\ worker[w].dseq # 0 /\ chain[worker[w].dseq] = "open"
  /\ chain' = [chain EXCEPT ![worker[w].dseq] = "leased"]
  /\ Goto(w, "save_lease")
  /\ UNCHANGED <<row, queue, faults, others>>

SaveLease(w) == At(w, "save_lease") /\ Advance(w, "SENDING_MANIFEST", "SEND_MANIFEST")

Leased(w) == worker[w].dseq # 0 /\ chain[worker[w].dseq] = "leased"

SendManifest(w) ==
  /\ At(w, "manifest") /\ Leased(w)
  /\ Goto(w, "save_manifest")
  /\ UNCHANGED <<row, chain, queue, faults, others>>

SaveManifest(w) == At(w, "save_manifest") /\ Advance(w, "DEPLOYING", "POLL_URLS")

----------------------------------------------------------------------------
\* POLL_URLS

\* The provider reports the service ready or not.  A lease-status query that
\* fails, for one of a deployment that is gone, is repeated, and the last
\* failure activates the row.
PollUrls(w) ==
  LET m == worker[w].msg
  IN /\ At(w, "poll")
     /\ \/ PollAgain(w)
        \/ Leased(w) /\ Goto(w, "finalize")
        \/ /\ m.poll = MaxPolls
           /\ \/ \E f \in BOOLEAN : Leased(w) /\ Publish(w, Failure(Here(w), f))
              \/ Goto(w, "finalize")
     /\ UNCHANGED <<row, chain, queue, faults, others>>

\* The escrow is created, or the row is failed.
Finalize(w) ==
  /\ At(w, "finalize")
  /\ Goto(w, "activate") \/ Goto(w, "report")
  /\ UNCHANGED <<row, chain, queue, faults, others>>

Activate(w) ==
  /\ At(w, "activate")
  /\ SetStatus(Here(w), "ACTIVE")
  /\ \/ Finish(w) /\ UNCHANGED faults
     \/ Goto(w, "report") /\ Fault
  /\ UNCHANGED <<chain, queue, others>>

----------------------------------------------------------------------------
\* HANDLE_FAILURE

\* Mutant: one retry too many.
MarkFailedLate(w) ==
  /\ At(w, "fail_row")
  /\ SetStatus(Here(w), "FAILED")
  /\ Goto(w, IF worker[w].msg.final \/ row[Here(w)].tries > MaxRetry
             THEN "give_up" ELSE "retry")
  /\ UNCHANGED <<chain, queue, faults, others>>

MarkFailed(w) ==
  /\ At(w, "fail_row")
  /\ SetStatus(Here(w), "FAILED")
  /\ Goto(w, IF worker[w].msg.final \/ row[Here(w)].tries = MaxRetry
             THEN "give_up" ELSE "retry")
  /\ UNCHANGED <<chain, queue, faults, others>>

\* A service that the user gave up is not retried: its row is buried as it is.
Retry(w) ==
  /\ At(w, "retry")
  /\ Goto(w, IF Cancelled THEN "bury" ELSE "reclaim")
  /\ UNCHANGED <<row, chain, queue, faults, others>>

\* Mutant: the failed row's deployment is closed only when the row is given up.
ReclaimLast(w) ==
  /\ worker[w].pc \in {"reclaim", "give_up"}
  /\ IF At(w, "give_up") THEN Closes(worker[w].dseq) ELSE UNCHANGED <<chain, faults>>
  /\ Goto(w, IF At(w, "reclaim") THEN "spawn" ELSE "bury")
  /\ UNCHANGED <<row, queue, others>>

\* The failed row's deployment is closed on the chain; a refusal is swallowed.
Reclaim(w) ==
  /\ worker[w].pc \in {"reclaim", "give_up"}
  /\ Closes(worker[w].dseq) \/ Refuses(worker[w].dseq)
  /\ Goto(w, IF At(w, "reclaim") THEN "spawn" ELSE "bury")
  /\ UNCHANGED <<row, queue, others>>

Spawn(w) ==
  /\ At(w, "spawn")
  /\ \E a \in Attempt :
       /\ IsLeast(a, Unused)
       /\ row' = [row EXCEPT ![a] =
                    [status |-> "CREATING", tries |-> row[Here(w)].tries + 1, dseq |-> 0]]
       /\ Publish(w, Msg("SUBMIT_TX", a))
  /\ UNCHANGED <<chain, queue, faults, others>>

Bury(w) ==
  /\ At(w, "bury")
  /\ SetStatus(Here(w), "PERMANENTLY_FAILED")
  /\ Finish(w)
  /\ UNCHANGED <<chain, queue, faults, others>>

Handle(w) ==
  \/ Send(w) \/ SendFails(w) \/ Report(w) \/ Abandon(w) \/ WriteOff(w)
  \/ CancelRetry(w) \/ Submit(w) \/ Rejected(w) \/ SaveDseq(w)
  \/ CheckBids(w) \/ SelectingBid(w) \/ ChooseBid(w) \/ AwaitRegion(w) \/ SaveBid(w)
  \/ CreateLease(w) \/ SaveLease(w) \/ SendManifest(w) \/ SaveManifest(w)
  \/ PollUrls(w) \/ Finalize(w) \/ Activate(w)
  \/ MarkFailed(w) \/ Retry(w) \/ Reclaim(w) \/ Spawn(w) \/ Bury(w)

----------------------------------------------------------------------------
\* closeAkashDeployment: the user closes one row, then the rows in progress

UserStops(a) ==
  /\ user.pc = "idle" /\ ~stopped
  /\ row[a].status \notin {"ABSENT", "CLOSED"}
  /\ Fault
  /\ user' = [pc |-> "close", at |-> a, dseq |-> row[a].dseq, todo |-> {}]
  /\ UNCHANGED <<row, chain, queue, worker, sweeper, monitor, stopped, redeployed>>

\* The chain's answer is ignored.
UserCloses ==
  /\ user.pc = "close"
  /\ Closes(user.dseq) \/ Refuses(user.dseq)
  /\ user' = [user EXCEPT !.pc = "mark"]
  /\ UNCHANGED <<row, queue, worker, sweeper, monitor, stopped, redeployed>>

UserMarks ==
  /\ user.pc = "mark"
  /\ SetStatus(user.at, "CLOSED")
  /\ user' = [user EXCEPT !.pc = IF stopped THEN "next" ELSE "siblings"]
  /\ stopped' = TRUE
  /\ UNCHANGED <<chain, queue, worker, sweeper, monitor, redeployed, faults>>

UserReadsSiblings ==
  /\ user.pc = "siblings"
  /\ user' = [user EXCEPT !.pc = "next", !.todo =
                {[at |-> a, dseq |-> row[a].dseq] :
                   a \in {b \in Attempt : b # user.at /\ row[b].status \in InProgress}}]
  /\ UNCHANGED <<row, chain, queue, worker, sweeper, monitor, stopped, redeployed, faults>>

UserTakesSibling ==
  /\ user.pc = "next"
  /\ \/ /\ user.todo = {}
        /\ user' = Idle
     \/ \E t \in user.todo :
          user' = [pc |-> "close", at |-> t.at, dseq |-> t.dseq, todo |-> user.todo \ {t}]
  /\ UNCHANGED <<row, chain, queue, worker, sweeper, monitor, stopped, redeployed, faults>>

UserStep == UserCloses \/ UserMarks \/ UserReadsSiblings \/ UserTakesSibling

----------------------------------------------------------------------------
\* The stale-deployment sweeper

\* A message or a handler is under way for row a.
Driven(a) ==
  \/ \E m \in queue : m.at = a
  \/ \E w \in Worker : /\ ~At(w, "idle")
                       /\ Here(w) = a \/ (At(w, "publish") /\ worker[w].next.at = a)

\* Mutant: a row that is sending its manifest is never stuck.
SweepPicksSome(a) ==
  /\ sweeper.pc = "idle"
  /\ row[a].status \in (InProgress \ {"SENDING_MANIFEST"}) \cup {"AWAITING_REGION_RESPONSE"}
  /\ IF row[a].status \in InProgress /\ Driven(a) THEN Fault ELSE UNCHANGED faults
  /\ sweeper' = [pc |-> "close", at |-> a, saw |-> row[a].status,
                 dseq |-> row[a].dseq, ok |-> TRUE]
  /\ UNCHANGED <<row, chain, queue, worker, user, monitor, stopped, redeployed>>

\* A row is stuck in progress, waits for a region choice that nobody makes, or is
\* ACTIVE without a lease.  A row with a message or a handler under way ages only
\* if that is held up longer than the threshold, which counts as a fault.
SweepPicks(a) ==
  /\ sweeper.pc = "idle"
  /\ \/ row[a].status \in InProgress
     \/ row[a].status = "AWAITING_REGION_RESPONSE"
     \/ row[a].status = "ACTIVE" /\ chain[row[a].dseq] # "leased"
  /\ IF row[a].status \in InProgress /\ Driven(a) THEN Fault ELSE UNCHANGED faults
  /\ sweeper' = [pc |-> "close", at |-> a, saw |-> row[a].status,
                 dseq |-> row[a].dseq, ok |-> TRUE]
  /\ UNCHANGED <<row, chain, queue, worker, user, monitor, stopped, redeployed>>

SweepCloses ==
  /\ sweeper.pc = "close"
  /\ \/ Closes(sweeper.dseq) /\ sweeper' = [sweeper EXCEPT !.pc = "mark"]
     \/ Refuses(sweeper.dseq) /\ sweeper' = [sweeper EXCEPT !.pc = "mark", !.ok = FALSE]
  /\ UNCHANGED <<row, queue, worker, user, monitor, stopped, redeployed>>

\* Only the row stuck in progress is updated on condition that it has not moved;
\* a row whose lease is gone is closed whatever the chain answered.
SweepMarks ==
  /\ sweeper.pc = "mark"
  /\ LET failed == IF sweeper.ok THEN "FAILED" ELSE "CLOSE_FAILED"
     IN CASE sweeper.saw = "ACTIVE" -> SetStatus(sweeper.at, "CLOSED")
          [] sweeper.saw = "AWAITING_REGION_RESPONSE" -> SetStatus(sweeper.at, failed)
          [] OTHER -> IF row[sweeper.at].status = sweeper.saw
                        THEN SetStatus(sweeper.at, failed) ELSE UNCHANGED row
  /\ sweeper' = Idle
  /\ UNCHANGED <<chain, queue, worker, user, monitor, stopped, redeployed, faults>>

SweepStep == (\E a \in Attempt : SweepPicks(a)) \/ SweepCloses \/ SweepMarks

----------------------------------------------------------------------------
\* The escrow monitor

Owners(d) == {a \in Attempt : row[a].dseq = d}

\* An ACTIVE row's deployment is gone from the chain.
MonitorFindsGone(a) ==
  /\ monitor.pc = "idle"
  /\ row[a].status = "ACTIVE" /\ row[a].dseq # 0 /\ ~Open(row[a].dseq)
  /\ monitor' = [pc |-> "close", at |-> a, dseq |-> row[a].dseq, gone |-> TRUE, ok |-> TRUE]
  /\ UNCHANGED <<row, chain, queue, worker, user, sweeper, stopped, redeployed, faults>>

\* Mutant: a row whose close failed counts as being in progress.
MonitorFindsLeakLess(d) ==
  /\ monitor.pc = "idle" /\ Open(d)
  /\ \A a \in Owners(d) : row[a].status \in ShouldBeClosed \ {"CLOSE_FAILED"}
  /\ Owners(d) = {} => \A w \in Worker : ~(At(w, "save_dseq") /\ worker[w].dseq = d)
  /\ \E a \in IF Owners(d) = {} THEN {0} ELSE Owners(d) :
       monitor' = [pc |-> "close", at |-> a, dseq |-> d, gone |-> FALSE, ok |-> TRUE]
  /\ UNCHANGED <<row, chain, queue, worker, user, sweeper, stopped, redeployed, faults>>

\* A deployment is open on the chain that no row knows, or whose row has ended.
\* One that a handler is about to record is younger than ORPHAN_MIN_AGE_BLOCKS.
MonitorFindsLeak(d) ==
  /\ monitor.pc = "idle" /\ Open(d)
  /\ \A a \in Owners(d) : row[a].status \in ShouldBeClosed
  /\ Owners(d) = {} => \A w \in Worker : ~(At(w, "save_dseq") /\ worker[w].dseq = d)
  /\ \E a \in IF Owners(d) = {} THEN {0} ELSE Owners(d) :
       monitor' = [pc |-> "close", at |-> a, dseq |-> d, gone |-> FALSE, ok |-> TRUE]
  /\ UNCHANGED <<row, chain, queue, worker, user, sweeper, stopped, redeployed, faults>>

\* A leak that the chain refuses to close is left to the next pass.
MonitorCloses ==
  /\ monitor.pc = "close"
  /\ \/ Closes(monitor.dseq) /\ monitor' = [monitor EXCEPT !.pc = "sync"]
     \/ /\ Fault /\ UNCHANGED chain
        /\ monitor' = IF monitor.gone THEN [monitor EXCEPT !.pc = "sync", !.ok = FALSE]
                      ELSE Idle
  /\ UNCHANGED <<row, queue, worker, user, sweeper, stopped, redeployed>>

MonitorSyncs ==
  /\ monitor.pc = "sync"
  /\ LET a == monitor.at
         stays == IF monitor.gone THEN Status \ {"ACTIVE"} ELSE {"CLOSED", "PERMANENTLY_FAILED"}
     IN IF a = 0 \/ row[a].status \in stays
        THEN UNCHANGED row
        ELSE SetStatus(a, IF monitor.ok THEN "CLOSED" ELSE "CLOSE_FAILED")
  /\ monitor' = Idle
  /\ UNCHANGED <<chain, queue, worker, user, sweeper, stopped, redeployed, faults>>

MonitorStep ==
  \/ \E a \in Attempt : MonitorFindsGone(a)
  \/ \E d \in Dseq : MonitorFindsLeak(d)
  \/ MonitorCloses \/ MonitorSyncs

\* The mutation or the pass ends early.
Dies ==
  /\ Fault
  /\ \/ user.pc # "idle" /\ user' = Idle /\ UNCHANGED <<sweeper, monitor>>
     \/ sweeper.pc # "idle" /\ sweeper' = Idle /\ UNCHANGED <<user, monitor>>
     \/ monitor.pc # "idle" /\ monitor' = Idle /\ UNCHANGED <<user, sweeper>>
  /\ UNCHANGED <<row, chain, queue, worker, stopped, redeployed>>

----------------------------------------------------------------------------
\* The specification

\* deployService has created the first row; its publish may have failed.
Init ==
  /\ row = [a \in Attempt |->
             [status |-> IF a = 1 THEN "CREATING" ELSE "ABSENT", tries |-> 0, dseq |-> 0]]
  /\ chain = [d \in 0..MaxDseq |-> "none"]
  /\ queue \in {{}, {Msg("SUBMIT_TX", 1)}}
  /\ worker = [w \in Worker |-> Idle]
  /\ user = Idle /\ sweeper = Idle /\ monitor = Idle
  /\ stopped = FALSE
  /\ redeployed \in BOOLEAN
  /\ faults = 0

Deliver(w) == \E m \in queue : Receive(w, m)

Next ==
  \/ \E w \in Worker : Deliver(w) \/ Handle(w) \/ Throws(w) \/ Crash(w)
  \/ \E a \in Attempt : UserStops(a)
  \/ UserStep \/ SweepStep \/ MonitorStep \/ Dies

\* QStash delivers, handlers and the mutation run on, and both background
\* passes repeat.  Nothing obliges a user to close, or anything to fail.
Fairness ==
  /\ \A w \in Worker : WF_vars(Deliver(w)) /\ WF_vars(Handle(w))
  /\ WF_vars(UserStep) /\ WF_vars(SweepStep) /\ WF_vars(MonitorStep)

Spec == Init /\ [][Next]_vars /\ Fairness

----------------------------------------------------------------------------
\* Properties

Pc == {"submit", "cancel", "save_dseq", "bids", "select", "choose", "await", "save_bid",
       "lease", "save_lease", "manifest", "save_manifest", "poll", "finalize", "activate",
       "fail_row", "retry", "reclaim", "give_up", "spawn", "bury", "publish", "report",
       "abandon", "write_off"}

\* The variables keep their types, and a row has a dseq only once the chain gave it.
TypeOK ==
  /\ row \in [Attempt -> Row]
  /\ chain \in [0..MaxDseq -> {"none", "open", "leased", "closed"}] /\ chain[0] = "none"
  /\ \A a \in Attempt : row[a].dseq # 0 => chain[row[a].dseq] # "none"
  /\ queue \subseteq Message
  /\ \A w \in Worker : worker[w] = Idle \/
       worker[w] \in [pc : Pc, msg : Message, at : Attempt, dseq : 0..MaxDseq, next : Message]
  /\ stopped \in BOOLEAN /\ redeployed \in BOOLEAN
  /\ faults \in 0..MaxFaults

\* A retry closes the failed attempt's deployment before it opens another: a
\* service holds one deposit on the chain.  A fault adds at most two, one that
\* nobody closes and one of a forked retry.
OneDeposit == Cardinality({d \in Dseq : Open(d)}) <= 1 + 2 * faults

\* The retries of a service do not multiply: there is one row per retry, and
\* each fault (a duplicate, a crash after publishing) forks at most one more.
RetriesDoNotMultiply ==
  \A k \in 0..MaxRetry :
    Cardinality({a \in Attempt : Exists(a) /\ row[a].tries = k}) <= 1 + faults

\* Nobody is at work on a row that has ended.
AtRest(a) ==
  /\ row[a].status \in {"CLOSED", "FAILED", "PERMANENTLY_FAILED"}
  /\ \A w \in Worker : At(w, "idle") \/ Here(w) # a
  /\ sweeper.pc = "idle" \/ sweeper.at # a

\* A stale or duplicate message revives no row: one that has ended, with nobody
\* at work on it, has ended for ever.
EndedRowsRest ==
  \A a \in Attempt :
    [](AtRest(a) => [](row[a].status \in {"CLOSED", "FAILED", "PERMANENTLY_FAILED"}))

\* Every attempt ends: no lost message, crash or refused close leaves a row in
\* progress, or waiting for a region, for ever.
AttemptsEnd ==
  \A a \in Attempt :
    (row[a].status \in InProgress \cup {"AWAITING_REGION_RESPONSE"})
      ~> (row[a].status \in Terminal \cup {"CLOSE_FAILED"})

\* The chain and the rows come to agree: in the end exactly the deployments of
\* ACTIVE rows are open, and they are leased, whatever was lost on the way.
ChainMatchesRows ==
  <>[](/\ \A d \in Dseq : Open(d) => \E a \in Owners(d) : row[a].status = "ACTIVE"
       /\ \A a \in Attempt : row[a].status = "ACTIVE" => chain[row[a].dseq] = "leased")

\* Once the user's close has returned, no retry of the service becomes ACTIVE.
StopEndsRetries ==
  [][stopped /\ user.pc = "idle" =>
       \A a \in Attempt : row[a].tries > 0 /\ row'[a].status = "ACTIVE"
                             => row[a].status = "ACTIVE"]_vars
=============================================================================
